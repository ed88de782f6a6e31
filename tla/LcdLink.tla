------------------------------ MODULE LcdLink ------------------------------
(***************************************************************************)
(* From a drawing call to the display: the driver for programs without SDK *)
(* (src/picocalc/bare/picocalc_lcd_bare.c, and dma_probe.c), the SPI port  *)
(* with its FIFOs and the display's decoder, as the emulator has them      *)
(* (bin_emu.c, emu_lcd.c).                                                 *)
(*                                                                         *)
(* A call, of text each character, is written as what it does to the port, *)
(* access by access; the port moves bytes while the driver runs.           *)
(***************************************************************************)
EXTENDS LcdScreen

CONSTANTS
  SPI_FIFO_SIZE,
  ByteMod,          \* 256
  MaxCalls          \* bound: the drawing calls of a program

\* Two bytes hold a coordinate.
ASSUME PortAssumption == ByteMod \in Nat \ {0} /\ {Width, Height} \subseteq 0 .. ByteMod * ByteMod

VARIABLES
  script,           \* what the driver has still to do for the call
  puts,             \* what is left of a text, a call of picocalc_lcd_puts_scale
  spi,              \* g_spi: tx is the FIFO, rx the number of bytes to be read
  lcd,              \* g_lcd
  calls             \* the number of drawing calls made

linkVars == <<shown, wanted, script, puts, spi, lcd, calls>>

-----------------------------------------------------------------------------
(* The driver                                                               *)

COLADDR == 42
PAGEADDR == 43
MEMWRITE == 44

cs(level) == <<<<"cs", level>>>>
dc(level) == <<<<"dc", level>>>>
\* Through the FIFO; moved by the processor or by DMA.
spi_write(bytes) == [i \in DOMAIN bytes |-> <<"send", bytes[i]>>]
dma(bytes) == [i \in DOMAIN bytes |-> <<"dma", bytes[i]>>]
\* The three loops, and the overrun cleared.
spi_finish == <<<<"empty", 0>>, <<"idle", 0>>, <<"drain", 0>>, <<"clear", 0>>>>

lcd_command(command) == dc(0) \o cs(0) \o spi_write(<<command>>) \o spi_finish \o cs(1)
Data(transfer) == dc(1) \o cs(0) \o transfer \o spi_finish \o cs(1)
lcd_command_data(command, data) == lcd_command(command) \o Data(spi_write(data))

Coordinates(a, b) == <<(a \div ByteMod) % ByteMod, a % ByteMod, (b \div ByteMod) % ByteMod, b % ByteMod>>
lcd_set_window(x1, y1, x2, y2) ==
  lcd_command_data(COLADDR, Coordinates(x1, x2)) \o lcd_command_data(PAGEADDR, Coordinates(y1, y2))
    \o lcd_command(MEMWRITE)

Low(a) == IF a < 0 THEN 0 ELSE a
High(a, size) == IF a >= size THEN size - 1 ELSE a
\* The bytes of a rectangle, row by row; colour[p] is what pixel p is to show.
PixelBytes(left, top, width, height, colour) ==
  [i \in 1 .. 3 * width * height |->
     LET pixel == (i - 1) \div 3
     IN  colour[<<left + (pixel % width), top + pixel \div width>>][1 + ((i - 1) % 3)]]

\* A rectangle cut to the display.
Rectangle(x1, y1, x2, y2, colour) ==
  LET left == Low(x1)
      top == Low(y1)
      width == High(x2, Width) - left + 1
      height == High(y2, Height) - top + 1
  IN  IF width <= 0 \/ height <= 0 THEN <<>>
      ELSE lcd_set_window(left, top, left + width - 1, top + height - 1)
             \o Data(spi_write(PixelBytes(left, top, width, height, colour)))

lcd_fill_rect(x1, y1, x2, y2, rgb) == Rectangle(x1, y1, x2, y2, [p \in Pixels |-> rgb])

blend_channel(fg, bg, alpha) == (bg * (15 - alpha) + fg * alpha + 7) \div 15
blend_color(fg, bg, alpha) ==
  IF alpha = 0 THEN bg ELSE IF alpha >= 15 THEN fg
  ELSE [i \in 1 .. 3 |-> blend_channel(fg[i], bg[i], alpha)]
lcd_draw_char(x, y, ch, fg, bg, scale) ==
  Rectangle(x, y, x + CellW * scale - 1, y + CellH * scale - 1,
            [p \in Pixels |->
               blend_color(fg, bg, Alpha[ch][(p[2] - y) \div scale][(p[1] - x) \div scale])])
\* DMA is used with a rectangle of the same limits.
blit_rgb(c) ==
  LET bytes == PixelBytes(c.x, c.y, c.width, c.height,
                 [p \in Pixels |-> c.rgb[(p[2] - c.y) * c.width + p[1] - c.x + 1]])
  IN  IF ~Accepted(c) THEN <<>>
      ELSE lcd_set_window(c.x, c.y, c.x + c.width - 1, c.y + c.height - 1)
             \o Data(IF c.op = "dma" THEN dma(bytes) ELSE spi_write(bytes))

Script(c) ==
  CASE c.op = "clear" -> lcd_fill_rect(0, 0, Width - 1, Height - 1, c.rgb)
    [] c.op = "fill" -> lcd_fill_rect(c.x1, c.y1, c.x2, c.y2, c.rgb)
    [] c.op \in {"blit", "dma"} -> blit_rgb(c)

\* Of the parameters only those that the display looks at have their value.
Zeros(n) == [i \in 1 .. n |-> 0]
lcd_init_panel ==
  lcd_command_data(224, Zeros(15)) \o lcd_command_data(225, Zeros(15))
    \o lcd_command_data(192, Zeros(2)) \o lcd_command_data(193, Zeros(1))
    \o lcd_command_data(197, Zeros(3)) \o lcd_command_data(54, <<72>>)
    \o lcd_command_data(58, <<102>>) \o lcd_command_data(176, Zeros(1))
    \o lcd_command_data(177, Zeros(1)) \o lcd_command(33)
    \o lcd_command_data(180, Zeros(1)) \o lcd_command_data(182, Zeros(3))
    \o lcd_command_data(183, Zeros(1)) \o lcd_command_data(233, Zeros(1))
    \o lcd_command_data(247, Zeros(4)) \o lcd_command(17) \o lcd_command(41)

-----------------------------------------------------------------------------
(* The display                                                              *)

lcd_expected_params(command) ==
  CASE command \in {42, 43, 247} -> 4
    [] command \in {54, 58, 180, 183, 193, 199} -> 1
    [] command = 51 -> 6
    [] command \in {55, 177, 192} -> 2
    [] command \in {182, 197} -> 3
    [] command \in {224, 225} -> 15
    [] OTHER -> 0

Reset(l) == [l EXCEPT !.sleep = TRUE, !.display_on = FALSE, !.invert = FALSE, !.colmod = 0,
                      !.madctl = 0, !.x0 = 0, !.x1 = Width - 1, !.y0 = 0, !.y1 = Height - 1]
TakesCommand(before, command) ==
  LET l == [before EXCEPT !.command = command, !.params = <<>>, !.pixel = <<>>]
  IN  CASE command = MEMWRITE -> [l EXCEPT !.x = l.x0, !.y = l.y0]
        [] command \in {16, 17} -> [l EXCEPT !.sleep = (command = 16)]
        [] command \in {32, 33} -> [l EXCEPT !.invert = (command = 33)]
        [] command \in {40, 41} -> [l EXCEPT !.display_on = (command = 41)]
        [] command = 1 -> Reset(l)
        [] OTHER -> l

be16(high, low) == high * ByteMod + low
TakesParam(before, byte) ==
  LET params == IF Len(before.params) < 16 THEN Append(before.params, byte) ELSE before.params
      l == [before EXCEPT !.params = params]
  IN  IF Len(params) # lcd_expected_params(l.command) THEN l
      ELSE CASE l.command = COLADDR ->
                  [l EXCEPT !.x0 = be16(params[1], params[2]), !.x1 = be16(params[3], params[4])]
             [] l.command = PAGEADDR ->
                  [l EXCEPT !.y0 = be16(params[1], params[2]), !.y1 = be16(params[3], params[4])]
             [] l.command = 54 -> [l EXCEPT !.madctl = byte]
             [] l.command = 58 -> [l EXCEPT !.colmod = byte]
             [] OTHER -> l

\* 85 is the format of two bytes to a pixel.
Scale(value, max) == (value * 255 + max \div 2) \div max
Rgb(l, pixel) ==
  IF l.colmod # 85 THEN pixel
  ELSE LET rgb565 == pixel[1] * 256 + pixel[2]
       IN  <<Scale((rgb565 \div 2048) % 32, 31), Scale((rgb565 \div 32) % 64, 63),
             Scale(rgb565 % 32, 31)>>
Complete(l, pixel) == Len(pixel) = IF l.colmod = 85 THEN 2 ELSE 3
\* The place after a pixel: the window is filled row by row, again and again.
NextPlace_RowOnly(l) == IF l.x + 1 <= l.x1 THEN [l EXCEPT !.x = @ + 1] ELSE [l EXCEPT !.y = @ + 1]
NextPlace(l) ==
  IF l.x + 1 <= l.x1 THEN [l EXCEPT !.x = @ + 1]
  ELSE [l EXCEPT !.x = l.x0, !.y = IF @ + 1 <= l.y1 THEN @ + 1 ELSE l.y0]

\* The decoder's state and what the display shows, before and after a byte.
Panel(l, f) == [lcd |-> l, shown |-> f]
TakesPixelByte(d, byte) ==
  LET l == d.lcd
      pixel == Append(l.pixel, byte)
      place == <<l.x, l.y>>
  IN  IF ~Complete(l, pixel) THEN Panel([l EXCEPT !.pixel = pixel], d.shown)
      ELSE Panel(NextPlace([l EXCEPT !.pixel = <<>>]),
                 IF place \in Pixels THEN [d.shown EXCEPT ![place] = Rgb(l, pixel)] ELSE d.shown)

emu_lcd_spi_byte(d, byte) ==
  LET l == d.lcd
      takesParam == lcd_expected_params(l.command) > 0
  IN  CASE l.cs # 0 -> d
        [] l.cs = 0 /\ l.dc = 0 -> Panel(TakesCommand(l, byte), d.shown)
        [] l.cs = 0 /\ l.dc # 0 /\ takesParam -> Panel(TakesParam(l, byte), d.shown)
        [] l.cs = 0 /\ l.dc # 0 /\ ~takesParam /\ l.command = MEMWRITE -> TakesPixelByte(d, byte)
        [] OTHER -> d

-----------------------------------------------------------------------------
(* The port                                                                 *)

NoText == [text |-> <<>>]
\* picocalc_lcd_init has set up the pins and the port.
LinkInit ==
  /\ ScreenInit
  /\ script = lcd_init_panel /\ puts = NoText
  /\ spi = [tx |-> <<>>, rx |-> 0, overrun |-> FALSE, busy |-> FALSE]
  /\ lcd = [cs |-> 1, dc |-> 1, sleep |-> TRUE, display_on |-> FALSE, invert |-> FALSE,
            madctl |-> 0, colmod |-> 0, command |-> 0, params |-> <<>>, pixel |-> <<>>,
            x0 |-> 0, x1 |-> Width - 1, y0 |-> 0, y1 |-> Height - 1, x |-> 0, y |-> 0]
  /\ calls = 0

\* One byte goes out if the last one has; the byte that comes in for it is
\* kept while there is room.
Moves == spi.tx # <<>> /\ ~spi.busy
Serviced ==
  IF ~Moves THEN spi
  ELSE [spi EXCEPT !.tx = Tail(@), !.busy = TRUE,
                   !.rx = IF @ < SPI_FIFO_SIZE THEN @ + 1 ELSE @,
                   !.overrun = @ \/ spi.rx >= SPI_FIFO_SIZE]
spi_service ==
  LET now == Panel(lcd, shown)
      next == IF Moves THEN emu_lcd_spi_byte(now, Head(spi.tx)) ELSE now
  IN  lcd' = next.lcd /\ shown' = next.shown

\* The byte is out, or the port is looked after.
Time == spi.busy /\ spi' = [spi EXCEPT !.busy = FALSE] /\ UNCHANGED <<shown, wanted, script, puts, lcd, calls>>
Tick == Moves /\ spi' = Serviced /\ spi_service /\ UNCHANGED <<wanted, script, puts, calls>>

At(kind) == script # <<>> /\ script[1][1] = kind
Done == script' = Tail(script) /\ UNCHANGED <<wanted, puts, calls>>

\* The level of a signal, an access of the driver.
Signal(l, access) == IF access[1] = "cs" THEN [l EXCEPT !.cs = access[2]] ELSE [l EXCEPT !.dc = access[2]]
gpio_put ==
  /\ At("cs") \/ At("dc")
  /\ lcd' = Signal(lcd, script[1])
  /\ Done
  /\ UNCHANGED <<shown, spi>>

\* The wait for room and the write to the data register, which looks after the
\* port first; DMA waits for its request in the same way.
spi_write_byte ==
  /\ At("send") \/ At("dma")
  /\ Len(Serviced.tx) < SPI_FIFO_SIZE
  /\ spi' = [Serviced EXCEPT !.tx = Append(@, script[1][2])] /\ spi_service
  /\ Done

\* Reading the status looks after the port first.
WaitEmpty ==
  /\ At("empty") /\ Serviced.tx = <<>>
  /\ spi' = Serviced /\ spi_service /\ Done
WaitIdle ==
  /\ At("idle") /\ Serviced.tx = <<>> /\ ~Serviced.busy
  /\ spi' = Serviced /\ spi_service /\ Done
Drain ==
  /\ At("drain") /\ spi_service
  /\ IF Serviced.rx > 0
     THEN spi' = [Serviced EXCEPT !.rx = @ - 1] /\ UNCHANGED <<wanted, script, puts, calls>>
     ELSE spi' = Serviced /\ Done
ClearOverrun ==
  /\ At("clear") /\ spi' = [spi EXCEPT !.overrun = FALSE]
  /\ Done /\ UNCHANGED <<shown, lcd>>

DrawCall ==
  /\ script = <<>> /\ puts.text = <<>> /\ calls < MaxCalls /\ calls' = calls + 1
  /\ \E c \in Calls :
       /\ wanted' = Draw(wanted, c)
       /\ IF c.op = "puts" THEN puts' = c /\ UNCHANGED script
          ELSE script' = Script(c) /\ UNCHANGED puts
  /\ UNCHANGED <<shown, spi, lcd>>

picocalc_lcd_puts ==
  /\ script = <<>> /\ puts.text # <<>>
  /\ LET scale == AtLeastOne(puts.scale)
     IN  /\ script' = lcd_draw_char(puts.x, puts.y, Head(puts.text), puts.fg, puts.bg, scale)
         /\ puts' = [puts EXCEPT !.text = Tail(@), !.x = @ + CellW * scale]
  /\ UNCHANGED <<shown, wanted, spi, lcd, calls>>

Driver ==
  picocalc_lcd_puts \/ gpio_put \/ spi_write_byte \/ WaitEmpty \/ WaitIdle \/ Drain \/ ClearOverrun
LinkNext == DrawCall \/ Driver \/ Time \/ Tick
\* The processor runs, and time passes.
LinkSpec ==
  /\ LinkInit /\ [][LinkNext]_linkVars
  /\ WF_linkVars(Driver) /\ WF_linkVars(Time) /\ WF_linkVars(Tick)

-----------------------------------------------------------------------------
(* Properties                                                               *)

Bytes == 0 .. 255
LcdTypeOK ==
  /\ shown \in [Pixels -> Bytes \X Bytes \X Bytes] /\ wanted \in [Pixels -> Bytes \X Bytes \X Bytes]
  /\ spi.tx \in Seq(Bytes) /\ Len(spi.tx) <= SPI_FIFO_SIZE /\ spi.rx \in 0 .. SPI_FIFO_SIZE
  /\ {spi.overrun, spi.busy} \subseteq BOOLEAN
  /\ {lcd.cs, lcd.dc} \subseteq {0, 1} /\ lcd.command \in Bytes
  /\ Len(lcd.params) <= 16 /\ Len(lcd.pixel) <= 2
  /\ {lcd.x0, lcd.x1, lcd.x} \subseteq 0 .. Width - 1 /\ {lcd.y0, lcd.y1, lcd.y} \subseteq 0 .. Height - 1
  /\ calls > 0 => lcd.display_on /\ lcd.invert /\ ~lcd.sleep /\ lcd.colmod = 102

\* Pixels change only to what the calls have asked for, none is missing when a
\* call returns, and a call returns: the driver, the FIFO and the decoder
\* together draw what the simulator draws.
PaintsScreen == ScreenSpec

\* The chip is selected, and a byte declared a command or data, only while no
\* byte is on its way: neither in the FIFO nor leaving it.
QuietSelect ==
  [][<<lcd.cs, lcd.dc>>' # <<lcd.cs, lcd.dc>> => spi.tx = <<>> /\ ~spi.busy]_linkVars
=============================================================================
