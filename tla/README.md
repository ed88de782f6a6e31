# Verification of the PicoCalc tools

TLA+ models of the network programs, the SSH terminal and the solver's consoles,
the emulated processor with display and keyboard, the linker, the video formats,
the arithmetic runtime, and the solver's exact and symbolic paths of this
repository; TLC runs that check them on small instances; and proofs, checked by
TLAPS, that hold for every value of the constants.

Contents: the system's parts, what is modelled and how it corresponds to the
code, what the runs check, what is proved, what is not modelled, the plan.

## 1. The system

The repository builds firmware for a PicoCalc (an RP2040 with a 320x320 SPI LCD
and an I2C keyboard; a Pico W adds the CYW43 radio), an emulator that runs the
same binaries on Linux, and host tools. Two families of firmware exist: "SDK"
programs on the Pico SDK (SSH client, network diagnostics) and "bare" programs
that start from their own vector table.

| Component | State | Operations | Interacts with | Hard behaviour | Correct when |
|---|---|---|---|---|---|
| TCP client, `src/picow_net/picow_tcp.c` | one static socket `g_tcp`: state, `snd_una`, `snd_nxt`, `rcv_nxt`, a receive ring of 8 KiB; debug counters | `connect`, `read`, `write`, `close`, `poll_fd`; the frame handler `tcp_handle_ipv4` | installs its handler in `picow_net`; called by the SSH platform adapter | segments lost, repeated, reordered; the handler runs inside the wait loop of any call; ring wraps and fills; sequence numbers wrap; retransmission and short writes | bytes are delivered once and in order; the advertised window is kept; calls return |
| Join, DHCP, ARP, UDP, `src/picow_net/picow_net.c` | `g_info`, `g_offer_ip`, `g_dhcp_msg`, ARP target and answer, one-entry next-hop cache, link flag, installed handlers | `init`, `join_dhcp`, `arp_resolve`, `next_hop_for`, `send_udp`, `send_ipv4`, `poll`; frame parsers; CYW43 callbacks | the radio's callbacks run inside `cyw43_arch_poll`; TCP and UDP programs register handlers | replies to earlier attempts or joins, from several servers, at any poll, also after the join; pointers into `g_info` kept across a wait | only a granted address is used; frames go to the next hop's hardware address; joins and sends end |
| SSH platform adapter, `src/ssh/picow_ssh_platform.c`, `picow_ssh_runtime.c` | one buffered key, the descriptor of the socket | `platform_poll_fds`, `platform_read`, `platform_write`, `rt_write_all` | the vendored SSH client calls it; it calls TCP, keyboard and display | two sources waited for in one loop, one of them only polled with timeout 0 | no key and no byte lost; a wait sees both sources |
| SSH program and terminal, `src/ssh.c` | screen of cells, dirty rows, cursor, escape parser | `console_putchar`, CSI and SGR handling, flush to the LCD, connection menus | SSH client output; LCD driver | escape sequences split at any byte, parameter overflow, pending wrap, scrolling with dirty rows | the LCD shows the cells; cursor in range |
| SSH protocol and cryptography, `vendor/newos` | keys, packet buffers | key exchange, packets, channels | TCP through the adapter | – (third-party code) | – |
| Network diagnostic, `src/picocalc/sdk/picow_net_diag.c` | its own copy of the join, DHCP, ARP code; ping and DNS state; pages of a screen | tests in sequence, key loop | radio, keyboard, LCD | as `picow_net.c`; late ping and DNS replies | a result belongs to the request it is shown for |
| Wi-Fi diagnostic, `src/picocalc/sdk/picow_wifi_diag.c` | table of scan results | scan, join, reset loops | scan callbacks of the radio | callbacks at any poll, also after the scan was declared finished; full table | the screen shows the table; only the marked open network is tried |
| SDK console and platform, `picocalc_io.c`, `platform_rp2040.c` | text cursor, line buffer | line editing, scrolling, keyboard polling | LCD over SPI, keyboard over I2C | bus errors, key events of several kinds | buffer bounds, screen shows the line |
| Bare drivers, `src/picocalc/bare/picocalc_lcd_bare.c`, `picocalc_kbd_bare.c` | SPI and I2C registers | window, pixels, text, scroll; key read | the LCD and keyboard controllers | FIFO full or busy when chip select rises; abort and retry on the bus | every pixel goes where it was meant |
| Start-up and arithmetic runtime | – | vector table, memory clearing, integer and floating-point helpers | every bare program | limits of 32- and 64-bit division | equals the arithmetic it stands for |
| Bare programs (cube, video players, benchmarks, REPL, probes) | frames, keys | loops | drivers, DMA | decoders of compressed tiles; interrupt probe | decoded = encoded |
| Emulator, processor core, `src/host/emulator/bin_emu.c` | registers, flags, IPSR, PRIMASK, SysTick, NVIC pending/enabled | Thumb instructions, exception entry and return, tick, MMIO | runs firmware; peripherals below | exceptions pending while masked or active, invalid handlers, delay loops skipped | exceptions nest and return as the firmware expects; none is lost |
| Emulator, peripherals | SPI FIFO, I2C FIFO and key queue, DMA channels, timer, SIO divider, PIO, bootrom functions | register reads and writes, service on each tick | core; LCD decoder; scripted keys | FIFO limits, DMA chaining, busy bits | the driver's protocol works |
| Emulator, LCD, `emu_lcd.c` | command, argument count, window, write position | byte decoder | SPI; PNG and GIF output | window wrap, commands split over transfers | image = what the driver drew |
| Emulator, output and shell | files | PNG, GIF, traces, scripted session | – | – (formats) | – |
| Source-level simulator, `src/host/sim` | – | replaces the drivers on the host | bare programs | – | – |
| Linker, `src/host/linker/pico_link.c` | objects, sections, symbols, output image | load, resolve, select, lay out, relocate | the build | weak, common and repeated symbols; garbage collection; alignment | every reachable section placed once, symbols unique |
| Host tools (tile codec, UF2, font, probe) | – | one-shot conversions | players decode what they write | limits of run lengths | decode(encode(x)) = x |
| Solver, `src/solve` | rationals, polynomials, expression trees | parse, evaluate, exact and numeric roots | REPL | overflow of exact arithmetic | exact results are exact or refused |

Everything runs on one thread. Concurrency comes from the network (frames and
callbacks handled whenever some loop polls), from time (every wait has a
deadline) and, in the emulator, from the interleaving of instructions, ticks
and peripherals. Nothing is persisted, so there is no crash recovery.

## 2. What is modelled

### 2.1 TCP client: `ByteStream`, `PicowTcp`, `PicowTcpInv`

`PicowTcp` models the whole of `picow_tcp.c`, the program that calls it and,
outside the repository, a network and a conforming server.

* State: the fields of `g_tcp` by their names; of the debug counters only
  whether `rx_overflow_events` and `write_ack_timeouts` are non-zero
  (`overflowed`, `ackTimeout`); `handler` says that `tcp_handle_ipv4` is
  installed. `pc` is the blocking call in progress; a call is cut where it
  polls, because only there can frames be handled. `phase` follows the program:
  it may connect once, then read, write and poll, close, and after a failed read
  or write only close.
* Bytes are identified by their position in the stream, so that the order and
  identity of bytes can be stated; sequence numbers are those on the wire,
  modulo `SeqMod`, starting at any `Isn` and `PeerIsn`.
* `Receive` is `tcp_handle_ipv4`: reset, handshake, acknowledgement, payload
  into the ring with the acknowledgement of what fitted, FIN. A segment is
  delivered at any wait of any call, any number of times, in any order, or
  never.
* `Connect`, `Read`, `Write`, `Poll`, `Close` are the calls, with each early
  return: unreachable next hop, failed send, deadline, reset, FIN, short write.
  `Resend` is the retransmission after 250 ms.
* The clock is not modelled: a deadline may have passed whenever it is looked
  at. This allows more behaviours than the code has.
* The server keeps to the advertised window up to `Overshoot` bytes (window
  probes), splits its stream as it likes, repeats, resets, and closes.

`ByteStream` is what a reader of the stream relies on: bytes 1, 2, ... enter a
bounded buffer in order after they are sent, and leave it in order. `PicowTcp`
implements it under the mapping `sent <- pSent`, `arrived <- Arrived`,
`read <- got`.

### 2.2 Join and DHCP: `PicowDhcp`

The client side of `picow_net_join_dhcp`: waiting for the link, and
`dhcp_obtain` with its attempts of DISCOVER and REQUEST. Each wait loop ends by
its condition or by its deadline. `parse_dhcp` is one action, with its order of
effects: options overwrite mask, router, name server and server address one by
one; `yiaddr` goes to `g_offer_ip` in an offer and acknowledgement, and to
`g_info.ip` only in an acknowledgement; a NAK only overwrites the server. It
runs at any poll, also after the join, as the code has no guard against it. All
exchanges share the constant transaction number, so any server's answer to any
earlier message may be taken for an answer to the last one; the sets `requests`
and `replies` only grow for that reason. `LinkUp` and `LinkDown` are the radio's
callbacks. The mask and the name server are written as the server they came
from.

### 2.3 Next hop: `PicowNet`

Extends `PicowDhcp` by `picow_net_arp_resolve`, `next_hop_for`, `send_udp` with
its one-entry cache, and the resolving part of `picow_tcp_connect`. The point of
the module is the pointer: `next_hop_for` returns either its argument or the
address of `g_info.gateway`, and the callers use it before and after a wait in
which DHCP replies are handled. `call.via` says that the pointer is to the
gateway, `Hop` is what it points at at the moment, `call.hop` is what it pointed
at when the call began. Hardware addresses are written as the IP address of
their host.

### 2.4 Exceptions of the emulated processor: `EmuCore`

One pass of the loop of `run_bin` is one action: the effect of an instruction,
then `peripherals_tick`, then `service_interrupts`, each a function of `core`,
the record of those registers that exceptions depend on. Of the code executed
only `running` is kept, the exception whose handler it belongs to; of the memory
only the frames that `exception_enter` pushed.

* The firmware is arbitrary: any handler may at any time execute a plain
  instruction, write the registers of SysTick and NVIC, mask interrupts, call
  (SVC, BKPT) or return. It is assumed to return from a handler with the
  EXC_RETURN value it was entered with, once for each entry.
* An exception without a valid vector is refused by `exception_enter`, and the
  callers differ: SVC ends the emulation, SysTick stays pending, an interrupt is
  dropped. `Valid` is the set of exceptions with a vector; moving the vector
  table is not modelled.
* `Accelerate` is a delay loop that the emulator skips; it neither ticks nor
  looks for interrupts. What it does to the loop's registers is in `EmuThumb`.
* COUNTFLAG of SYST_CSR is left out, as nothing in the emulator depends on it.

### 2.5 The terminal of the SSH program: `SshTerminal`

The screen, the escape parser and the phases of `main` in `src/ssh.c`.

* `term` is the record of the `g_term_` variables; the characters and the two
  colour arrays are one array of cells. `ansi_state` and `csi` are the parser's.
  `lcd` is what each row of the display shows.
* `console_putchar` takes one byte: `Ground`, `Escape`, `ControlSequence`,
  `SystemCommand` and `SkipByte` are its branches by state, the functions they
  call are operators on `term`. Bytes are their numbers; colours are names, and
  a colour given by its components is `"direct"`.
* The remote program sends `Tokens`: a byte of text or control, ESC and a byte, a
  character set, a control sequence, an operating system command with either
  ending (`IsToken`). Output reaches `picow_ssh_write_console` cut at any byte:
  `OutputByte` and `term_flush_dirty`, which ends a write, alternate freely.
  Strings that the parser does not know (DCS, for one) are not among the tokens.
* `LogByte` is `platform_log_tcp_debug`, whose line goes through the same parser
  wherever the last read left it. It comes as one write, and starts with a line
  feed, as the format string in the platform does.
* `screen_line` writes to the display without the cells, in the phases before and
  after the session, where the terminal does not draw.
* Arithmetic on parameters is that of `int` (`Int32`): overflow, undefined in C,
  wraps round as in the build. The loop of a tab is written in closed form.

### 2.6 The linker: `PicoLink`

`pico_link.c` from its command line to the image and the map. The program runs
once, so what it is given (objects, archives, garbage collection, order by reach,
map or not) is chosen in `Init`, and its loops are cut into one step for each
section, symbol, archive member or relocation. `phase` is the place in
`linker_main`, `at` holds the loop variables, `objects`, `secs`, `globals` and
`layout` are the tables `g_objects`, `g_input_sections`, `g_globals` and the
cursors with the bounds.

* `read`: `parse_object` and `collect_input_sections`. Files are written as what
  their ELF headers say; a file that the parser would refuse has `ok` false.
* `names`, `archives`: the table of names, without values yet, and the search of
  the archives, again from the first as long as a round took a member. The names
  of a member taken are entered before the search goes on.
* `mark`, `reach`: `mark_reachable_sections`, pass by pass, with the order in
  which sections became live.
* `layout`: the sections of each kind in input order or in that of reach, into
  flash and RAM. A byte of `image` is known by the section and offset it comes
  from; `words` holds what relocations wrote over it. Alignments are powers of
  two, as the mask in `align_up` asks. An address of 0 stands for "not placed
  yet", as in the code.
* `globals`, `relocate`: the values of the names, then every relocation of a kept
  section. A call is the record of its five fields, the two inverted ones
  included, and is read back by the property as the processor reads it.
* `map`: the sections by address; the code reuses `live_order` as the mark of
  those listed.
* `Special` has one name for each value: `__stack`, the second name of the end of
  the stack, is left out. So are the texts of the map and the statistics, and the
  parsing of ELF files and arguments.

### 2.7 The display: `LcdScreen`, `LcdLink`

`LcdScreen` is the picture that drawing calls ask for, translated from the
simulator on the host (`picocalc_lcd_sim.c`), which draws into a frame buffer
directly: `wanted` is that picture, `shown` what the display shows, and `Paint`
brings one pixel from the one to the other. The simulator has no
`picocalc_lcd_blit_rgb`; its picture is taken from what the header's name says
and the limits the driver puts on it.

`LcdLink` is the same calls in the driver for programs without the SDK
(`picocalc_lcd_bare.c`), through the SPI port of `bin_emu.c`, to the decoder
`emu_lcd.c`.

* The driver's functions are sequences of what they do to the port: a signal set,
  a byte sent, and the three loops and the write of `spi_finish`. `Script` is the
  one of a call, `lcd_draw_char` that of a character; `script` is what is left of
  it. Texts go character by character (`puts`). `lcd_init_panel` is the script that
  the system starts with; of its parameters only those the display looks at have
  their value. The reset line and the delays have no effect on the decoder and are
  left out.
* `spi` is `g_spi`: the FIFO, how many bytes came in, the overrun flag, and
  `busy` for `busy_until > g_cycles`. A byte leaves only when the last one has;
  `Time` lets it, at any moment, and `Tick` is the look at the port that every
  instruction and every status read takes. A wait of the driver is enabled when
  the status it reads, after that look, is the one it waits for.
* DMA (`dma_probe.c`) moves bytes with the same wait for room, `dma_start_channel`;
  the processor waits until it is done, as the loop over the busy bit does.
* The decoder is complete: commands, parameters, pixels of three bytes and of two
  (which this driver never selects). Milestones, trace and the hash of the frame are
  left out.

### 2.8 The solver's exact path: `SolveRat`, `SolveExact`

`SolveRat` is the arithmetic: rationals in lowest terms within `RatLimit`
(`SOLVE_RAT_LIMIT`), polynomials over them, the division by a linear factor, the
rational root test and the quadratic. A C function that returns -1 here returns
`Refused`. `gcd` is defined by what it means, not by the loop that finds it.

`SolveExact` is a question put to the program, from the expression to what it prints:

* `read`: one operation of the parser's on the polynomial read so far. `meant`
  carries the same expression without a limit (whole coefficients over a
  denominator): the properties compare the answer with it.
* `Ask` says what is wanted: an equation, an inequality with its relation, or where
  the curve rises (`order` 1) or bends to the left (`order` 2), which asks for the
  signs of a derivative.
* `peel`: rational roots are divided out one by one. The program takes the first
  that its two lists of divisors lead to; the model takes any.
* `SolveEquation`, `CollectRest`: the rest of degree two or one. The two roots of
  a quadratic with an irrational discriminant have no exact value; in the program
  `rat_value` is then zero, here too. They are ordered by signs of the quadratic,
  where the code compares doubles.
* `split`: one test point for each segment between roots, and the intervals that are
  printed (`solve_run_exact_poly_inequality`, `solve_print_labeled_intervals`).

Left out: the grammar (2.15), the merging of roots closer than ten times the tolerance,
labels and explanations, and what the floating-point code does with a question that
is handed on (`numeric`).

### 2.9 The SSH platform adapter: `SshPlatform`

The calls that `picow_ssh_platform.c` gives the SSH client, with the client's shell
loop (vendored, external) around them: poll the socket and the keyboard, read a packet
or the keys, write. `pending_stdin` is the key that a poll has read from the keyboard
and keeps for the next read. A frame is in `radio` until somebody calls
`picow_net_poll`; `poll_fd(fd, 0)`, which `platform_poll_fds` uses when it waits for
two descriptors, does not, because its deadline has passed before its loop. What moves
a frame from `radio` to `rx` is therefore only a wait: for the acknowledgement of a
write, for data in an empty ring, or for the socket alone. `PicowTcp` is about the
ring's limits; here it has room for all packets.

### 2.10 The two diagnostics: `NetDiag`, `WifiDiag`

`picow_net_diag.c` repeats the join and the DHCP exchange of `picow_net.c` statement
for statement, so `NetDiag` extends `PicowDhcp` and adds ARP, the ping, the DNS query,
the waits for their answers and the key loop. `dns_pointer` and `hop_pointer` say
whether `dns_ip` and `hop` point into the configuration, as in the code; it is the
same hazard as that of `PicowNet`. Replies are received at any poll, late or again.

`WifiDiag` is the scan diagnostic: `scan_result` runs inside any poll, also after the
deadline has declared the scan finished, while the mark is moved, the table is
cleared, or an entry is being joined. `list` is what `draw_scan_list` has drawn last.

### 2.11 Consoles and keyboard: `SdkRepl`, `BareRepl`, `I2cKeyboard`

`SdkRepl` is the solver's prompt in the SDK build: the line editor and the splitting
of a line into arguments (`platform_rp2040.c`) on the console of `picocalc_io.c`,
which has a buffer that is mirrored on the LCD and scrolls. `BareRepl` is the prompt
without the SDK (`solve_repl.c`), whose console draws each character and clears the
screen below the last row. The solver itself writes any of `Outputs`. A line is split
in its own buffer, position by position, because that is where it goes wrong.

`I2cKeyboard` is the keyboard driver without the SDK against the I2C port and the
keyboard in `bin_emu.c`: register selected, two bytes of a report read, the script of
keys with its escapes (`next_script_key`). The emulator answers a register access at
once, so a call of the driver is one function of the port.

### 2.12 Instructions: `ThumbAlu`, `EmuThumb`

`ThumbAlu` has flags, shifts and conditions, for bytes of `B` bits. `EmuThumb` decodes
and executes: `Rows` is the order of tests in `step` and `Narrow` the first that an
opcode passes, as in the code; `Execute` does what the branch does. `code` is apart
from memory. Every program runs twice, `plain` by itself and `quick` with
`try_accelerate_memory_delay_loop`, `try_accelerate_timer_compare_loop` and the others
in front of each step, as `run_bin` has them; the two are compared when both are done.
The timer counts cycles; exceptions are those of `EmuCore` and end a program here.
`Pow2` is a function instead of `2^k`, so that shifts can be reasoned about.

### 2.13 Arithmetic without instructions: `AeabiInt`, `AeabiDouble`, `Aeabi`

The functions the compiler calls for division, products and shifts of long integers
and for everything on doubles. Each number of the source is written as what it is made
of (1023 is `Bias`, 52 is `F`, 55 is `F + 3`), so that the same text is checked for a
small format. The long division's four globals are set at each call and never kept
between two, so they are arguments and results here. `Aeabi` calls any of the functions
with any operands. `IntegersRight` and `DoublesRight` say what the results should be without
the algorithms: by the integers that words stand for, by exact fractions rounded once.

### 2.14 Video: `Lzss`, `TileCodec`, `VideoStream`

`Lzss` is the compression used by both encoders and both players. `TileCodec` has the
commands, the seven encodings of a tile of one bit to a pixel with the choice of the
shortest, the two-colour encoding, and the decoders of both players. `VideoStream`
puts them together: frames are encoded against what the encoder takes the display to
show (`known`), stored packed or plain, played, and, for one bit to a pixel, read by
the analyzer, which steps over the commands with a parser of its own. A size of two
bytes in the stream is one element, and the time of a frame is left out.

### 2.15 The solver's texts: `SolveText`, `SolveSymbolic`

`SolveText` is the grammar, common to the four parsers of the solver, with what each of
them makes of a text: the evaluator (`eval.c`), the reader of polynomials with
double coefficients (`poly.c`), that with rational ones (`exact_poly.c`). A text is a sequence of
tokens with its order of operations. `SolveSymbolic` is `symbolic.c`: the derivative is
built as a text while the expression is read, folded and simplified, with as few
parentheses as `solve_sym_display_operand` thinks necessary, and that text is read again
to be solved or to be differentiated once more. A double is a rational within
`DoubleMax`; what leaves that bound, is not rational or not finite is `Unknown`, and
nothing is claimed of it. What a function computes is a parameter (`Called`).

## 3. What the runs check

Programs that never run together share a run: `machine` (or `tool`) is chosen at the
start, and the variables of the others stay as they are. Each keeps its own next-state
relation and fairness.

| Run | Instance | Properties | What it shows |
|---|---|---|---|
| `tcp_receive` | ring of 2, segments of up to 2, peer stream of 3, numbers modulo 16 starting at 14 and 13 | `StreamInOrder`, `NoOverflow`, `FinIsLast`, `WindowNeverShrinks`, `ReceivesByteStream` | the received stream is a reliable byte stream; the window is kept and never taken back; a FIN that overtakes data does not count as received |
| `tcp_send` | 3 bytes written, segments of 2, two SYNs, one byte of window probe | `ReportedWasReceived`, `WrittenOnce` | a byte counted as written is in the peer's hands; until a write has given up on an acknowledgement every byte arrives once |
| `tcp_live` | ring of 1, 2 bytes from the peer, 1 to it | `CallsReturn`, `PollWakes` | calls with a deadline return; a poll without one wakes while the peer has bytes |
| `network` | a join with two servers, one without a router; ARP and UDP with two routers; the diagnostic; a scan of five networks; the SSH client with three keys and three packets | `LeasedAddress`, `RequestsWhatWasOffered`, `JoinsWithOneConfiguration`, `RightHop`, `CacheHonest`, `QueriesGoRight`, `TableShown`, `KeysDelivered`, `Returns`, `KeyBringsOutput` | one server's granted configuration whatever arrives late, twice or out of order; frames and queries go to their next hop's hardware address unless the gateway was replaced during the wait; the screen of the scan is its table; no key is lost; calls end; a key pressed brings output that waits |
| `emulator` | two interrupts, one without a handler, reload values 0 and 1, two frames deep; and programs: all 65536 opcodes, single instructions, the division of `aeabi_div.S`, delay loops and timer waits, with bytes of two bits | `NoInterruptLost`, `ThreadProgress`, `InterruptServed`, `StepsAsManual`, `SkippedAsRun` | interrupts are neither lost nor starved; an opcode is executed as the manual says, also in the sequence of the library's division; a skipped loop leaves what the loop would have left |
| `consoles` | the terminal on 2 by 2 cells with three tokens of 46; the SDK prompt on 2 by 3 with six keys and lines of 7; the bare prompt with scripts of up to seven keys | `ScreenShown`, `InStep`, `Resynchronised`, `ParamsRight`, `LineShown`, `KeysOfScript` | the LCD shows cells and lines; the escape parser keeps in step wherever output is cut and after a line in between, and reads the right numbers; keys are read once and in order |
| `tools` | 1960 links; any two of 84 drawing calls on a display of 5 by 3 with a FIFO of 2; videos of two frames, four tiles of 4 by 2 | `ReferencesResolved`, `LayoutSound`, `OnlyReachable`, `ArchivesSearched`, `PaintsScreen`, `ShowsEveryFrame` | references go to the definition meant, sections lie side by side inside their bounds with their bytes in the image, only the reachable is kept, archives are searched to the end; driver, port and decoder together draw what the simulator draws; each frame is shown as it was encoded |
| `arithmetic` | up to four reads from six polynomials, seven questions, limit 60; texts of up to three operations of five families; doubles of 5 + 5 bits and words of 4 | `AnswersTrue`, `TextsTrue`, `DoublesRight`, `IntegersRight` | what the exact path answers is true of the expression as typed; the parsers agree on every text and a plain derivative is one; the runtime's operations on doubles round once and correctly, and those on integers are exact |
| `link_copied` | the links of `tools` | `DataCopied` (violated) | a data section aligned to more than a word is copied by the start-up code to a place 4 bytes from where it was linked |
| `solve_labels` | x^3 - 6x, limit 100 | `SignsDecide` (violated) | with irrational roots the intervals of rising and falling are wrong |
| `solve_rules` | quotients and roots | `RulesFollowed` (violated) | a derivative loses the parentheses of a divisor |
| `repl_args` | the consoles of `consoles` | `ArgumentsKept` (violated) | of a line of two words the solver gets the first |

### Findings

`solve_labels`. `solve_print_labeled_intervals` takes its test points
from `rat_value`, which is zero for an irrational root, and does not look at
`exact` as `solve_run_exact_poly_inequality` does. The derivative of x^3 - 6x is
tested at -1, 0 and 1 and found negative, so the curve is printed as decreasing
on all three intervals. With an unsplit rest of degree three or more there is
one test at zero for the whole line. `analysis.c` prints "exact derivative roots
split the real line; exact signs decide intervals".

`link_copied`. `layout_data_sections` aligns the cursor in RAM and
that in flash separately for each section, while `__data_start` and
`__data_source` are aligned to 4 only; `bare_reset` copies one block from the one
to the other. If a section asks for 8 and the two cursors differ modulo 8, its
bytes arrive at other addresses than references have been given.
`doc/picolink.md` says that `__data_source` is the load address of the copied
data.

`solve_rules`. `solve_sym_display_operand` takes the parentheses off an operand of `*`
or `/` unless a sum is at its top level, also off a divisor that is itself a product:
d/dx sqrt(x), built as 1/(2*sqrt(x)), is printed as 1/2*sqrt(x). That text is the
answer, and is what is read again for a second derivative. `PlainRulesFollowed`, a part
of `TextsTrue`, which holds, is the same property where this cannot happen: no division, no leading minus,
numeric exponents, and not exp together with both a product and a sum.

`repl_args`. `repl_split_args` ends a word by a zero at the place where it has to go on
reading; for a word that was not quoted that is the blank after it, so the loop ends.
(The bare prompt hands the line over whole.) That what is given are words of the line,
in their order, is part of `LineShown`, which holds.

### Why the bounds are enough

* The ring of 2 is smaller than the stream of 3, so the ring wraps, a segment of
  2 only partly fits, and the window closes and opens. Every sequence number
  that matters crosses the wrap at 16. `SeqAssumption` asks that the numbers in
  use fit into half of the space, as they do in the code (8 KiB and 2^32).
* In `tcp_send` three bytes need two chunks, `SndSpan` bounds the sequence
  numbers that repeated writes use up (a bound on how often the program writes
  after a short write, in the guard of `WriteStart`).
* In `network`, two servers are the least for mixing configurations, two attempts and
  two joins (for "join") the least for a reply to an earlier one; "send" and
  "diagnostic" have one attempt and one join, and two ARP tries, for what they add
  comes after a join. `Joins` bounds the joins; the messages in flight need no bound,
  as they are sets. "send" has two servers with different routers; the second server of
  "join" and "diagnostic" names no router. The name server of one lease is the router,
  that of the other another host near. Five networks with a table of three entries
  (`MAX_APS`) fill it; one is hidden, three are open. `MaxKeys` and `Packets` bound the
  session of the client: a window of 2 takes two keys at once and closes, a
  read takes 2 keys (`ReadMax`), so keys stay behind in keyboard and `pending_stdin`.
* In `emulator` ("core") a reload value of 0 sets SysTick pending at every tick, the worst
  case, and 1 is the first that does not. Two interrupts have a priority between
  them, and the less urgent one has no handler. (If the more urgent one, or
  SysTick, had none, it could shut out the other for ever: a SysTick without a
  vector is never taken and never cleared.) `Depth` bounds the calls that
  handlers may nest. In "thumb" every opcode is decoded; bytes of two bits (`B`) give
  words of eight, so that carries, overflows, shifts by the width and beyond, and the
  borders of signed numbers occur with few operands. The division runs whole, with 16
  values for each operand. `MaxSteps` is more than any program needs.
* In `consoles`, two rows and columns are the least that scroll, wrap and leave
  a column for the cursor to wait behind. The buffer of 7 and 3 parameters are
  smaller than one of the tokens has, as 48 and 16 may be; `IntHalf` is 64 so that
  the parameter 99 overflows. Two tokens put the cursor anywhere (also saved),
  the third acts there; `MaxTokens` and `MaxLogs` bound a session. The proofs need
  none of these bounds. The lines of the prompts (7, 6) are longer than the two rows
  of three columns less the prompt, so they scroll and are typed into their limit;
  `MaxArgs` 3 is fewer than the words of a line.
* In `tools` ("linker") the variants of the program make a name strong, weak or local,
  an alignment smaller, equal to or larger than a word, an unused section with or
  without a relocation the linker does not know. One object has a weak function of its
  own and a weak number (an absolute symbol). The archives have a member that
  needs an earlier one, a member in each of two archives that needs the other, a
  malformed one, and a weak definition. `MaxObjects` 4, `MaxSections` 14,
  `MaxGlobals` 9 and `MaxOutput` 48 are such that the larger inputs just fit and
  the largest do not. A call reaches 64 bytes (`Imm10`, `Imm11`), which is less
  than from flash to RAM.
* In "display" the calls include rectangles, blits and texts that lie partly or
  wholly outside on each side, text of scale 0, 1 and 2, and empty blits. A byte of a
  coordinate counts to 4 (`ByteMod`), so that the fifth column needs both; colours
  stay below 256. A FIFO of 2 fills and empties within one command. The second
  call (`MaxCalls`) starts from whatever the first left in the decoder.
* In "video" a delta of 2 (`Delta`) with four tiles needs absolute indices; runs of up
  to 5 and gaps of up to 2 do not fit into a tile of 8 pixels; a byte of two bits makes raw tiles
  of four bytes, so that every encoding but one is the shortest of some tile
  (XOR_RAW1 is never chosen: a tile whose set bits fit was encoded by them before).
  Matches of 3 to 6 (`Extra`) in a window of 8 (`OffLow`, `OffHigh`) overlap what
  they write. The first frame is a difference to black, the second to any first.
* In `arithmetic` ("exact") a limit of 60 lets sums, products, evaluations, discriminants
  and the scaling to whole coefficients be refused at every place, and lets enough
  through that cubics and quartics with three and four roots, double roots,
  irrational roots and unsplit rests occur. `MaxReads` bounds the operands and
  operations of the expression. `MCSamples` are quarters between -3 and 3 and some
  numbers beyond: they lie between and on the roots that occur. The divisor limit is
  12, so that a root test is given up for size too. In "text" three operations
  (`MaxJoins`) are the least with an operator on each side of another; the functions
  are replaced by simple ones that are all different. In "runtime" the exponents lie
  around zero, one, the limits of both integers and the largest, the fractions at the
  borders of rounding.
* `CHECK_DEADLOCK FALSE` in all runs: the program may have closed its
  connection, or failed, and do nothing more; the emulation may have ended, and so
  may the linker; a question has been answered; a program may make no more drawing
  calls; a video has been played.

Three properties carry an exception that the code makes necessary, kept in a
history variable. `WrittenOnce` holds until `write_ack_timeouts` is counted:
after a short write the caller (`rt_write_all`) sends the rest under new
sequence numbers although the chunk given up may still arrive. `RightHop`,
`CacheHonest` and `QueriesGoRight` hold unless, since the join, a DHCP reply replaced
the gateway (or the name server) while it was being resolved: then the cache pairs the
new gateway's address with the old one's hardware address (`moved`). `refused` (the
last reply handled was a NAK) plays the same part for `RequestsWhatWasOffered`.

### Fairness

`Running`, `WF(Waits)` and `WF(ResolveRetry \/ Resolved)` say that the thread
runs and that time passes: each wait loop polls, compares the clock with its
deadline, and ends. Nothing is assumed of the order in which the program makes
its calls. `CallsReturn` and `Returns` need no more than that; the diagnostic is one
program without calls from outside, so its `WF(Main)` is that it runs.

For the SSH client `WF(Client)` is its loop, and `WF(WriteFails)`, `WF(ReadFails)` the
deadlines of a write and a read. Nothing is assumed of the network or the server:
`KeyBringsOutput` says that output which has reached the radio is read or the
connection is over, because a key's write waits for its acknowledgement or its
deadline. Without a key pressed it may stay in the radio for ever, as no wait with time
to spend looks at it.

In `EmuCore`, `WF(Next)` says that the emulator's loop goes round and `WF(Return)`
that every handler returns; an instruction that returns may always be the next,
so weak fairness is enough.

`PicoLink` has fairness only because a program that was started runs; it states no
liveness.

In `LcdLink`, the driver runs (`WF(Driver)`), a byte that is leaving has left at
some time (`WF(Time)`: the cycle counter advances with every instruction, also in
the loop of DMA) and the port is looked at (`WF(Tick)`: by every instruction).
With it `PaintsScreen` says that a drawing call ends and misses no pixel.

`PollWakes` also assumes `Lossless`: the network delivers, and the peer goes on
sending. It is an assumption on the environment and is stronger than a real
network: because segments stay in the sets, weak fairness also repeats the
delivery of an acknowledgement or window update, so the run does not say what
happens if the only copy of a window update is lost and the server sends no
window probes. What it does show is that the client sends the update, that it
accepts what the server then sends, and that no state of the ring, of a FIN
come too early or of repeated old segments keeps the client from progress.

## 4. What is proved

`PicowTcp_proofs`, `Network_proofs`, `EmuCore_proofs`, `Consoles_proofs`,
`PicoLink_proofs`, `LcdLink_proofs`, `Video_proofs` and `Arithmetic_proofs` hold
machine-checked proofs for all values of the constants that satisfy the named assumptions
(`SizeAssumption`, `SeqAssumption`; `DhcpAssumption`, `NetAssumption`;
`NetworkAssumption`, which joins `DiagAssumption`, `WifiAssumption` and
`PlatformAssumption`; `CoreAssumption`; `TermAssumption`, `ConsolesAssumption`;
`LinkAssumption`, `FlashAssumption`; `ScreenAssumption`, `PortAssumption`;
`LzssAssumption`, `TileAssumption`, `VideoAssumption`; `RatAssumption`;
`IntAssumption`, `OperandAssumption`; `ByteAssumption`, `ThumbAssumption`).
They are about sizes, signs and types, with three exceptions. `FlashAssumption` says that the image lies below RAM, as it does
from the default base on, and as `--app-base` has to leave it; without it sections in
flash and in RAM could share addresses. `WellFormed`, a part of `LinkAssumption`, says of
the objects that a relocation names a symbol of its file and lies in its section, apart
from the others, as compilers write them; the linker does not check it.
`ConsolesAssumption` says that what the solver writes, and the banner, hold no carriage
return: `src/solve` writes none (it only looks for one in what it reads), and after one
the cells behind the cursor need not be blank. It also says what a script of keys is
(`IsScript`): a sequence of keys, each with a text that stands for it, where a text that
could be read on into the next key (`\x` with fewer than two digits) does not stand before
a digit. Any such script is typed, of any length.

The invariants below were checked by TLC before they were proved.

TCP, receiving side. `TypeOK`, `StreamInOrder`, `NoOverflow`, `FinIsLast`,
`WindowNeverShrinks` and the refinement of `ByteStream` follow from the invariant
`IInv` of `PicowTcpInv` (`Invariance`). `StreamInOrder` alone is not inductive:
the next step may be the delivery of any segment, so `IInv` also says

* what each segment under way carries is where its number says (`SegmentInv`),
* `rcv_nxt` numbers the byte after those received, or the one after the FIN
  (`RcvInv`), which makes "in order" in the handler mean the next byte,
* no window ever advertised, also in segments still under way, reaches further
  than the ring from the last byte read (`WindowInv`): this is why the ring never
  overflows,
* which call goes with which phase and socket state (`CallInv`, `FreshInv`).

The arithmetic lemmas reduce comparisons modulo `SeqMod` to ordinary ones using
`SeqAssumption`.

TCP, sending side. `ReportedWasReceived` and `WrittenOnce` follow from `SendInv`, on top
of `IInv` (`SendInvariance`, `ReportsReceived`, `BytesWrittenOnce`). What a write returns
is a difference of acknowledgement and sequence numbers, so it has to say

* that nothing carries a number beyond those used, SYN and FIN included (`SentInv`,
  `ConnectInv`),
* that no acknowledgement, under way or taken over into `snd_una`, is ahead of what the
  peer has (`AckInv`): an old one is then harmless, and a new one counts bytes that have
  arrived,
* that a write waits for its last chunk only, the others being acknowledged (`WriteInv`),
* and, until an acknowledgement has been given up, that bytes and numbers go together, so
  that the number of a chunk says which bytes it holds (`OnceInv`). After a short write
  they part, which is why `WrittenOnce` ends there.

DHCP. `DhcpInv` adds to the type: an acknowledgement on the network has been
granted (`GrantInv`), and what `g_dhcp_msg` says ties the configuration to the
server of the last reply handled (`MsgInv`): this is the fact that lets
`dhcp_obtain` look at `g_dhcp_msg` after any number of replies and still use
`g_offer_ip` and `g_info` together. From it: `OnlyLeased`, `RequestsMatch`,
`OneConfigurationAtJoin`.

Next hop. `NetIsDhcp` shows that the composition implements `PicowDhcp`, which
carries the theorems over. `HopInv` says that the answer kept belongs to the
target (`AnswerInv`) and that a waiting call's pointer still points at what it
asked for unless `moved` (`CallInv`); from it `HopCorrect` and `CacheCorrect`.
`HopCorrectOneRouter` closes the question of the exception: if all servers that
name a router name the same one, `moved` never becomes true (`GatewayInv`) and
`RightHop` holds without it.

Diagnostic, scan, SSH client. `Network_proofs` is about the composition `MCNetwork`, where
each program's steps leave the others alone. `AskInv` (for `QueriesGoRight`) ties the
resolution that waits to the pointer it was given: unless `moved`, `hop_pointer` leads to
the address asked for, and was right about the target; and a verdict "reply" goes back to
an answer to a query of that kind. `ScanInv` (for `TableShown`) says that the table holds
each network once, that `open_count` counts the open ones, and that the list drawn last is
the one of the table, the count and the mark as they are, although the callback changes
them at any poll; and that the entry being joined stays what it was. `KeyInv` (for
`KeysDelivered`) puts the keys in a line: written, read into the buffer, pending, in the
keyboard, in that order, are the keys typed (`KeysInOrder`); it needs that the client reads
keys only with room in the window and a key there (`ReadsWithReason`), so that a read never
returns 0, which the client would take for the end of input.

Emulator. `CoreInv` holds between two passes of the loop; the proof takes the
three functions of a pass one after the other. To `OneActive` and
`NoInterruptLost` it adds `Quiescent`, without which `ThreadProgress` is not
inductive: while a SysTick handler runs alone, or has just returned and no
instruction of the interrupted code has followed, the pending bit is clear. It
is clear on entry, no tick counts in a handler, and `skip` withholds the tick of
the pass that returns.

Instructions. `StepsAsManual` is checked on chosen programs; what its parts say of single
operations is proved in `EmuCore_proofs` for every state of the registers (`Cpus`) and
bytes of every width, from `ByteAssumption` and `ThumbAssumption` alone. `SumIs` compares
a sum of words and a carry with the numbers: there is a carry when it passes the range,
and an overflow when both operands have a sign the result has not. A difference is the sum
with the complement (`DifferenceIs`), as in the manual. `SumsAsManual` takes this to the
opcodes, and `BranchesAsCompared` to the conditions that follow a comparison, where N and V
together say which of two signed words is less, also when their difference overflows.
`ShiftsAsManual` splits amounts into those below the width, the width and those above; a
rotation is compared bit by bit (`RotatedBits`), and a word is the sum of its bits
(`BitsMakeWord`). `LoadsWhatWasStored` is about `Read` and `Write` of any of the sizes: both
recursions over bytes, the one of the code and the one of the property, have the same
solution (`NumeralAgrees`). Which opcode is which of these is left to TLC, which goes
through all of them.

Terminal. `Inv` has three parts. `ScreenInv` generalises `ScreenShown` to the
middle of a write: every row that is not dirty is shown. Each operator on the
screen has a lemma that it keeps this and the bounds of the cursor, whatever its
parameters; the bounds need that tab stops divide the width, for a tab after
which the cursor waits. `ParserInv` says in which state the parser stands after
each byte of each kind of token (`Standing`): this is what makes `InStep`
inductive. In a token with a line inside, the parser may also be back at text
already, or behind the ESC of the token's own terminator; neither state lasts
beyond the token's last byte, hence `BackInStep`. A line inside is harmless
because it holds neither ESC nor BEL and its first byte is a line feed, which no
state of the parser takes for the start of anything. The tokens are arbitrary as long as `IsToken` holds.

`ParamsRight` holds for every content of the parser's buffer (`ParamsAreNumbers`). The
parser reads a number from its first digit and may wrap round at each one, while the
property weighs every digit by its place and wraps once. `Parses` says, byte by byte, that
the parameters completed are those of the separators passed, and that the value under way
is the number of the digits read since, or that the array is full. It is carried over a
digit by two facts: one more digit multiplies the weight of those before it by ten
(`DigitAdded`), and wrapping at every digit comes to the same as wrapping at the end
(`WrapsOnce`). The powers of ten and the sum are recursive definitions, shown to have a
solution first (`PowersOfTen`, `NumberIs`).

Consoles. `LineShown` is about three programs' worth of steps, each a fold of the
console's `putchar` over a text of any length, so its proof begins with an induction by
hand: the recursive definition behind `FoldLeft` is shown to have a solution
(`FoldExists`), which yields the screen after every character on the way (`Steps`).
Cells are then seen as one numbered row in which a line feed, a scroll and a clear move
numbers by multiples of the width; `SdkInv` and `BareInv` say, character by character,
that the cells before the cursor end with what was written since the last line feed and
that those behind it are blank, which is what makes erasing across the left margin show
the right cell again. For the arguments, `SplitStates` says after each word that the words
found so far are stored below the place being written, in the order of the line's starts
of words; that the text from the place being read on is still the text typed, unless a 0
was written over the blank there; and that the loop stops in that case. Hence the
arguments are the first words, though not all of them (`ArgumentsKept` is violated by it).

`KeysOfScript` says that the keys read are those of the script, and `KeysInv` that the
port is at the first character of the next one's text, or behind the end. A call of the
driver is taken apart access by access (`GetsKey`); `ReadsSpelled` is the case analysis
of `next_script_key` over the ways to write a key, and `KeyStands` finds the text of key
`k` in the script, which are all texts joined (`TextsJoined`, the same induction by hand
for `FlattenSeq`).

Linker. Any objects and archives, of any sizes (`LinkAssumption` says only that
they are files of the right form). `TypeInv` is the type of the loop variables,
tables and cursors; it needs that the rows collected from a file are sections of
that file, a counting argument about `Nth`. `SearchInv` is why the search of the
archives may stop: a member that was passed in a round that has taken nothing is
of no use now, because nothing has been defined since; and what an object read
defines is in the table of names, so that a member which is needed is not there
yet. `MarkInv` is why the marking may stop: a section that is not live has not
been marked; a live one other than the vector table has a live one with a smaller
order that refers to it; and in a pass that has marked nothing, the targets of
all relocations passed are live.

`LayoutInv` is why the image is sound (`LaysOut`). It follows the kinds of sections in
their order, `Now`: of the kinds done all kept sections are placed, of those to come none
(`PlacedInv`), so that "address 0" means what the code takes it for. The cursors bound
what is placed (`CursorInv`, `SitsInv`), so that the next section is apart from all before
it, in flash and in RAM (`ApartInv`), and copying its bytes spoils no others. `ListInv` is
the map: what is listed is below what is not.

`ResolveInv` is why references are right (`ReferencesAreRight`). The names are walked
twice, by the collection and after the layout, and once more by each relocation:

* the entry of a name is the one strong definition passed so far, or the first weak one
  (`EntryInv`), and every definition passed has an entry (`KnownInv`); from the end of the
  search on entries keep their definitions, for the second walk meets the same ones,
* the entries that the second walk has passed hold their definitions' addresses, if they
  are kept (`ValueInv`); what kept sections refer to is kept (`KeptClosedInv`),
* every relocation passed has written its word, and no other has overwritten it
  (`WordsInv`): two relocations write at different places because their sections lie apart
  in flash (`LayoutInv`), have one row each (`UniqueInv`) and keep their words apart
  (`WellInv`).

What a symbol's value is to the linker's tables (`symbol_value`) is then compared with
what it means without them (`Meanings`, `Address`), case by case (`ValueIsAddress`). That
the processor reads a call as the distance that was encoded, for any widths of its two
fields, is the arithmetic of `CallFields` and `CallReads`.

Display. `SelectsQuietly` is about the order of accesses that the driver's
functions put together. `Settled` says of a script that between a byte and the
next change of a signal, and after the last byte, there is the wait for the port
at rest. Each function's script is shown to be settled from those of its parts,
for any call, colours, glyphs and sizes. `PortInv` then ties the script to the
port: what is left of the script is settled, and if a byte is in the FIFO or
leaving, a wait is still to come and no signal changes before it.

`DrawsAsSimulated` is the safety part of the refinement `PaintsScreen`: driver, port and
decoder take only the steps of `LcdScreen`. It is proved in two halves.

* What a script does when nothing else reaches the display: `Run(s, d, e, w)` says that it
  takes the decoder and the picture from `d` to `e` and changes pixels only to those of
  `w`. Commands leave the picture alone; the bytes of a window set its corners, for
  coordinates below `ByteMod * ByteMod` (`WindowRuns`); the bytes of the pixels go where
  the decoder's place is, which runs through the window row by row (`PlaceMoves`,
  `PixelRuns`, by induction over the bytes). So each call's script turns any picture into
  the one the simulator draws (`CallPaints`); of a text, each character's script draws its
  cell (`CharDraws`), the cells lie side by side (`CellsApart`), and the simulator's loop
  over the text draws the same (`TextPicture`). The driver computes a pixel's square from
  its place by division, the simulator a square's pixels by multiplication (`SquareOf`).
* What happens while the port's bytes are still on their way: `DrawInv` says that the
  bytes in the FIFO and then the rest of the script take the display as it is to a decoder
  that is ready and a picture that lacks of `wanted` at most the rest of a text. A byte
  that goes out is the first access of that run, a byte handed over goes from the script to
  the end of the FIFO, and a signal is set when the FIFO is empty, by `PortInv`: this is
  where the order of `SelectsQuietly` is needed.

`PortAssumption` says that two bytes hold a coordinate; with a display of more than
65536 pixels a side it would not. `ScreenAssumption` gives the types of the calls and of
the glyphs. Rectangles may be empty, inside out, or lie partly or wholly outside.

Solver. `RatMakeExact`, `RatAddExact`, `RatSubExact`, `RatMulExact` and `RatDivExact`
say for every limit that a result is refused or is the exact one, in lowest terms,
with a positive denominator and within the limit. They rest on `GcdProperty`: the
greatest common divisor exists, which is the least element of a set of numbers
turned round, and on `LowestTerms`: a divisor common to what is left after
division would make the greatest one greater. What polynomials, evaluation and
root search make of these operations are recursive functions, and stay with TLC.

Integers of the bare build. `IntegersAreRight` is `IntegersRight` for words of every even
number of bits, 32 among them, and for all operands (`IntAssumption`; of the operands
`OperandAssumption` says only that they are doubles or pairs of words). Each function is a
loop written as a recursive function, which is shown to have a solution first
(`RecursionExists`, `RecursionAgrees`, from the least element of a set of numbers), the
powers of two included (`Pow2Is`, `Pow2Sum`). The invariants of the loops are

* of the division of words: quotient so far times divisor and what is left make the
  dividend, and what is left is below the divisor at the place before (`WordDivides`); the
  loop that moves the divisor up must stop in time for it to hold at first (`PlacesAre`),
* of the division of pairs: quotient and remainder so far are those of the dividend without
  its lower places (`IsPartOf`), so that the remainder cannot leave its pair when the next
  bit is brought down, and the bit set in the quotient is not set yet (`BitSet`),
* of the shifts: a pair is what it stood for times, or divided by, a power of two
  (`ShiftedLeft`, `ShiftedRight`).

Words become numbers by one lemma on the carry between the two words of a pair
(`ValueOfPair`), used by difference, shift, negative and product. Signs are dealt with once
for both widths (`SignedDivides`): the case that needs care is the most negative number
divided by -1, whose quotient has no place and wraps, as in the code.

Video. `EveryFrameShown` is `ShowsEveryFrame` for frames of any size, any limits of the
fields of the format (`Delta`, `RunMax`, `GapMax`, `Nibble`, `Extra` and the window), any
frames and any number of them. `TileAssumption` says that a row of a tile is whole bytes;
`VideoAssumption` that `FrameMax` has room for every tile raw with its command, which the
buffers of the code have. The proof goes from the bytes up:

* `RoundTrip`: what `lzss_compress` writes, `lzss_decompress` reads back, for any bytes.
  Encoder and decoder are recursive functions that do not keep in step: the flags of a
  group are written before its items but known after them, so that the decoder has the
  whole byte when the encoder has part of it. `Covers` says of the final bytes that they
  hold what the encoder has written so far, with the rest of the flags as an unknown
  number `q`; it is carried back from the end of the compression to every item
  (`CoversBack`). `Reached` then says forwards where the decoder stands when the encoder
  was there: as many bytes out, the flags that are left of the byte, as many items of the
  group to come. A copy that overlaps what it writes repeats, by an induction over the
  bytes it writes (`Repeated`). Which match the chains find does not matter, only that it
  is one.
* `TileBack`: each of the encodings gives the tile back wherever it stands in the frame,
  and the analyzer's parser steps over as many bytes (`Encodes`, `RleBack`, `BitsBack`,
  `NibblesBack`, `RawBack`). Differences are undone because flipping twice is nothing;
  the ones of a tile are found again in order because the gaps add up to their places.
  Whatever is shortest, the choice is one of them.
* `FrameBack` and `ColorFrameBack`: along the tiles, the player's frame is the new one up
  to the tile reached and the old one beyond (`Between`, `ShownTo`). It is proved for the
  bytes written so far as a beginning of the whole payload (`Holds`). In colour a tile
  that was not sent differs in fewer pixels than the least change demands; what the encoder
  keeps as shown is what the display shows, so the error does not add up over frames.
* `VideoInv`: there is a history of the frames shown (`K`) and of the sums (`C`) along the
  stream, each entry got from the one before by encoding a frame; the encoder is at its end,
  and the player is where the history was after as many frames as it has played.
  `ShowsEveryFrame` alone is not inductive, since it speaks of the frame played last only,
  and the player needs to be as the encoder was when it wrote the next one.

In the code the fields are bytes, and the sizes fit into them: a tile has 128 pixels, so
that places and counts are below 256, and the limits of the other fields are the constants
above. That the recursive definitions have the values their equations say is proved first,
as for the integers (`RecursionExists`).

Proved and not listed in a run: the type invariants (`TypeCorrect`,
`DhcpTypeCorrect`, `NetTypeCorrect`, `CoreTypeCorrect`, `InBounds`, `LinkTypes`),
`OneActive` (`NoOverlap`) and `QuietSelect` (`SelectsQuietly`), which hold for every
instance, so that TLC's time goes to what is not proved.

Only model-checked: that a drawing call ends (the liveness part of `PaintsScreen`); what
compares the remaining algorithms with their definitions (`StepsAsManual`,
`SkippedAsRun`, `AnswersTrue`, `TextsTrue`, `DoublesRight`): the first two speak of whole
programs, and of them the single operations are proved; in the others each recursive
definition takes an induction made by hand, and the prover knows no laws of `^`, on which
most of these rest; and all liveness, which is beyond it.

## 5. What is not modelled

Checksums, header layout and address matching (a segment is one of the
connection or none); the clock, beyond that it may have passed any deadline;
log texts and statistics; a second connection on the same static socket with
segments of the first still under way; short writes of the platform below
`send_frame`. In the linker, malformed archives, relocation sections with an entry size
other than theirs, and `--app-base=0`, with which a section at address 0 would count as
not placed and be placed again.

In the emulator: literal data inside a program, addresses outside RAM and code, boot ROM
functions, the SIO divider, PIO, registers that only hold a value, the chaining of DMA
channels; traces, pictures and the scripted session. In the programs: those that draw
in a loop or probe one function once (cube, graphics_demo, benchmarks, the probes,
hello, keys), pads and clocks, the USB terminal, string and memory helpers of
`support.c`, and the conversions of single precision. In the tools: reading of pictures,
`bin2uf2`, `gen_picocalc_font`.

In the solver: floating-point root finding and integration, the area, tangent,
inflection and critical point modes, named parameters, labels and explanations, the
capacity of text buffers, and `exact` of a solved polynomial as the reader of texts sees
it. Rounding is left out of the texts: a double there is a rational number.

The vendored SSH client and cryptography and the SDK are outside the project.

### Seen in the code and outside the properties

These were met while translating. No property states them, mostly because nothing in
the repository says what should happen instead.

* TCP and adapter: without a key pressed, output that has arrived stays unread while the
  client waits for socket and keyboard (`poll_fd(fd, 0)`); a FIN that comes while it waits
  for the socket alone is not noticed.
* `picow_net_diag.c` pings 0.0.0.0 when the lease names no router and there is no host;
  its last line offers "r=retest" but the loop knows q and Esc only; `dns_ip` and
  `hop` change under a late DHCP reply. `scan_result` draws the address of the
  network just found, also when another one is marked.
* A key script that ends in a single backslash is read one character past its end.
  `i2c_write_byte` waits for the port without a deadline.
* Linker: a strong reference to a symbol whose section was not collected, an empty one
  for instance, gets the value 0 without an error (`HasAddress`); a name with weak
  definitions only means another definition to each object that has one; and a weak
  absolute symbol is its own number to its object even where a strong definition exists
  (`symbol_value` returns it before it looks for one). `Meanings` says so too.
* Arithmetic: `__aeabi_cdcmpeq` and `__aeabi_cdcmple` set the carry exactly when the first
  operand is less, the reverse of the run-time ABI. Nothing here calls them by name.
* Emulator: a load by a list that has its base in it leaves the incremented base, where
  the manual gives the loaded value; opcodes 0xDExx (permanently undefined) branch
  always, and those of If-Then count as hints; a read of the program counter as an
  operand gives the next instruction's address; BL leaves bit 0 of the link register
  clear. The properties leave these cases aside.
* Video: the encoding XOR_RAW1 is never chosen.
* Solver, exact: an inequality whose rest has degree three or more is decided by one test
  at zero when no root was found (x^3 - 2 > 0 gives the empty set); a touching root is
  not reported by `<=` and `>=` when it is alone (x^2 <= 0 gives the empty set); when the
  quadratic formula overflows, `solve_try_rational_quadratic` returns -1, which
  `solve_run_solver_equation` takes for "solved"; an equation whose rest has degree three
  or more lists the rational roots only.
* Solver, texts: the search for a product with exp cuts a text at its first `*`, also
  below a sum, so `--diff` of exp(x)*2+1 is exp(x)*(3) and that of x^2-3*exp(x) is
  exp(x)*(x^2 + 2*x - 3); an exponent without the variable that is no plain number
  counts as zero (x^sin(2) has the derivative 0); that of 2--3^x is 3^x*log(-3);
  `--diff` of an equation looks at its left side only, and x-x^3/3=0 has "no real
  solutions" there; a variable that has a function's name is read as the function by
  the short cut only; the recursion of the parsers is not bounded.

## 6. Plan

The modules of the first plan are written. In order of importance, what is left:

1. The skipped loops of `EmuThumb`: that one turn of a loop, instruction by instruction,
   leads to the same state as skipping it; it needs the decoding of their opcodes.
2. Chained DMA channels and the SIO divider of the emulator; the solver's area and tangent
   modes.
