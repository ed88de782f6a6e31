----------------------------- MODULE I2cKeyboard -----------------------------
(***************************************************************************)
(* Reading a key: the driver of src/picocalc/bare/picocalc_kbd_bare.c (the *)
(* build without the SDK) against the I2C port and the keyboard of         *)
(* src/host/emulator/bin_emu.c, which types a script of keys.              *)
(*                                                                         *)
(* A key is reported in two bytes, whether there is one and which.  The    *)
(* emulator answers a register access at once, so a call of the driver is  *)
(* one function of the state of the port.  Characters are their codes.     *)
(***************************************************************************)
EXTENDS Integers, Sequences

CONSTANTS
  KBD_ADDR, KBD_REG_KEY,
  I2C_FIFO_SIZE

KeyboardAssumption == I2C_FIFO_SIZE \in Nat \ {0}

NoKey == -1
Backslash == 92

-----------------------------------------------------------------------------
(* next_script_key: from position at of the script, the key and the next    *)
(* position.  The script is followed by zeros, as it is in g_key_file.      *)

Char(script, at) == IF at \in DOMAIN script THEN script[at] ELSE 0

HexValue(ch) ==
  CASE ch \in 48 .. 57 -> ch - 48 [] ch \in 97 .. 102 -> ch - 87
    [] ch \in 65 .. 70 -> ch - 55 [] OTHER -> -1
Escape(ch) ==
  CASE ch = 110 -> 10 [] ch = 114 -> 13 [] ch = 116 -> 9 [] ch = 98 -> 8 [] OTHER -> ch

next_script_key(script, at) ==
  LET Key(key, after) == [key |-> key, next |-> after]
      ch == Char(script, at)
      escaped == Char(script, at + 1)
      high == HexValue(Char(script, at + 2))
      low == HexValue(Char(script, at + 3))
  IN CASE ch = 0 -> Key(NoKey, at)
       [] ch \notin {0, Backslash} -> Key(ch, at + 1)
       [] ch = Backslash /\ escaped = 0 -> Key(Backslash, at + 2)
       [] ch = Backslash /\ escaped = 120 ->
            IF high < 0 THEN Key(120, at + 2)
            ELSE IF low < 0 THEN Key(high, at + 3)
            ELSE Key(16 * high + low, at + 4)
       [] OTHER -> Key(Escape(escaped), at + 2)

-----------------------------------------------------------------------------
(* the port of the emulator                                                 *)

NewPort(script) == [
  script |-> script, at |-> 1, tar |-> 0, selected_reg |-> 0,
  key_report_index |-> 0, key_report_key |-> NoKey,
  rx |-> <<>>, abrt |-> FALSE, stop_det |-> FALSE]

i2c_rx_push(p, byte) ==
  IF Len(p.rx) < I2C_FIFO_SIZE THEN [p EXCEPT !.rx = Append(@, byte)] ELSE [p EXCEPT !.abrt = TRUE]

key_report_AlwaysFirst(p) ==
  LET next == next_script_key(p.script, p.at)
  IN i2c_rx_push([p EXCEPT !.at = next.next], IF next.key >= 0 THEN 1 ELSE 0)
key_report(p) ==
  IF p.tar # KBD_ADDR \/ p.selected_reg # KBD_REG_KEY THEN i2c_rx_push(p, 0)
  ELSE IF p.key_report_index = 0
  THEN LET next == next_script_key(p.script, p.at)
       IN i2c_rx_push([p EXCEPT !.at = next.next, !.key_report_key = next.key,
                                !.key_report_index = 1],
                      IF next.key >= 0 THEN 1 ELSE 0)
  ELSE i2c_rx_push([p EXCEPT !.key_report_index = 0],
                   IF p.key_report_key >= 0 THEN p.key_report_key ELSE 0)

SelectRegister(p, value) == [p EXCEPT !.selected_reg = value, !.key_report_index = 0]

\* a write of IC_DATA_CMD
i2c_data_cmd(p, value, flags) ==
  LET done == IF "read" \in flags THEN key_report(p)
              ELSE IF p.tar = KBD_ADDR THEN SelectRegister(p, value)
              ELSE p
  IN [done EXCEPT !.stop_det = @ \/ "stop" \in flags]

-----------------------------------------------------------------------------
(* the driver                                                               *)

i2c_wait_stop(p) == [p EXCEPT !.stop_det = FALSE]
i2c_write_byte(p, address, byte) ==
  i2c_wait_stop(i2c_data_cmd([p EXCEPT !.tar = address], byte, {"stop"}))

\* two bytes: what is received, and the port after it
i2c_read(p, address) ==
  LET one == i2c_data_cmd([p EXCEPT !.tar = address], 0, {"read"})
      two == i2c_data_cmd([one EXCEPT !.rx = Tail(@)], 0, {"read", "stop"})
  IN [bytes |-> <<one.rx[1], two.rx[1]>>, port |-> i2c_wait_stop([two EXCEPT !.rx = Tail(@)])]

picocalc_kbd_read_key(p) ==
  LET got == i2c_read(i2c_write_byte(p, KBD_ADDR, KBD_REG_KEY), KBD_ADDR)
  IN [key |-> IF got.bytes[1] = 1 THEN got.bytes[2] ELSE NoKey, port |-> got.port]
=============================================================================
