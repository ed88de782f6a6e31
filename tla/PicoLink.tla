------------------------------ MODULE PicoLink ------------------------------
(***************************************************************************)
(* The linker (src/host/linker/pico_link.c): it reads object files, takes  *)
(* the archive members they need, keeps the sections that the vector table *)
(* reaches, lays them out in flash and RAM, and relocates them.            *)
(*                                                                         *)
(* The program runs once and ends, or fails; its loops are cut into one    *)
(* step for each section, symbol or relocation.  What it is given is       *)
(* chosen in the initial state.  Files are written as what their ELF       *)
(* headers say; a byte of a section is known by its place there.           *)
(***************************************************************************)
EXTENDS Integers, Sequences, FiniteSets, SequencesExt

CONSTANTS
  Inputs,                         \* what may be on the command line (IsInput)
  Unit,                           \* a word, 4 bytes
  AppBase, RamBase, StackTop,     \* g_app_base, RAM_BASE, STACK_TOP
  WordMod,                        \* 2^32
  Imm10, Imm11,                   \* 2^10 and 2^11: the two fields of a call
  MaxObjects, MaxSections, MaxGlobals, MaxOutput

UNDEF == 0
ABS == -1
NoSection == 0
Failed == -1
Special == {"__text_start", "__text_end", "__data_source", "__data_start",
            "__data_end", "__bss_start", "__bss_end", "__StackLimit", "__StackTop"}

Headers == [vectors : BOOLEAN, type : {"progbits", "nobits", "other"}, alloc : BOOLEAN,
            exec : BOOLEAN, write : BOOLEAN, size : Nat, align : Nat]
Symbols == [name : STRING, bind : {"local", "global", "weak"}, section : Nat \cup {ABS}, value : Nat]
Relocations == [section : Nat, offset : Nat, symbol : Nat,
                type : {"abs32", "rel32", "call", "other"}, addend : Int]
\* ok: parse_object_data finds no fault in it.
Files == [ok : BOOLEAN, sections : Seq(Headers), symbols : Seq(Symbols), rels : Seq(Relocations)]
\* As compilers write them: the words to relocate lie in their section, and apart.
WellFormed(f) ==
  \A i \in DOMAIN f.rels :
    LET r == f.rels[i]
    IN  /\ r.symbol \in DOMAIN f.symbols
        /\ r.section \in DOMAIN f.sections =>
             f.sections[r.section].type # "nobits" /\ r.offset + Unit <= f.sections[r.section].size
        /\ \A j \in DOMAIN f.rels : i # j /\ f.rels[j].section = r.section =>
             r.offset + Unit <= f.rels[j].offset \/ f.rels[j].offset + Unit <= r.offset
IsInput(in) ==
  /\ in.objects \in Seq(Files) /\ in.archives \in Seq(Seq(Files))
  /\ \A i \in DOMAIN in.objects : WellFormed(in.objects[i])
  /\ \A a \in DOMAIN in.archives : \A m \in DOMAIN in.archives[a] : WellFormed(in.archives[a][m])
  /\ in.gc \in BOOLEAN /\ in.reach \in BOOLEAN /\ in.map \in BOOLEAN

ASSUME LinkAssumption ==
  /\ \A in \in Inputs : IsInput(in)
  /\ {Unit, AppBase, RamBase, StackTop, WordMod, Imm10, Imm11} \subseteq Nat \ {0}
  /\ {MaxObjects, MaxSections, MaxGlobals, MaxOutput} \subseteq Nat
\* The image lies in flash, below RAM: so it does from the default base on.
ASSUME FlashAssumption == AppBase + MaxOutput <= RamBase

VARIABLES
  input,     \* the command line and the files
  phase,     \* of linker_main, or "done", or "failed"
  at,        \* the loop variables
  objects,   \* g_objects
  secs,      \* g_input_sections
  globals,   \* g_globals, by name
  layout,    \* flash_cursor, ram_cursor and the bounds g_text_start ... g_bss_end
  image,     \* g_output: which byte of which section is at an offset
  words,     \* what relocations have written at an offset
  listed     \* the sections listed in the map file

vars == <<input, phase, at, objects, secs, globals, layout, image, words, listed>>

Init ==
  /\ input \in Inputs /\ phase = "read"
  /\ at = [object |-> 1, symbol |-> 1, archive |-> 1, member |-> 1, section |-> 1, rel |-> 1,
           kind |-> 1, live |-> 0, changed |-> FALSE]
  /\ objects = <<>> /\ secs = <<>> /\ globals = <<>>
  /\ layout = [flash |-> AppBase, ram |-> RamBase, text_start |-> AppBase, text_end |-> 0,
               data_source |-> 0, data_start |-> 0, data_end |-> 0, bss_start |-> 0, bss_end |-> 0]
  /\ image = <<>> /\ words = <<>> /\ listed = <<>>

Fail == phase' = "failed" /\ UNCHANGED <<input, at, objects, secs, globals, layout, image, words, listed>>

-----------------------------------------------------------------------------
(* Reading objects                                                          *)

Kinds == <<"vectors", "text", "rodata", "data", "bss">>
classify_section(h) ==
  CASE h.vectors -> "vectors"
    [] ~h.vectors /\ h.exec -> "text"
    [] ~h.vectors /\ ~h.exec /\ h.write /\ h.type = "nobits" -> "bss"
    [] ~h.vectors /\ ~h.exec /\ h.write /\ h.type # "nobits" -> "data"
    [] OTHER -> "rodata"

InputSection(o, i, h) ==
  [object |-> o, index |-> i, kind |-> classify_section(h), live |-> FALSE, order |-> -1,
   vma |-> 0, lma |-> 0, offset |-> 0]
\* Sections that take space when the program runs, in the order of the file.
Collected(file) ==
  {i \in DOMAIN file.sections :
     LET h == file.sections[i] IN h.alloc /\ h.size > 0 /\ h.type \in {"progbits", "nobits"}}
Nth(S, k) == CHOOSE i \in S : Cardinality({j \in S : j <= i}) = k
collect_input_sections(o, file) ==
  [k \in 1 .. Cardinality(Collected(file)) |->
     InputSection(o, Nth(Collected(file), k), file.sections[Nth(Collected(file), k)])]

\* The object is read and its sections are collected, or the linker gives up.
Readable(file) ==
  /\ Len(objects) < MaxObjects /\ file.ok
  /\ Len(secs) + Len(collect_input_sections(Len(objects) + 1, file)) <= MaxSections
Read(file) ==
  /\ objects' = Append(objects, file)
  /\ secs' = secs \o collect_input_sections(Len(objects) + 1, file)

ReadObject ==
  /\ phase = "read" /\ Len(objects) < Len(input.objects)
  /\ LET file == input.objects[Len(objects) + 1]
     IN  IF Readable(file) THEN Read(file) /\ UNCHANGED <<phase, at>> ELSE
         Fail
  /\ UNCHANGED <<input, globals, layout, image, words, listed>>

ReadDone ==
  /\ phase = "read" /\ Len(objects) = Len(input.objects) /\ phase' = "names"
  /\ UNCHANGED <<input, at, objects, secs, globals, layout, image, words, listed>>

-----------------------------------------------------------------------------
(* Global symbols and archives                                              *)

Symbol(o, i) == objects[o].symbols[i]
Defines(sym) == sym.bind # "local" /\ sym.section # UNDEF

Global(sym, value, o, i) == [bind |-> sym.bind, value |-> value, object |-> o, symbol |-> i]
Duplicate(sym, o, i) ==
  /\ sym.name \in DOMAIN globals /\ <<globals[sym.name].object, globals[sym.name].symbol>> # <<o, i>>
  /\ globals[sym.name].bind = "global" /\ sym.bind = "global"
\* The first definition counts, unless it is weak and a strong one follows.
Replaces_Latest(sym, o, i) == TRUE
Replaces(sym, o, i) ==
  \/ sym.name \notin DOMAIN globals
  \/ <<globals[sym.name].object, globals[sym.name].symbol>> = <<o, i>>
  \/ globals[sym.name].bind = "weak" /\ sym.bind = "global"
add_global_symbol(value, o, i) ==
  LET sym == Symbol(o, i)
  IN  IF Duplicate(sym, o, i)
         \/ (sym.name \notin DOMAIN globals /\ Cardinality(DOMAIN globals) >= MaxGlobals)
      THEN Fail
      ELSE /\ globals' = IF Replaces(sym, o, i)
                         THEN [n \in DOMAIN globals \cup {sym.name} |->
                                 IF n = sym.name THEN Global(sym, value, o, i) ELSE globals[n]]
                         ELSE globals
           /\ at' = [at EXCEPT !.symbol = i + 1]
           /\ UNCHANGED phase

\* From object at.object to the last one, symbol by symbol.
collect_object_global_symbol_names ==
  /\ phase = "names" /\ at.object <= Len(objects) /\ at.symbol <= Len(objects[at.object].symbols)
  /\ IF Defines(Symbol(at.object, at.symbol)) THEN add_global_symbol(0, at.object, at.symbol)
     ELSE at' = [at EXCEPT !.symbol = @ + 1] /\ UNCHANGED <<phase, globals>>
  /\ UNCHANGED <<input, objects, secs, layout, image, words, listed>>

NextObject ==
  /\ phase \in {"names", "globals"}
  /\ at.object <= Len(objects) /\ at.symbol > Len(objects[at.object].symbols)
  /\ at' = [at EXCEPT !.object = @ + 1, !.symbol = 1]
  /\ UNCHANGED <<input, phase, objects, secs, globals, layout, image, words, listed>>

NamesDone ==
  /\ phase = "names" /\ at.object > Len(objects) /\ phase' = "archives"
  /\ UNCHANGED <<input, at, objects, secs, globals, layout, image, words, listed>>

\* Only strong references pull a member out of an archive.
symbol_is_unresolved(name) ==
  /\ name \notin Special /\ name \notin DOMAIN globals
  /\ \E o \in DOMAIN objects : \E i \in DOMAIN objects[o].symbols :
       LET sym == Symbol(o, i)
       IN  sym.section = UNDEF /\ sym.bind = "global" /\ sym.name = name
object_buffer_defines_needed(file) ==
  file.ok /\ \E i \in DOMAIN file.symbols :
               Defines(file.symbols[i]) /\ symbol_is_unresolved(file.symbols[i].name)

scan_archive_once ==
  /\ phase = "archives" /\ at.archive <= Len(input.archives)
  /\ LET members == input.archives[at.archive]
         file == members[at.member]
     IN  IF at.member > Len(members)
         THEN /\ at' = [at EXCEPT !.archive = @ + 1, !.member = 1]
              /\ UNCHANGED <<phase, objects, secs>>
         ELSE IF ~object_buffer_defines_needed(file)
         THEN at' = [at EXCEPT !.member = @ + 1] /\ UNCHANGED <<phase, objects, secs>>
         ELSE IF Readable(file)
         THEN /\ Read(file) /\ phase' = "names"
              /\ at' = [at EXCEPT !.member = @ + 1, !.changed = TRUE,
                                  !.object = Len(objects) + 1, !.symbol = 1]
         ELSE Fail
  /\ UNCHANGED <<input, globals, layout, image, words, listed>>

\* A member may need what an earlier one defines: the archives are read again.
resolve_archives_Once ==
  /\ phase = "archives" /\ at.archive > Len(input.archives) /\ phase' = "mark"
  /\ UNCHANGED <<input, at, objects, secs, globals, layout, image, words, listed>>
resolve_archives ==
  /\ phase = "archives" /\ at.archive > Len(input.archives)
  /\ IF at.changed
     THEN at' = [at EXCEPT !.archive = 1, !.member = 1, !.changed = FALSE] /\ UNCHANGED phase
     ELSE phase' = "mark" /\ UNCHANGED at
  /\ UNCHANGED <<input, objects, secs, globals, layout, image, words, listed>>

-----------------------------------------------------------------------------
(* Which section a symbol stands for, and which are kept                    *)

SectionRange == 1 .. Len(secs)
Header(p) == objects[secs[p].object].sections[secs[p].index]
Rows(o, i) == {p \in SectionRange : secs[p].object = o /\ secs[p].index = i}
OneOf(S) == IF S = {} THEN NoSection ELSE CHOOSE p \in S : TRUE
find_input_section(o, i) == OneOf(Rows(o, i))

strong_global_replacing_weak(name, o, i) ==
  /\ name \in DOMAIN globals /\ globals[name].bind = "global"
  /\ <<globals[name].object, globals[name].symbol>> # <<o, i>>

\* The place of the section, NoSection if the symbol is in none, Failed if the
\* symbol is unresolved.  The entry of g_globals for a symbol is its own or
\* strong, so that following it once is enough.
Own(o, i) ==
  IF Symbol(o, i).section = ABS THEN NoSection ELSE find_input_section(o, Symbol(o, i).section)
symbol_target_section(o, i) ==
  LET sym == Symbol(o, i)
      global == globals[sym.name]
  IN  IF sym.section \notin {UNDEF, ABS}
      THEN IF sym.bind = "weak" /\ strong_global_replacing_weak(sym.name, o, i)
           THEN Own(global.object, global.symbol) ELSE Own(o, i)
      ELSE IF sym.section = ABS \/ sym.name \in Special THEN NoSection
      ELSE IF sym.name \in DOMAIN globals THEN Own(global.object, global.symbol)
      ELSE IF sym.bind = "weak" THEN NoSection ELSE Failed

\* The roots, or everything without garbage collection, in input order.
mark_section_live(marked) ==
  [p \in SectionRange |->
     IF p \in marked
     THEN [secs[p] EXCEPT !.live = TRUE,
                          !.order = at.live + Cardinality({q \in marked : q < p})]
     ELSE secs[p]]
mark_roots ==
  /\ phase = "mark"
  /\ LET roots == {p \in SectionRange : input.gc => secs[p].kind = "vectors"}
     IN  /\ secs' = mark_section_live(roots)
         /\ at' = [at EXCEPT !.live = Cardinality(roots), !.changed = FALSE,
                             !.section = 1, !.rel = 1]
  /\ phase' = IF input.gc THEN "reach" ELSE "layout"
  /\ UNCHANGED <<input, objects, globals, layout, image, words, listed>>

\* The relocation at.rel of the live section at.section.
mark_reachable_sections ==
  /\ phase = "reach" /\ at.section \in SectionRange /\ secs[at.section].live
  /\ LET s == secs[at.section]
         rels == objects[s.object].rels
         target == symbol_target_section(s.object, rels[at.rel].symbol)
     IN  /\ at.rel <= Len(rels)
         /\ IF rels[at.rel].section # s.index
               \/ target = NoSection \/ (target > 0 /\ secs[target].live)
            THEN at' = [at EXCEPT !.rel = @ + 1] /\ UNCHANGED <<phase, secs>>
            ELSE IF target = Failed THEN Fail
            ELSE /\ secs' = mark_section_live({target})
                 /\ at' = [at EXCEPT !.rel = @ + 1, !.live = @ + 1, !.changed = TRUE]
                 /\ UNCHANGED phase
  /\ UNCHANGED <<input, objects, globals, layout, image, words, listed>>

NextSection ==
  /\ phase = "reach" /\ at.section \in SectionRange
  /\ ~secs[at.section].live \/ at.rel > Len(objects[secs[at.section].object].rels)
  /\ at' = [at EXCEPT !.section = @ + 1, !.rel = 1]
  /\ UNCHANGED <<input, phase, objects, secs, globals, layout, image, words, listed>>

PassDone_Always ==
  /\ phase = "reach" /\ at.section > Len(secs) /\ phase' = "layout"
  /\ UNCHANGED <<input, at, objects, secs, globals, layout, image, words, listed>>
PassDone ==
  /\ phase = "reach" /\ at.section > Len(secs)
  /\ IF at.changed
     THEN at' = [at EXCEPT !.section = 1, !.rel = 1, !.changed = FALSE] /\ UNCHANGED phase
     ELSE phase' = "layout" /\ UNCHANGED at
  /\ UNCHANGED <<input, objects, secs, globals, layout, image, words, listed>>

-----------------------------------------------------------------------------
(* Layout                                                                   *)

\* To the next multiple; alignments are powers of two, as the mask in the code asks.
align_up_Down(value, alignment) == alignment * (value \div alignment)
align_up(value, alignment) == value + ((-value) % alignment)
Align(p) == IF Header(p).align = 0 THEN 1 ELSE Header(p).align

\* Address 0 stands for "not placed yet".
Waiting(kind) == {p \in SectionRange : secs[p].kind = kind /\ secs[p].live /\ secs[p].vma = 0}
NextToPlace(kind) ==
  CHOOSE p \in Waiting(kind) : \A q \in Waiting(kind) :
    IF input.reach THEN secs[p].order <= secs[q].order ELSE p <= q

copy_section_bytes(p, offset) ==
  LET bytes == IF Header(p).type = "nobits" THEN {} ELSE offset .. offset + Header(p).size - 1
  IN  [b \in DOMAIN image \cup bytes |-> IF b \in bytes THEN <<p, b - offset>> ELSE image[b]]
Fits(p, offset) == Header(p).type = "nobits" \/ offset + Header(p).size <= MaxOutput

PlaceAt(p, vma, lma) ==
  IF ~Fits(p, lma - AppBase) THEN Fail
  ELSE /\ secs' = [secs EXCEPT ![p].vma = vma, ![p].lma = lma, ![p].offset = lma - AppBase]
       /\ image' = copy_section_bytes(p, lma - AppBase)
       /\ UNCHANGED phase

layout_flash_sections ==
  /\ phase = "layout" /\ Kinds[at.kind] \in {"vectors", "text", "rodata"}
  /\ Waiting(Kinds[at.kind]) # {}
  /\ LET p == NextToPlace(Kinds[at.kind])
         start == align_up(layout.flash, Align(p))
     IN  /\ PlaceAt(p, start, start)
         /\ layout' = IF Fits(p, start - AppBase) THEN [layout EXCEPT !.flash = start + Header(p).size]
                      ELSE layout
  /\ UNCHANGED <<input, at, objects, globals, words, listed>>

layout_data_sections ==
  /\ phase = "layout" /\ Kinds[at.kind] = "data" /\ Waiting("data") # {}
  /\ LET p == NextToPlace("data")
         ram == align_up(layout.ram, Align(p))
         flash == align_up(layout.flash, Align(p))
     IN  /\ PlaceAt(p, ram, flash)
         /\ layout' = IF Fits(p, flash - AppBase)
                      THEN [layout EXCEPT !.ram = ram + Header(p).size, !.flash = flash + Header(p).size]
                      ELSE layout
  /\ UNCHANGED <<input, at, objects, globals, words, listed>>

layout_bss_sections ==
  /\ phase = "layout" /\ Kinds[at.kind] = "bss" /\ Waiting("bss") # {}
  /\ LET p == NextToPlace("bss")
         ram == align_up(layout.ram, Align(p))
     IN  /\ secs' = [secs EXCEPT ![p].vma = ram, ![p].lma = 0, ![p].offset = 0]
         /\ layout' = [layout EXCEPT !.ram = ram + Header(p).size]
  /\ UNCHANGED <<input, phase, at, objects, globals, image, words, listed>>

\* What layout_sections does between two kinds of sections.
layout_sections ==
  LET kind == Kinds[at.kind]
      flash == align_up(layout.flash, Unit)
      ram == align_up(layout.ram, Unit)
  IN  /\ phase = "layout" /\ Waiting(kind) = {}
      /\ layout' =
           CASE kind \in {"vectors", "text"} -> layout
             [] kind = "rodata" -> [layout EXCEPT !.flash = flash, !.text_end = flash, !.ram = ram,
                                                  !.data_source = flash, !.data_start = ram]
             [] kind = "data" -> [layout EXCEPT !.data_end = layout.ram, !.ram = ram, !.bss_start = ram]
             [] OTHER -> [layout EXCEPT !.bss_end = ram]
      /\ IF kind # "bss" THEN at' = [at EXCEPT !.kind = @ + 1] /\ UNCHANGED phase
         ELSE /\ at' = [at EXCEPT !.object = 1, !.symbol = 1]
              /\ phase' = IF layout.flash - AppBase > MaxOutput THEN "failed" ELSE "globals"
      /\ UNCHANGED <<input, objects, secs, globals, image, words, listed>>

-----------------------------------------------------------------------------
(* Addresses and relocation                                                 *)

special_symbol_value(name) ==
  CASE name = "__text_start" -> layout.text_start [] name = "__text_end" -> layout.text_end
    [] name = "__data_source" -> layout.data_source [] name = "__data_start" -> layout.data_start
    [] name = "__data_end" -> layout.data_end [] name = "__bss_start" -> layout.bss_start
    [] name = "__bss_end" -> layout.bss_end [] name = "__StackLimit" -> RamBase
    [] name = "__StackTop" -> StackTop

symbol_value(o, i) ==
  LET sym == Symbol(o, i)
      own == find_input_section(o, sym.section)
  IN  IF sym.section = ABS THEN sym.value
      ELSE IF sym.section # UNDEF
      THEN IF sym.bind = "weak" /\ strong_global_replacing_weak(sym.name, o, i)
           THEN globals[sym.name].value
           ELSE IF own = NoSection THEN Failed ELSE secs[own].vma + sym.value
      ELSE IF sym.name \in Special THEN special_symbol_value(sym.name)
      ELSE IF sym.name \in DOMAIN globals THEN globals[sym.name].value
      ELSE IF sym.bind = "weak" THEN 0 ELSE Failed

\* Now with their values; symbols of sections that were dropped keep the value 0.
collect_global_symbols ==
  /\ phase = "globals" /\ at.object <= Len(objects) /\ at.symbol <= Len(objects[at.object].symbols)
  /\ LET sym == Symbol(at.object, at.symbol)
         own == find_input_section(at.object, sym.section)
         value == symbol_value(at.object, at.symbol)
     IN  IF ~Defines(sym) \/ (sym.section # ABS /\ (own = NoSection \/ ~secs[own].live))
         THEN at' = [at EXCEPT !.symbol = @ + 1] /\ UNCHANGED <<phase, globals>>
         ELSE IF value = Failed THEN Fail
         ELSE add_global_symbol(value, at.object, at.symbol)
  /\ UNCHANGED <<input, objects, secs, layout, image, words, listed>>

GlobalsDone ==
  /\ phase = "globals" /\ at.object > Len(objects) /\ phase' = "relocate"
  /\ at' = [at EXCEPT !.object = 1, !.rel = 1]
  /\ UNCHANGED <<input, objects, secs, globals, layout, image, words, listed>>

\* A call goes CallRange back to CallRange - 2 ahead; its distance is cut into
\* the fields of two halfwords.
CallRange == 8 * Imm10 * Imm11
Signed(x) == IF x >= WordMod \div 2 THEN x - WordMod ELSE x
Bit(x, weight) == (x \div weight) % 2
encode_thumb_call(offset) ==
  LET encoded == offset % (2 * CallRange)
      sign == Bit(encoded, CallRange)
      J(bit) == IF bit = sign THEN 1 ELSE 0
  IN  [sign |-> sign, imm10 |-> (encoded \div (2 * Imm11)) % Imm10,
       j1 |-> J(Bit(encoded, CallRange \div 2)), j2 |-> J(Bit(encoded, CallRange \div 4)),
       imm11 |-> (encoded \div 2) % Imm11]

Reach(s, r, value) == (value + r.addend - (s.vma + r.offset)) % WordMod
apply_thumb_call(distance) == encode_thumb_call(2 * (distance \div 2))
InRange(distance) == 2 * (distance \div 2) \in -CallRange .. CallRange - 2

apply_relocations ==
  /\ phase = "relocate" /\ at.object <= Len(objects) /\ at.rel <= Len(objects[at.object].rels)
  /\ LET r == objects[at.object].rels[at.rel]
         p == find_input_section(at.object, r.section)
         value == symbol_value(at.object, r.symbol)
         distance == Reach(secs[p], r, value)
         word == CASE r.type = "abs32" -> (value + r.addend) % WordMod
                   [] r.type = "rel32" -> distance
                   [] r.type = "call" -> apply_thumb_call(Signed(distance))
     IN  IF p = NoSection \/ ~secs[p].live
         THEN at' = [at EXCEPT !.rel = @ + 1] /\ UNCHANGED <<phase, words>>
         ELSE IF r.type = "other" \/ value = Failed \/ (r.type = "call" /\ ~InRange(Signed(distance)))
         THEN Fail
         ELSE /\ words' = LET where == secs[p].offset + r.offset
                          IN  [b \in DOMAIN words \cup {where} |->
                                 IF b = where THEN word ELSE words[b]]
              /\ at' = [at EXCEPT !.rel = @ + 1] /\ UNCHANGED phase
  /\ UNCHANGED <<input, objects, secs, globals, layout, image, listed>>

NextRelocations ==
  /\ phase = "relocate" /\ at.object <= Len(objects) /\ at.rel > Len(objects[at.object].rels)
  /\ at' = [at EXCEPT !.object = @ + 1, !.rel = 1]
  /\ UNCHANGED <<input, phase, objects, secs, globals, layout, image, words, listed>>

RelocationsDone ==
  /\ phase = "relocate" /\ at.object > Len(objects)
  /\ phase' = IF input.map THEN "map" ELSE "done"
  /\ UNCHANGED <<input, at, objects, secs, globals, layout, image, words, listed>>

\* The map lists kept sections by address; live_order marks those listed.
Unlisted == {p \in SectionRange : secs[p].live /\ secs[p].vma # 0 /\ secs[p].order >= 0}
NextListed ==
  CHOOSE p \in Unlisted : \A q \in Unlisted :
    secs[p].vma < secs[q].vma \/ (secs[p].vma = secs[q].vma /\ p <= q)
write_map ==
  /\ phase = "map"
  /\ IF Unlisted = {} THEN phase' = "done" /\ UNCHANGED <<secs, listed>>
     ELSE /\ listed' = Append(listed, NextListed)
          /\ secs' = [secs EXCEPT ![NextListed].order = -1]
          /\ UNCHANGED phase
  /\ UNCHANGED <<input, at, objects, globals, layout, image, words>>

Next ==
  \/ ReadObject \/ ReadDone
  \/ collect_object_global_symbol_names \/ NextObject \/ NamesDone
  \/ scan_archive_once \/ resolve_archives
  \/ mark_roots \/ mark_reachable_sections \/ NextSection \/ PassDone
  \/ layout_flash_sections \/ layout_data_sections \/ layout_bss_sections \/ layout_sections
  \/ collect_global_symbols \/ GlobalsDone
  \/ apply_relocations \/ NextRelocations \/ RelocationsDone \/ write_map

\* The program runs.
Spec == Init /\ [][Next]_vars /\ WF_vars(Next)

-----------------------------------------------------------------------------
(* Properties                                                               *)

Linked == phase \in {"map", "done"}
LinkTypeOK ==
  /\ input \in Inputs
  /\ phase \in {"read", "names", "archives", "mark", "reach", "layout", "globals",
                "relocate", "map", "done", "failed"}
  /\ Len(objects) <= MaxObjects /\ Len(secs) <= MaxSections
  /\ Cardinality(DOMAIN globals) <= MaxGlobals
  /\ \A p \in SectionRange :
       /\ secs[p].object \in DOMAIN objects
       /\ secs[p].index \in DOMAIN objects[secs[p].object].sections
       /\ secs[p].kind \in ToSet(Kinds) /\ secs[p].live \in BOOLEAN
       /\ {secs[p].vma, secs[p].lma} \subseteq 0 .. WordMod - 1
  /\ \A n \in DOMAIN globals :
       /\ globals[n].object \in DOMAIN objects
       /\ globals[n].symbol \in DOMAIN objects[globals[n].object].symbols
       /\ Symbol(globals[n].object, globals[n].symbol).name = n
       /\ globals[n].value \in 0 .. WordMod - 1
  /\ DOMAIN image \subseteq 0 .. MaxOutput - 1

\* What a symbol means, without the linker's tables: the strong definition of
\* the name, else the symbol itself, else the first weak definition.  A number
\* means itself, whatever else has its name.
Definitions(name, bind) ==
  UNION {{<<o, i>> : i \in {i \in DOMAIN objects[o].symbols :
                              /\ Symbol(o, i).name = name /\ Symbol(o, i).bind = bind
                              /\ Defines(Symbol(o, i))}} : o \in DOMAIN objects}
Before(d, e) == d[1] < e[1] \/ (d[1] = e[1] /\ d[2] <= e[2])
Meanings(o, i) ==
  LET sym == Symbol(o, i)
      weak == Definitions(sym.name, "weak")
  IN  IF sym.section = ABS \/ (sym.section # UNDEF /\ sym.bind # "weak") THEN {<<o, i>>}
      ELSE IF sym.section = UNDEF /\ sym.name \in Special THEN {}
      ELSE IF Definitions(sym.name, "global") # {} THEN Definitions(sym.name, "global")
      ELSE IF sym.section # UNDEF THEN {<<o, i>>}
      ELSE {d \in weak : \A e \in weak : Before(d, e)}
Place(d) == find_input_section(d[1], Symbol(d[1], d[2]).section)
Address(o, i) ==
  IF Meanings(o, i) = {}
  THEN IF Symbol(o, i).name \in Special THEN special_symbol_value(Symbol(o, i).name) ELSE 0
  ELSE LET d == CHOOSE d \in Meanings(o, i) : TRUE
           sym == Symbol(d[1], d[2])
       IN  IF sym.section = ABS THEN sym.value ELSE secs[Place(d)].vma + sym.value
\* A definition in a section that is not collected, as an empty one, has no address.
HasAddress(o, i) ==
  \A d \in Meanings(o, i) : Symbol(d[1], d[2]).section = ABS \/ Place(d) # NoSection

Kept == {p \in SectionRange : secs[p].live}
\* The relocations of a section.
Rels(p) ==
  LET rels == objects[secs[p].object].rels
  IN  {rels[k] : k \in {k \in DOMAIN rels : rels[k].section = secs[p].index}}
\* How the processor reads a call.
CallDistance(w) ==
  LET I(j) == IF j = w.sign THEN 1 ELSE 0
  IN  2 * w.imm11 + 2 * Imm11 * w.imm10 + (CallRange \div 4) * I(w.j2)
        + (CallRange \div 2) * I(w.j1) - CallRange * w.sign

\* Every reference in the image is to the one definition its symbol means, at
\* the address where that definition lies: a call reaches it, a word holds it.
\* Resolving names for the collection and for relocation are two pieces of code.
ReferencesResolved ==
  Linked => \A p \in Kept : \A r \in Rels(p) :
    LET s == secs[p]
        address == Address(s.object, r.symbol)
        word == words[s.offset + r.offset]
        d == CHOOSE d \in Meanings(s.object, r.symbol) : TRUE
    IN  HasAddress(s.object, r.symbol) =>
          /\ CASE r.type = "abs32" -> word = (address + r.addend) % WordMod
               [] r.type = "rel32" -> (s.vma + r.offset + word) % WordMod = (address + r.addend) % WordMod
               [] r.type = "call" ->
                    LET target == s.vma + r.offset + CallDistance(word)
                    IN  \E low \in {0, 1} : (target + low) % WordMod = (address + r.addend) % WordMod
          /\ Meanings(s.object, r.symbol) # {} /\ Symbol(d[1], d[2]).section # ABS
               => secs[Place(d)].live

\* What is kept is what the vector table reaches: it is closed under references,
\* and each section but the table was reached from one kept before it.
Targets(p) == {symbol_target_section(secs[p].object, r.symbol) : r \in Rels(p)} \ {NoSection}
OnlyReachable ==
  phase = "layout" /\ input.gc => \A p \in SectionRange :
    /\ secs[p].kind = "vectors" => secs[p].live
    /\ secs[p].live => Targets(p) \subseteq Kept
    /\ secs[p].live /\ secs[p].kind # "vectors" =>
         \E q \in Kept : secs[q].order < secs[p].order /\ p \in Targets(q)

Span(p, start) == start .. start + Header(p).size - 1
Bounds(kind) ==
  CASE kind \in {"vectors", "text", "rodata"} -> layout.text_start .. layout.text_end - 1
    [] kind = "data" -> layout.data_start .. layout.data_end - 1
    [] kind = "bss" -> layout.bss_start .. layout.bss_end - 1
InFlash == {p \in Kept : secs[p].kind # "bss"}
WellPlaced(p) ==
  /\ secs[p].vma % Align(p) = 0 /\ Span(p, secs[p].vma) \subseteq Bounds(secs[p].kind)
  /\ \A q \in Kept \ {p} : Span(p, secs[p].vma) \cap Span(q, secs[q].vma) = {}
  /\ secs[p].kind = "vectors" =>
       \A q \in InFlash : secs[q].kind # "vectors" => secs[p].lma < secs[q].lma
Loaded(p) ==
  \A b \in 0 .. Header(p).size - 1 :
    LET place == secs[p].offset + b
    IN  place \in DOMAIN image /\ image[place] = <<p, b>> /\ place < layout.flash - AppBase
\* Kept sections lie side by side where they belong: aligned, vectors first,
\* inside the bounds that the start-up code is told, their bytes in the image
\* unharmed by those of others; and the map lists each of them once, by address.
LayoutSound ==
  /\ Linked => \A p \in Kept : WellPlaced(p) /\ (Header(p).type = "progbits" => Loaded(p))
  /\ phase = "done" /\ input.map =>
       /\ ToSet(listed) = Kept /\ Len(listed) = Cardinality(Kept)
       /\ \A i, j \in DOMAIN listed : i < j => secs[listed[i]].vma < secs[listed[j]].vma

\* The archives are searched until no member is left that defines something
\* still missing, and no member comes in that is there already.
ArchivesSearched ==
  phase = "mark" =>
    /\ \A a \in DOMAIN input.archives : \A m \in DOMAIN input.archives[a] :
         ~object_buffer_defines_needed(input.archives[a][m])
    /\ \A b \in DOMAIN objects : b > Len(input.objects) =>
         \A a \in 1 .. b - 1 : objects[a] # objects[b]

-----------------------------------------------------------------------------
(* bare_reset copies words from __data_source on to __data_start on, until  *)
(* __data_end.                                                              *)
Copied(address) == image[layout.data_source - AppBase + (address - layout.data_start)]

\* "__data_source is the flash load address for copied .data" (doc/picolink.md):
\* after start-up each byte of initialised data is where the program expects it.
DataCopied ==
  Linked => \A p \in Kept : secs[p].kind = "data" =>
    \A b \in 0 .. Header(p).size - 1 :
      /\ layout.data_source - AppBase + (secs[p].vma + b - layout.data_start) \in DOMAIN image
      /\ Copied(secs[p].vma + b) = <<p, b>>
=============================================================================
