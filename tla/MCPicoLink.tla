----------------------------- MODULE MCPicoLink -----------------------------
EXTENDS PicoLink
Sec(kind, size, align) ==
  [vectors |-> kind = "vectors", type |-> IF kind = "bss" THEN "nobits" ELSE "progbits",
   alloc |-> kind # "debug", exec |-> kind = "text", write |-> kind \in {"data", "bss"},
   size |-> size, align |-> align]
Sym(name, bind, section, value) == [name |-> name, bind |-> bind, section |-> section, value |-> value]
Rel(section, offset, type, symbol, addend) ==
  [section |-> section, offset |-> offset, symbol |-> symbol, type |-> type, addend |-> addend]
File(sections, symbols, rels) == [ok |-> TRUE, sections |-> sections, symbols |-> symbols, rels |-> rels]
BadFile == [ok |-> FALSE, sections |-> <<>>, symbols |-> <<>>, rels |-> <<>>]

\* start.o: vectors, reset code, a handler that is a weak alias.
Start == File(
  <<Sec("vectors", 12, 4), Sec("text", 8, 2), Sec("text", 2, 2)>>,
  <<Sym("reset", "global", 2, 1), Sym("fault", "local", 3, 1), Sym("nmi", "weak", 3, 1),
    Sym("main", "global", 0, 0), Sym("__StackTop", "global", 0, 0),
    Sym("__data_source", "global", 0, 0), Sym("hook", "weak", 0, 0)>>,
  <<Rel(1, 0, "abs32", 5, 0), Rel(1, 4, "abs32", 1, 0), Rel(1, 8, "abs32", 3, 0),
    Rel(2, 0, "call", 4, -4), Rel(2, 4, "abs32", 6, 0)>>)

\* The program: calls f, uses data of its own, may define the handler, has
\* a section that nothing uses and one that is not loaded.
Program(align, nmi, unused) == File(
  <<Sec("text", 8, 2), Sec("data", 4, align), Sec("bss", 2, 2), Sec("rodata", 2, 2),
    Sec("text", 4, 4), Sec("text", 4, 4), Sec("debug", 4, 1)>>,
  <<Sym("main", "global", 1, 1), Sym("d", "local", 2, 0), Sym("b", "global", 3, 0),
    Sym("c", "global", 4, 0), Sym("nmi", nmi, 5, 1), Sym("unused", "global", 6, 1),
    Sym("f", "global", 0, 0), Sym("hook", "weak", 0, 0)>>,
  <<Rel(1, 0, "call", 7, -4), Rel(1, 4, "abs32", 2, 0), Rel(2, 0, "abs32", 3, 2),
    Rel(5, 0, "rel32", 4, 0), Rel(6, 0, unused, 8, 0), Rel(7, 0, "abs32", 6, 0)>>)

\* Members: f needs g; g; another f, which refers to a weak number c.
MemberF == File(<<Sec("text", 4, 2), Sec("data", 2, 2)>>,
  <<Sym("f", "global", 1, 1), Sym("g", "global", 0, 0), Sym("x", "global", 2, 0)>>,
  <<Rel(1, 0, "call", 2, -4)>>)
MemberG(bind) == File(<<Sec("text", 4, 2), Sec("data", 4, 4)>>,
  <<Sym("g", bind, 1, 1), Sym("hook", "global", 1, 1), Sym("t", "local", 2, 0)>>,
  <<Rel(1, 0, "abs32", 3, 0)>>)
WeakF == File(<<Sec("text", 4, 2)>>,
  <<Sym("f", "weak", 1, 1), Sym("h", "global", -1, 5), Sym("c", "weak", -1, 3)>>,
  <<Rel(1, 0, "abs32", 3, 0)>>)

Archives ==
  {<<>>, <<<<MemberF, MemberG("global")>>>>, <<<<MemberG("weak"), BadFile, MemberF>>>>,
   <<<<MemberG("global"), WeakF>>, <<MemberF>>>>, <<<<WeakF>>, <<MemberF, MemberG("weak")>>>>}
Programs == {Program(align, nmi, unused) :
               align \in {0, 2, 4, 8}, nmi \in {"global", "weak", "local"}, unused \in {"abs32", "other"}}
Objects == {<<Start, p>> : p \in Programs} \cup {<<p, Start>> : p \in Programs}
  \cup {<<Start, p, WeakF>> : p \in Programs} \cup {<<Start, p, p>> : p \in Programs}
  \cup {<<Start, BadFile>>, <<Start, Program(4, "weak", "abs32"), MemberF, MemberG("weak"), WeakF>>}
MCInputs == {[objects |-> o, archives |-> a, gc |-> gc, reach |-> reach, map |-> reach] :
               o \in Objects, a \in Archives, gc \in BOOLEAN, reach \in BOOLEAN}
=============================================================================
