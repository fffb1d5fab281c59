------------------------------ MODULE Console -------------------------------
(***************************************************************************)
(* kern/console.{h,cc}: kprintf to the console's sources, byte by byte,    *)
(* with interrupts.  KernelMain prints once more after it has enabled them *)
(* (kern/main.cc), every InterruptWrapper prints what it interrupted       *)
(* (kern/irqs.cc), and an NMI comes inside such a wrapper too.             *)
(*                                                                         *)
(* A format is the sequence of its directives: a literal byte, or a        *)
(* conversion with the number of l's before it and its argument.           *)
(*                                                                         *)
(* The kernel is built with a red zone (no -mno-red-zone): OutB, a leaf,   *)
(* keeps its port and its byte below the stack pointer, where an interrupt *)
(* pushes its frame.  The byte then goes to a port that is not the         *)
(* source's.                                                               *)
(***************************************************************************)
EXTENDS Integers, Sequences, SequencesExt

CONSTANTS Calls,       \* the formats that "main", "irq" and "nmi" print, in order
          Source,      \* the ConsoleSources: COM1
          UInt,        \* 2^32: what an unsigned int holds
          BufSize,     \* sizeof buf: 32
          MaxEvents    \* bound: interrupts

Who == {"main", "irq", "nmi"}

Base(c) == IF c = "x" THEN 16 ELSE 10

\* The powers of b, as far as a number may have digits.
Powers(b) == LET pow[m \in 0 .. BufSize] == IF m = 0 THEN 1 ELSE b * pow[m - 1] IN pow

\* An argument is a string or a number; the digits of a number fit into buf, as those
\* of an unsigned long do.
IsDirective(x) ==
  /\ x.c \in {"lit", "c", "s", "d", "u", "x", "?"} /\ x.l \in 0 .. 2
  /\ IF x.c = "s" THEN x.arg \in Seq(1 .. 255)
     ELSE x.arg \in Nat /\ (x.c \in {"d", "u", "x"} => x.arg < Powers(Base(x.c))[BufSize])

IsSeq(s) == s \in Seq(ToSet(s))

\* Everyone prints something.
ASSUME ConsoleAssumption ==
  /\ {UInt, BufSize, MaxEvents} \subseteq Nat \ {0}
  /\ DOMAIN Calls = Who
  /\ \A who \in Who :
       /\ IsSeq(Calls[who]) /\ Calls[who] # << >>
       /\ \A n \in DOMAIN Calls[who] :
            /\ IsSeq(Calls[who][n])
            /\ \A k \in DOMAIN Calls[who][n] : IsDirective(Calls[who][n][k])

VARIABLES sources,     \* the chain of console sources
          stack,       \* the activations: KernelMain, then who interrupted it
          callers,     \* who printed, in order; an activation's id is its place
          buf,         \* vprintf's buffer, by activation
          out,         \* what the sources got: [id, n, src, byte]
          lost         \* <<id, n, src>>: the bytes that did not reach their source

vars == <<sources, stack, callers, buf, out, lost>>

Id == 1 .. (MaxEvents + 1)

Init ==
  /\ sources = << >>
  /\ stack = << >>
  /\ callers = << >>
  /\ buf = [id \in Id |-> [k \in 1 .. BufSize |-> 0]]
  /\ out = << >>
  /\ lost = {}

\* A new activation: kprintf number call at directive k, in state at, the locals u
\* and s, the byte it writes, which is its n-th, and the sources still to get it.
New ==
  [id |-> Len(callers) + 1, call |-> 1, k |-> 1, at |-> "fmt", u |-> 0, s |-> 0,
   byte |-> 0, n |-> 0, left |-> << >>, outb |-> "no"]

AddSource(src) ==
  /\ callers = << >> /\ src \notin ToSet(sources)
  /\ sources' = <<src>> \o sources
  /\ UNCHANGED <<stack, callers, buf, out, lost>>

\* kprintf("Waiting for interrupts\n")
Main ==
  /\ callers = << >> /\ ToSet(sources) = Source
  /\ callers' = <<"main">>
  /\ stack' = <<New>>
  /\ UNCHANGED <<sources, buf, out, lost>>

-----------------------------------------------------------------------------
(* vprintf, in the running activation.                                     *)

Top == Last(stack)
Set(f) == stack' = Append(Front(stack), f)
Calling(f) == Calls[callers[f.id]]
Fmt == Calling(Top)[Top.call]
Arg == Fmt[Top.k]

\* Between two bytes, at a place of vprintf.
At(place) == stack # << >> /\ Top.left = << >> /\ Top.at = place
NextDirective(f) == [f EXCEPT !.at = "fmt", !.k = @ + 1]

\* Console::WriteByte: to every source in turn.
Written(f, b) == [f EXCEPT !.byte = b % 256, !.n = @ + 1, !.left = sources]

hex == <<48, 49, 50, 51, 52, 53, 54, 55, 56, 57, 97, 98, 99, 100, 101, 102>>
Digit(c, d) == IF c = "x" THEN hex[d + 1] ELSE 48 + d

\* va_arg of an unsigned int, unless there are one or two l's.
Fetched(x) == IF x.l \in {1, 2} THEN x.arg ELSE x.arg % UInt

Convert ==
  /\ At("fmt") /\ Top.k <= Len(Fmt)
  /\ \/ Arg.c \in {"lit", "c"} /\ Set(Written(NextDirective(Top), Arg.arg))
     \/ Arg.c = "s" /\ Set([Top EXCEPT !.at = "string", !.s = 1])
     \/ Arg.c \in {"d", "u", "x"} /\ Set([Top EXCEPT !.at = "digits", !.s = 0, !.u = Fetched(Arg)])
     \/ Arg.c = "?" /\ Set(NextDirective(Top))
  /\ UNCHANGED <<sources, callers, buf, out, lost>>

String ==
  /\ At("string")
  /\ IF Top.s <= Len(Arg.arg)
       THEN Set(Written([Top EXCEPT !.s = @ + 1], Arg.arg[Top.s]))
       ELSE Set(NextDirective(Top))
  /\ UNCHANGED <<sources, callers, buf, out, lost>>

\* One buffer for all, as if it were static.
StaticBuf(f) == 1

\* buf is on the stack of the activation.
Buf(f) == f.id

\* *s++ = digit, while (u /= base)
Push ==
  /\ At("digits")
  /\ buf' = [buf EXCEPT ![Buf(Top)][Top.s + 1] = Digit(Arg.c, Top.u % Base(Arg.c))]
  /\ LET rest == Top.u \div Base(Arg.c)
     IN  Set([Top EXCEPT !.s = @ + 1, !.u = rest, !.at = IF rest = 0 THEN "number" ELSE "digits"])
  /\ UNCHANGED <<sources, callers, out, lost>>

\* while (--s >= buf) WriteByte(*s)
Pop ==
  /\ At("number")
  /\ IF Top.s > 0
       THEN Set(Written([Top EXCEPT !.s = @ - 1], buf[Buf(Top)][Top.s]))
       ELSE Set(NextDirective(Top))
  /\ UNCHANGED <<sources, callers, buf, out, lost>>

\* vprintf returns: the next kprintf of the activation, or its end.
Return ==
  /\ At("fmt") /\ Top.k > Len(Fmt)
  /\ IF Top.call < Len(Calling(Top)) THEN Set([Top EXCEPT !.call = @ + 1, !.k = 1])
                                     ELSE stack' = Front(stack)
  /\ UNCHANGED <<sources, callers, buf, out, lost>>

-----------------------------------------------------------------------------
(* SerialPort::WriteByte.                                                  *)

\* while (is_transmit_empty() == 0), on a machine that never says so.
OutBPolled ==
  /\ stack # << >> /\ Top.left # << >> /\ Top.outb = "no"
  /\ UNCHANGED vars

\* OutB stores its parameters.
OutB ==
  /\ stack # << >> /\ Top.left # << >> /\ Top.outb = "no"
  /\ Set([Top EXCEPT !.outb = "red_zone"])
  /\ UNCHANGED <<sources, callers, buf, out, lost>>

\* outb of what is there.
Out ==
  /\ stack # << >> /\ Top.outb # "no"
  /\ IF Top.outb = "red_zone"
       THEN /\ out' = Append(out, [id |-> Top.id, n |-> Top.n, src |-> Head(Top.left), byte |-> Top.byte])
            /\ UNCHANGED lost
       ELSE lost' = lost \cup {<<Top.id, Top.n, Head(Top.left)>>} /\ UNCHANGED out
  /\ Set([Top EXCEPT !.outb = "no", !.left = Tail(@)])
  /\ UNCHANGED <<sources, callers, buf>>

-----------------------------------------------------------------------------
(* Interrupts.                                                             *)

Active(who) == \E k \in DOMAIN stack : callers[stack[k].id] = who

\* The gates clear the flag: an irq interrupts KernelMain only.  An NMI does not wait
\* for it, but for the end of another NMI.
Enabled(who) == IF who = "irq" THEN ~Active("irq") /\ ~Active("nmi") ELSE ~Active("nmi")

\* InterruptWrapper is entered; the frame is pushed over the red zone.
InterruptWrapper(who) ==
  /\ Len(callers) \in 1 .. MaxEvents /\ Enabled(who)
  /\ callers' = Append(callers, who)
  /\ stack' = Append(IF stack = << >> \/ Top.outb = "no" THEN stack
                     ELSE Append(Front(stack), [Top EXCEPT !.outb = "gone"]), New)
  /\ UNCHANGED <<sources, buf, out, lost>>

Cpu ==
  \/ \E src \in Source : AddSource(src)
  \/ Main
  \/ Convert \/ String \/ Push \/ Pop \/ Return
  \/ OutB \/ Out

Next == Cpu \/ \E who \in {"irq", "nmi"} : InterruptWrapper(who)

\* The CPU executes instructions for ever; interrupts need not come.
Spec == Init /\ [][Next]_vars /\ WF_vars(Cpu)

-----------------------------------------------------------------------------
(* Properties.                                                             *)

\* The number of digits of the shortest numeral of u.
Digits(u, b) ==
  CHOOSE m \in 1 .. BufSize : u < Powers(b)[m] /\ (m = 1 \/ u >= Powers(b)[m - 1])

\* The shortest numeral, without the loop.
Numeral(u, b) ==
  LET n == Digits(u, b)
      Char(d) == IF d < 10 THEN 48 + d ELSE 87 + d
  IN  [j \in 1 .. n |-> Char((u \div Powers(b)[n - j]) % b)]

\* What printf promises for a directive; one it does not know prints nothing.
Text(x) ==
  CASE x.c \in {"lit", "c"} -> <<x.arg % 256>>
    [] x.c = "s"            -> x.arg
    [] x.c \in {"d", "u"}   -> Numeral(IF x.l = 0 THEN x.arg % UInt ELSE x.arg, 10)
    [] x.c = "x"            -> Numeral(IF x.l = 0 THEN x.arg % UInt ELSE x.arg, 16)
    [] OTHER                -> << >>

Message(fmt) == FlattenSeq([k \in DOMAIN fmt |-> Text(fmt[k])])
Messages(who) == FlattenSeq([n \in DOMAIN Calls[who] |-> Message(Calls[who][n])])

Done(id) == \A k \in DOMAIN stack : stack[k].id # id

\* Whoever interrupts vprintf, and wherever, and prints itself: to every source go the
\* bytes of each activation as its formats say and in order, none twice, and
\* none is missing but those whose OutB was interrupted.
Rendered ==
  \A id \in DOMAIN callers :
    LET text == Messages(callers[id])
        mine == {k \in DOMAIN out : out[k].id = id}
    IN  /\ \A k \in mine : out[k].n \in DOMAIN text /\ out[k].byte = text[out[k].n]
        /\ \A j, k \in mine : j < k /\ out[j].src = out[k].src => out[j].n < out[k].n
        /\ Done(id) => \A n \in DOMAIN text, src \in Source :
                         \/ <<id, n, src>> \in lost
                         \/ \E k \in mine : out[k].n = n /\ out[k].src = src

\* Once interrupts cease, all that was begun is printed and KernelMain is idle: no
\* loop of vprintf, and no serial port, is waited for.
Printed == callers # << >> ~> stack = << >>
=============================================================================
