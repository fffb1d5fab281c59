------------------------- MODULE Interrupts_proofs -------------------------
(***************************************************************************)
(* ChainRun and NotReentrant for any set of device vectors, any handlers   *)
(* and any number of interrupts.                                           *)
(***************************************************************************)
EXTENDS Interrupts, SequenceTheorems, TLAPS

Pcs == {"setup", "gates", "lidt", "sti", "idle"}
Chained == Vec \ {0, 1}   \* vectors that handlers are installed for
Frame == [vec : Chained, p : Handler \cup {NULL}, ran : Seq(Handler),
          eoi : BOOLEAN, iflag : BOOLEAN]

TypeOK ==
  /\ pc \in Pcs /\ gates \in 0 .. kMaxInterrupt /\ iflag \in BOOLEAN
  /\ irr \subseteq Device /\ isr \subseteq Device
  /\ frames \in Seq(Frame)
  /\ handlers \in [Vec -> Handler \cup {NULL, Wild}]
  /\ next \in [Handler -> Handler \cup {NULL}]
  /\ new \in {NoNew} \cup [vec : Chained, h : Handler]
  /\ installed \in [Vec -> Seq(Handler)]
  /\ events \in Nat

\* How far KernelMain is decides about the gates, and who can interrupt it.
Booted ==
  /\ pc \in {"setup", "gates"} => gates < kMaxInterrupt
  /\ pc \in {"lidt", "sti", "idle"} => gates = kMaxInterrupt
  /\ iflag => pc = "idle"
  /\ frames # << >> => pc \in {"sti", "idle"}

\* The n-th handler installed for v, where a walk that has n to go is.
Behind(v, n) == IF n = 0 THEN NULL ELSE installed[v][n]

\* The pointers of a chain lead from the last handler installed to the first.
Linked ==
  \A v \in Chained :
    /\ handlers[v] = Behind(v, Len(installed[v]))
    /\ \A n \in 1 .. Len(installed[v]) : next[installed[v][n]] = Behind(v, n - 1)

\* The handler being installed is on no chain and points to the head of its own.
Pending ==
  new # NoNew =>
    /\ \A v \in Vec : \A n \in 1 .. Len(installed[v]) : installed[v][n] # new.h
    /\ next[new.h] = handlers[new.vec]

\* A frame has run the last handlers of its chain and points to the one below.
Walk(f) ==
  /\ Len(f.ran) <= Len(installed[f.vec])
  /\ f.p = Behind(f.vec, Len(installed[f.vec]) - Len(f.ran))
  /\ \A j \in 1 .. Len(f.ran) : f.ran[j] = installed[f.vec][Len(installed[f.vec]) - j + 1]

Walking == \A k \in 1 .. Len(frames) : Walk(frames[k])

\* Only an NMI interrupts another frame, and not another NMI.
Nested ==
  /\ iflag => frames = << >>
  /\ \A k \in 1 .. Len(frames) : frames[k].iflag => k = 1 /\ pc = "idle"
  /\ \A k \in 1 .. Len(frames) : k > 1 => frames[k].vec = NMI
  /\ \A j, k \in 1 .. Len(frames) : frames[j].vec = NMI /\ frames[k].vec = NMI => j = k

IInv == TypeOK /\ Booted /\ Linked /\ Pending /\ Walking /\ Nested

-----------------------------------------------------------------------------

\* The vectors of devices, of NMIs and of spurious interrupts have chains.
LEMMA VecFacts ==
  /\ Device \subseteq Chained /\ NMI \in Chained /\ SPURIOUS \in Chained
  /\ NMI \notin Device /\ NMI # SPURIOUS
  /\ \A v \in Vec : v \in Int /\ v < kMaxInterrupt
  /\ NULL \notin Handler /\ Wild \notin Handler
BY InterruptsAssumption DEF Chained, Vec, NMI, SPURIOUS, kMaxInterrupt

\* A pushed frame.
LEMMA Push ==
  ASSUME NEW S, NEW s \in Seq(S), NEW f \in S
  PROVE  /\ Append(s, f) \in Seq(S)
         /\ Len(Append(s, f)) = Len(s) + 1
         /\ \A k \in 1 .. (Len(s) + 1) : Append(s, f)[k] = IF k <= Len(s) THEN s[k] ELSE f
BY AppendProperties

\* A popped frame.
LEMMA Pop ==
  ASSUME NEW S, NEW s \in Seq(S), s # << >>
  PROVE  /\ Front(s) \in Seq(S)
         /\ Len(Front(s)) = Len(s) - 1
         /\ Len(s) \in Nat \ {0}
         /\ \A k \in 1 .. (Len(s) - 1) : Front(s)[k] = s[k]
         /\ Last(s) = s[Len(s)] /\ Last(s) \in S
<1>1. Len(s) \in Nat \ {0} /\ \A k \in 1 .. Len(s) : s[k] \in S
  BY EmptySeq, ElementOfSeq
<1> DEFINE n == Len(s) - 1
<1>2. n \in Nat /\ \A k \in 1 .. n : s[k] \in S
  BY <1>1
<1> HIDE DEF n
<1>3. /\ SubSeq(s, 1, n) \in Seq(S)
      /\ Len(SubSeq(s, 1, n)) = IF 1 <= n THEN n - 1 + 1 ELSE 0
      /\ \A k \in 1 .. (n - 1 + 1) : SubSeq(s, 1, n)[k] = s[1 + k - 1]
  BY <1>2, SubSeqProperties
<1>4. /\ Len(SubSeq(s, 1, n)) = n
      /\ \A k \in 1 .. n : SubSeq(s, 1, n)[k] = s[k]
  BY <1>2, <1>3
<1> QED BY <1>1, <1>3, <1>4 DEF Front, Last, n

\* The running frame replaced, as Return does.
LEMMA Replace ==
  ASSUME NEW S, NEW s \in Seq(S), s # << >>, NEW f \in S
  PROVE  /\ Append(Front(s), f) \in Seq(S)
         /\ Len(Append(Front(s), f)) = Len(s)
         /\ Append(Front(s), f) # << >>
         /\ \A k \in 1 .. Len(s) :
              Append(Front(s), f)[k] = IF k < Len(s) THEN s[k] ELSE f
<1> DEFINE t == Front(s)
<1>1. t \in Seq(S) /\ Len(t) = Len(s) - 1 /\ Len(s) \in Nat \ {0}
      /\ \A k \in 1 .. (Len(s) - 1) : t[k] = s[k]
  BY Pop
<1> HIDE DEF t
<1>2. /\ Append(t, f) \in Seq(S)
      /\ Len(Append(t, f)) = Len(t) + 1
      /\ Append(t, f) # << >>
      /\ \A k \in 1 .. (Len(t) + 1) : Append(t, f)[k] = IF k <= Len(t) THEN t[k] ELSE f
  BY <1>1, AppendProperties
<1>3. \A k \in 1 .. Len(s) : Append(t, f)[k] = IF k < Len(s) THEN s[k] ELSE f
  BY <1>1, <1>2
<1> QED BY <1>1, <1>2, <1>3 DEF t

-----------------------------------------------------------------------------
(* The inductive invariant holds at first and is kept by every step.       *)

\* No gate, no chain and no frame at first.
LEMMA InitIInv == Init => IInv
<1> SUFFICES ASSUME Init PROVE IInv
  OBVIOUS
<1> USE DEF Init
<1>1. frames \in Seq(Frame) /\ Len(frames) = 0
  OBVIOUS
<1>2. \A v \in Vec : installed[v] \in Seq(Handler) /\ Len(installed[v]) = 0
  OBVIOUS
<1>0. iflag \in BOOLEAN
  BY Zenon
<1>3. TypeOK
  BY <1>0, <1>1, <1>2 DEF TypeOK, Pcs, kMaxInterrupt
<1>4. Booted
  BY DEF Booted, kMaxInterrupt
<1>6. Nested /\ Walking
  BY <1>1 DEF Nested, Walking
<1>7. Pending
  BY DEF Pending
<1>5. Linked
  BY <1>2 DEF Linked, Behind, Chained
<1> QED BY <1>3, <1>4, <1>5, <1>6, <1>7 DEF IInv

\* KernelMain runs with no frame on the stack: what frames are about is kept.
LEMMA MainKeeps ==
  ASSUME IInv, frames = << >>, frames' = frames
  PROVE  Walking' /\ (iflag' \in BOOLEAN => Nested')
<1>1. Len(frames') = 0
  OBVIOUS
<1> QED BY <1>1 DEF Walking, Nested

\* Setup changes the chains of the vectors 0 and 1 only.
LEMMA SetupIInv == IInv /\ Setup => IInv'
<1> SUFFICES ASSUME IInv, Setup PROVE IInv'
  OBVIOUS
<1> USE DEF Setup, Main, apic
<1>1. TypeOK'
  <2>1. {0, 1} \subseteq Vec
    BY DEF Vec
  <2> QED BY <2>1 DEF IInv, TypeOK, Pcs
<1>2. Booted'
  BY DEF IInv, TypeOK, Booted
<1>3. \A v \in Chained : handlers'[v] = handlers[v]
  BY DEF IInv, TypeOK, Chained
<1>4. Linked'
  BY <1>3 DEF IInv, Linked, Behind
<1>5. Pending'
  BY <1>3, VecFacts DEF IInv, TypeOK, Pending
<1> QED BY <1>1, <1>2, <1>4, <1>5, MainKeeps DEF IInv, TypeOK

\* A gate more.
LEMMA InstallIrqFunctionIInv == IInv /\ InstallIrqFunction => IInv'
<1> SUFFICES ASSUME IInv, InstallIrqFunction PROVE IInv'
  OBVIOUS
<1> USE DEF InstallIrqFunction, HandlerInstaller, Main, apic, chains
<1>1. TypeOK' /\ Booted'
  BY DEF IInv, TypeOK, Booted, Pcs, kMaxInterrupt
<1>2. Linked' /\ Pending'
  BY DEF IInv, Linked, Pending, Behind
<1> QED BY <1>1, <1>2, MainKeeps DEF IInv, TypeOK

\* The gates are all there when the CPU is told of them.
LEMMA LoadIdtIInv == IInv /\ LoadIdt => IInv'
<1> SUFFICES ASSUME IInv, LoadIdt PROVE IInv'
  OBVIOUS
<1> USE DEF LoadIdt, Main, apic, chains
<1>1. TypeOK' /\ Booted'
  BY DEF IInv, TypeOK, Booted, Pcs
<1>2. Linked' /\ Pending'
  BY DEF IInv, Linked, Pending, Behind
<1> QED BY <1>1, <1>2, MainKeeps DEF IInv, TypeOK

\* The flag is set when all gates are there.
LEMMA EnableInterruptsIInv == IInv /\ EnableInterrupts => IInv'
<1> SUFFICES ASSUME IInv, EnableInterrupts PROVE IInv'
  OBVIOUS
<1> USE DEF EnableInterrupts, Main, apic, chains
<1>1. TypeOK' /\ Booted'
  BY DEF IInv, TypeOK, Booted, Pcs
<1>2. Linked' /\ Pending'
  BY DEF IInv, Linked, Pending, Behind
<1> QED BY <1>1, <1>2, MainKeeps DEF IInv, TypeOK

\* The first store of InstallChainHandler is to a handler on no chain.
LEMMA LinkNextIInv ==
  ASSUME NEW v \in Chained, NEW h \in Handler, IInv, LinkNext(v, h)
  PROVE  IInv'
<1> USE DEF LinkNext, Main, apic
<1>1. v \in Vec /\ handlers[v] \in Handler \cup {NULL}
  <2>1. v \in Vec /\ handlers[v] = Behind(v, Len(installed[v]))
    BY DEF IInv, Linked, Chained
  <2>2. installed[v] \in Seq(Handler)
    BY <2>1 DEF IInv, TypeOK
  <2>3. Len(installed[v]) # 0 => installed[v][Len(installed[v])] \in Handler
    BY <2>2, ElementOfSeq, LenProperties
  <2> QED BY <2>1, <2>3 DEF Behind
<1>2. TypeOK'
  BY <1>1 DEF IInv, TypeOK
<1>3. Booted'
  BY DEF IInv, Booted
<1>4. \A u \in Vec : \A n \in 1 .. Len(installed[u]) : installed[u][n] # h
  BY DEF Fresh, ToSet, IInv, TypeOK
<1>5. Linked'
  <2> SUFFICES ASSUME NEW u \in Chained
               PROVE  /\ handlers[u] = Behind(u, Len(installed[u]))
                      /\ \A n \in 1 .. Len(installed[u]) : next'[installed[u][n]] = Behind(u, n - 1)
    BY DEF Linked, Behind
  <2>1. installed[u] \in Seq(Handler) /\ u \in Vec
    BY DEF IInv, TypeOK, Chained
  <2>2. \A n \in 1 .. Len(installed[u]) : installed[u][n] \in Handler /\ installed[u][n] # h
    BY <1>4, <2>1, ElementOfSeq
  <2> QED BY <2>2 DEF IInv, TypeOK, Linked
<1>6. Pending'
  BY <1>4 DEF IInv, TypeOK, Pending
<1> QED BY <1>2, <1>3, <1>5, <1>6, MainKeeps DEF IInv, TypeOK

\* The second store makes the new handler the head of its chain.
LEMMA LinkHeadIInv == IInv /\ LinkHead => IInv'
<1> SUFFICES ASSUME IInv, LinkHead PROVE IInv'
  OBVIOUS
<1> DEFINE w == new.vec
           s == installed[w]
<1>1. w \in Chained /\ w \in Vec /\ new.h \in Handler /\ s \in Seq(Handler)
  BY DEF LinkHead, IInv, TypeOK, Chained
<1>2. /\ Append(s, new.h) \in Seq(Handler)
      /\ Len(Append(s, new.h)) = Len(s) + 1
      /\ \A n \in 1 .. (Len(s) + 1) : Append(s, new.h)[n] = IF n <= Len(s) THEN s[n] ELSE new.h
  BY <1>1, Push
<1>3. /\ installed' = [installed EXCEPT ![w] = Append(s, new.h)]
      /\ handlers' = [handlers EXCEPT ![w] = new.h]
      /\ next' = next /\ new' = NoNew /\ frames = << >>
      /\ UNCHANGED <<pc, gates, iflag, irr, isr, frames, events>>
  BY DEF LinkHead, Main, apic
<1>4. TypeOK'
  BY <1>1, <1>2, <1>3 DEF IInv, TypeOK
<1>5. Booted' /\ Pending'
  BY <1>3 DEF IInv, Booted, Pending
<1>6. Linked'
  <2> SUFFICES ASSUME NEW u \in Chained
               PROVE  /\ handlers'[u] = Behind(u, Len(installed[u]))'
                      /\ \A n \in 1 .. Len(installed'[u]) : next'[installed'[u][n]] = Behind(u, n - 1)'
    BY DEF Linked
  <2>0. u \in Vec
    BY DEF Chained
  <2>1. CASE u # w
    <3>1. installed'[u] = installed[u] /\ handlers'[u] = handlers[u]
      BY <1>3, <2>0, <2>1 DEF IInv, TypeOK
    <3>2. Behind(u, Len(installed[u]))' = Behind(u, Len(installed[u]))
          /\ \A n \in Int : Behind(u, n)' = Behind(u, n)
      BY <3>1 DEF Behind
    <3>3. u \in Chained /\ Len(installed[u]) \in Nat
      BY <2>0 DEF IInv, TypeOK
    <3>4. /\ handlers[u] = Behind(u, Len(installed[u]))
          /\ \A n \in 1 .. Len(installed[u]) : next[installed[u][n]] = Behind(u, n - 1)
      BY DEF IInv, Linked
    <3>5. \A n \in 1 .. Len(installed'[u]) : next'[installed'[u][n]] = Behind(u, n - 1)'
      <4> TAKE n \in 1 .. Len(installed'[u])
      <4>1. n \in 1 .. Len(installed[u]) /\ n - 1 \in Int
        BY <3>1, <3>3
      <4>2. Behind(u, n - 1)' = Behind(u, n - 1)
        BY <4>1, <3>1 DEF Behind
      <4> QED BY <1>3, <3>1, <3>4, <4>1, <4>2
    <3> QED BY <3>1, <3>2, <3>4, <3>5
  <2>2. CASE u = w
    <3>1. installed'[u] = Append(s, new.h) /\ handlers'[u] = new.h
      BY <1>3, <2>0, <2>2 DEF IInv, TypeOK
    <3>2. Len(s) \in Nat
      BY <1>1
    <3>3. handlers'[u] = Behind(u, Len(installed[u]))'
      BY <1>2, <3>1, <3>2 DEF Behind
    <3>4. \A n \in 1 .. Len(s) : next[s[n]] = IF n - 1 = 0 THEN NULL ELSE s[n - 1]
      BY <1>1 DEF IInv, Linked, Behind
    <3>5. next[new.h] = IF Len(s) = 0 THEN NULL ELSE s[Len(s)]
      BY <1>1 DEF LinkHead, IInv, Linked, Pending, Behind
    <3>6. ASSUME NEW n \in 1 .. (Len(s) + 1)
          PROVE  next[Append(s, new.h)[n]] = IF n - 1 = 0 THEN NULL ELSE Append(s, new.h)[n - 1]
      <4>1. CASE n <= Len(s)
        BY <1>2, <3>2, <3>4, <4>1
      <4>2. CASE n = Len(s) + 1
        BY <1>2, <3>2, <3>5, <4>2
      <4> QED BY <3>2, <4>1, <4>2
    <3>7. \A n \in 1 .. (Len(s) + 1) : next'[installed'[u][n]] = Behind(u, n - 1)'
      BY <1>3, <3>1, <3>6 DEF Behind
    <3> QED BY <1>2, <3>1, <3>3, <3>7
  <2> QED BY <2>1, <2>2
<1> QED BY <1>3, <1>4, <1>5, <1>6, MainKeeps DEF IInv, TypeOK

-----------------------------------------------------------------------------

\* What the CPU does to the chains while frames come and go: nothing.
LEMMA ChainsKept ==
  ASSUME IInv, UNCHANGED chains
  PROVE  /\ Linked' /\ Pending'
         /\ \A f \in Frame : Walk(f)' <=> Walk(f)
BY DEF IInv, chains, Linked, Pending, Walk, Behind

\* An interrupt that is delivered, or an NMI, gets a frame of its own, with its
\* whole chain before it.
LEMMA EnterIInv ==
  ASSUME IInv, NEW v \in Chained, Enter(v), UNCHANGED <<pc, gates, chains>>,
         irr' \subseteq Device, isr' \subseteq Device, events' \in Nat,
         \/ iflag
         \/ /\ v = NMI /\ pc \in {"sti", "idle"}
            /\ \A k \in DOMAIN frames : frames[k].vec # NMI
  PROVE  IInv'
<1> DEFINE f == [vec |-> v, p |-> handlers[v], ran |-> << >>, eoi |-> FALSE, iflag |-> iflag]
<1>1. /\ frames \in Seq(Frame) /\ Len(frames) \in Nat
      /\ DOMAIN frames = 1 .. Len(frames)
      /\ v \in Vec /\ installed[v] \in Seq(Handler)
      /\ iflag \in BOOLEAN
  BY DEF IInv, TypeOK, Chained
<1>2. handlers[v] = Behind(v, Len(installed[v])) /\ handlers[v] \in Handler \cup {NULL}
  <2>1. handlers[v] = Behind(v, Len(installed[v]))
    BY DEF IInv, Linked
  <2>2. Len(installed[v]) # 0 => installed[v][Len(installed[v])] \in Handler
    BY <1>1, ElementOfSeq, LenProperties
  <2> QED BY <2>1, <2>2 DEF Behind
<1>3. f \in Frame
  BY <1>1, <1>2 DEF Frame
<1>4. /\ frames' = Append(frames, f)
      /\ iflag' = FALSE
  <2>1. type % 16 = 14
    BY DEF type
  <2> QED BY <2>1 DEF Enter
<1>5. /\ frames' \in Seq(Frame)
      /\ Len(frames') = Len(frames) + 1
      /\ \A k \in 1 .. (Len(frames) + 1) : frames'[k] = IF k <= Len(frames) THEN frames[k] ELSE f
  BY <1>1, <1>3, <1>4, Push
<1>6. TypeOK'
  <2>1. iflag' \in BOOLEAN
    BY <1>4, Zenon
  <2> QED BY <1>5, <2>1 DEF IInv, TypeOK, chains
<1>7. Booted'
  BY <1>4 DEF IInv, Booted
<1>8. Linked' /\ Pending'
  BY ChainsKept
<1>9. Walking'
  <2> SUFFICES ASSUME NEW k \in 1 .. Len(frames') PROVE Walk(frames[k])'
    BY DEF Walking
  <2>1. CASE k <= Len(frames)
    <3>1. k \in 1 .. Len(frames) /\ frames'[k] = frames[k] /\ frames[k] \in Frame
      BY <1>1, <1>5, <2>1, ElementOfSeq
    <3>2. Walk(frames[k])
      BY <3>1 DEF IInv, Walking
    <3> QED BY <3>1, <3>2 DEF Walk, Behind, chains
  <2>2. CASE k > Len(frames)
    <3>1. frames'[k] = f
      BY <1>1, <1>5, <2>2
    <3>2. Len(<< >>) = 0 /\ Len(installed[v]) \in Nat
      BY <1>1
    <3>3. installed' = installed
      BY DEF chains
    <3> QED BY <1>2, <3>1, <3>2, <3>3 DEF Walk, Behind
  <2> QED BY <1>1, <2>1, <2>2
<1>10. Nested'
  <2>1. \A k \in 1 .. Len(frames) : frames'[k] = frames[k]
    BY <1>1, <1>5
  <2>2. frames'[Len(frames) + 1] = f
    <3>1. Len(frames) + 1 \in 1 .. (Len(frames) + 1) /\ ~(Len(frames) + 1 <= Len(frames))
      BY <1>1
    <3> QED BY <1>5, <3>1
  <2>3. CASE iflag
    <3>1. Len(frames) = 0 /\ pc = "idle"
      BY <2>3 DEF IInv, Nested, Booted
    <3> QED BY <1>4, <1>5, <2>2, <3>1 DEF Nested
  <2>4. CASE ~iflag
    <3>1. v = NMI /\ \A k \in 1 .. Len(frames) : frames[k].vec # NMI
      BY <1>1, <2>4
    <3>2. f.vec = NMI /\ f.iflag = FALSE
      BY <1>1, <2>4, <3>1
    <3>3. \A k \in 1 .. Len(frames') : k \in 1 .. Len(frames) \/ k = Len(frames) + 1
      BY <1>1, <1>5
    <3>4. \A k \in 1 .. Len(frames) : frames[k].iflag => k = 1 /\ pc' = "idle"
      BY DEF IInv, Nested
    <3>5. \A k \in 1 .. Len(frames') : frames'[k].iflag => k = 1 /\ pc' = "idle"
      BY <2>1, <2>2, <3>2, <3>3, <3>4
    <3>6. \A k \in 1 .. Len(frames') : k > 1 => frames'[k].vec = NMI
      BY <2>1, <2>2, <3>2, <3>3 DEF IInv, Nested
    <3>7. \A j, k \in 1 .. Len(frames') :
            frames'[j].vec = NMI /\ frames'[k].vec = NMI => j = k
      BY <2>1, <2>2, <3>1, <3>3
    <3> QED BY <1>4, <3>5, <3>6, <3>7 DEF Nested
  <2> QED BY <2>3, <2>4
<1> QED BY <1>6, <1>7, <1>8, <1>9, <1>10 DEF IInv

\* The running frame goes on: f has its vector and its saved flag.
LEMMA ReturnIInv ==
  ASSUME IInv, frames # << >>, NEW f \in Frame, Return(f),
         f.vec = Top.vec, f.iflag = Top.iflag, Walk(f),
         UNCHANGED <<pc, gates, iflag, irr, chains, events>>, isr' \subseteq Device
  PROVE  IInv'
<1>1. frames \in Seq(Frame) /\ Top = frames[Len(frames)] /\ Len(frames) \in Nat \ {0}
  BY Pop DEF IInv, TypeOK, Top
<1>2. /\ frames' \in Seq(Frame)
      /\ Len(frames') = Len(frames)
      /\ frames' # << >>
      /\ \A k \in 1 .. Len(frames) : frames'[k] = IF k < Len(frames) THEN frames[k] ELSE f
  BY <1>1, Replace DEF Return
<1>3. TypeOK' /\ Booted'
  BY <1>2 DEF IInv, TypeOK, Booted, chains
<1>4. Linked' /\ Pending'
  BY ChainsKept
<1>5. Walking'
  <2> SUFFICES ASSUME NEW k \in 1 .. Len(frames) PROVE Walk(frames[k])'
    BY <1>2 DEF Walking
  <2>1. Walk(frames'[k])
    BY <1>1, <1>2 DEF IInv, Walking
  <2> QED BY <2>1 DEF Walk, Behind, chains
<1>6. \A k \in 1 .. Len(frames) : frames'[k].vec = frames[k].vec /\ frames'[k].iflag = frames[k].iflag
  BY <1>1, <1>2
<1>7. Nested'
  <2>1. ~iflag
    BY DEF IInv, Nested
  <2> QED BY <1>2, <1>6, <2>1 DEF IInv, Nested
<1> QED BY <1>3, <1>4, <1>5, <1>7 DEF IInv

\* InvokeChainHandlers runs the handler it points to and follows its pointer.
LEMMA RunIInv == IInv /\ Run => IInv'
<1> SUFFICES ASSUME IInv, Run PROVE IInv'
  OBVIOUS
<1> DEFINE f == [Top EXCEPT !.ran = Append(@, Top.p), !.p = next[Top.p]]
           s == installed[Top.vec]
           n == Len(Top.ran)
<1>1. /\ frames # << >> /\ Top.p # NULL /\ Return(f)
      /\ UNCHANGED <<pc, gates, iflag, irr, isr, chains, events>>
  BY DEF Run, apic
<1>2. /\ frames \in Seq(Frame) /\ Len(frames) \in 1 .. Len(frames)
      /\ Top = frames[Len(frames)] /\ Top \in Frame
  BY <1>1, Pop DEF IInv, TypeOK, Top
<1>3. /\ Top.vec \in Chained /\ Top.vec \in Vec /\ s \in Seq(Handler)
      /\ Top.ran \in Seq(Handler)
      /\ Len(s) \in Nat /\ n \in Nat
  BY <1>2 DEF IInv, TypeOK, Frame, Chained
<1>4. /\ n <= Len(s) /\ Top.p = Behind(Top.vec, Len(s) - n)
      /\ \A j \in 1 .. n : Top.ran[j] = s[Len(s) - j + 1]
  BY <1>2 DEF IInv, Walking, Walk
<1> HIDE DEF s, n
<1>5. n < Len(s) /\ Top.p = s[Len(s) - n] /\ Top.p \in Handler
  <2>1. Len(s) - n # 0
    BY <1>1, <1>4 DEF Behind
  <2>2. Top.p = s[Len(s) - n]
    BY <1>4, <2>1 DEF Behind, s
  <2>3. n < Len(s) /\ Len(s) - n \in 1 .. Len(s)
    BY <1>3, <1>4, <2>1
  <2> QED BY <1>3, <2>2, <2>3, ElementOfSeq
<1>6. next[Top.p] = Behind(Top.vec, Len(s) - n - 1) /\ next[Top.p] \in Handler \cup {NULL}
  <2>1. Len(s) - n \in 1 .. Len(s)
    BY <1>3, <1>5
  <2>2. \A k \in 1 .. Len(s) : next[s[k]] = Behind(Top.vec, k - 1)
    BY <1>3 DEF IInv, Linked, s
  <2>3. next \in [Handler -> Handler \cup {NULL}]
    BY DEF IInv, TypeOK
  <2> QED BY <1>5, <2>1, <2>2, <2>3
<1>7. /\ Append(Top.ran, Top.p) \in Seq(Handler)
      /\ Len(Append(Top.ran, Top.p)) = n + 1
      /\ \A j \in 1 .. (n + 1) : Append(Top.ran, Top.p)[j] = IF j <= n THEN Top.ran[j] ELSE Top.p
  BY <1>3, <1>5, Push DEF n
<1>8. /\ f \in Frame /\ f.vec = Top.vec /\ f.iflag = Top.iflag
      /\ f.ran = Append(Top.ran, Top.p) /\ f.p = next[Top.p]
  BY <1>2, <1>6, <1>7 DEF Frame
<1> HIDE DEF f
<1>9. Walk(f)
  <2>1. \A j \in 1 .. (n + 1) : f.ran[j] = s[Len(s) - j + 1]
    <3> TAKE j \in 1 .. (n + 1)
    <3>1. f.ran[j] = IF j <= n THEN Top.ran[j] ELSE Top.p
      BY <1>7, <1>8
    <3>2. CASE j <= n
      <4>1. j \in 1 .. n
        BY <1>3, <3>2
      <4> QED BY <1>4, <3>1, <3>2, <4>1
    <3>3. CASE j = n + 1
      <4>1. Len(s) - j + 1 = Len(s) - n /\ ~(j <= n)
        BY <1>3, <3>3
      <4> QED BY <1>5, <3>1, <4>1
    <3> QED BY <1>3, <3>2, <3>3
  <2>2. Len(s) - n - 1 = Len(s) - (n + 1) /\ n + 1 <= Len(s)
    BY <1>3, <1>5
  <2> QED BY <1>6, <1>7, <1>8, <2>1, <2>2 DEF Walk, s, n
<1>10. isr \subseteq Device
  BY DEF IInv, TypeOK
<1> QED BY <1>1, <1>8, <1>9, <1>10, ReturnIInv

\* EOI changes what is in service, not the frames' walks.
LEMMA EOIIInv == IInv /\ EOI => IInv'
<1> SUFFICES ASSUME IInv, EOI PROVE IInv'
  OBVIOUS
<1> DEFINE f == [Top EXCEPT !.eoi = TRUE]
<1>1. /\ frames # << >> /\ Return(f) /\ isr' \subseteq isr
      /\ UNCHANGED <<pc, gates, iflag, irr, chains, events>>
  BY DEF EOI
<1>2. /\ Len(frames) \in 1 .. Len(frames)
      /\ Top = frames[Len(frames)] /\ Top \in Frame
  BY <1>1, Pop DEF IInv, TypeOK, Top
<1>3. /\ f \in Frame /\ f.vec = Top.vec /\ f.iflag = Top.iflag
      /\ f.ran = Top.ran /\ f.p = Top.p
  BY <1>2 DEF Frame
<1>4. Walk(f)
  <2>1. Walk(Top)
    BY <1>2 DEF IInv, Walking
  <2> QED BY <1>3, <2>1 DEF Walk
<1>5. isr' \subseteq Device
  BY <1>1 DEF IInv, TypeOK
<1> HIDE DEF f
<1> QED BY <1>1, <1>3, <1>4, <1>5, ReturnIInv

\* The flag that iretq restores is set only in the lowest frame.
LEMMA IretqIInv == IInv /\ Iretq => IInv'
<1> SUFFICES ASSUME IInv, Iretq PROVE IInv'
  OBVIOUS
<1>1. /\ frames # << >> /\ frames' = Front(frames) /\ iflag' = Top.iflag
      /\ UNCHANGED <<pc, gates, irr, isr, chains, events>>
  BY DEF Iretq, apic
<1>2. /\ frames \in Seq(Frame) /\ frames' \in Seq(Frame)
      /\ Len(frames') = Len(frames) - 1 /\ Len(frames) \in Nat \ {0}
      /\ \A k \in 1 .. (Len(frames) - 1) : frames'[k] = frames[k]
      /\ Top = frames[Len(frames)] /\ Top \in Frame
  BY <1>1, Pop DEF IInv, TypeOK, Top
<1>3. TypeOK'
  BY <1>1, <1>2 DEF IInv, TypeOK, chains, Frame
<1>4. Linked' /\ Pending'
  BY <1>1, ChainsKept
<1>5. Walking'
  <2> SUFFICES ASSUME NEW k \in 1 .. Len(frames') PROVE Walk(frames[k])'
    BY DEF Walking
  <2>1. Walk(frames'[k])
    BY <1>2 DEF IInv, Walking
  <2> QED BY <1>1, <2>1 DEF Walk, Behind, chains
<1>6. Top.iflag => Len(frames) = 1 /\ pc = "idle"
  BY <1>2 DEF IInv, Nested
<1>7. iflag' => frames' = << >> /\ pc' = "idle"
  <2>1. Len(frames') = 0 => frames' = << >>
    BY <1>2, EmptySeq
  <2>2. Top.iflag => Len(frames') = 0
    BY <1>2, <1>6
  <2> QED BY <1>1, <1>6, <2>1, <2>2
<1>8. Booted'
  BY <1>1, <1>7 DEF IInv, Booted
<1>9. Nested'
  BY <1>1, <1>2, <1>7 DEF IInv, Nested
<1> QED BY <1>3, <1>4, <1>5, <1>8, <1>9 DEF IInv

\* A request changes nothing until it is delivered.
LEMMA RaiseIInv == ASSUME NEW v \in Device, IInv, Raise(v) PROVE IInv'
<1>1. /\ UNCHANGED <<pc, gates, iflag, isr, frames, chains>>
      /\ irr' \subseteq Device /\ events' \in Nat
  BY DEF Raise, Event, IInv, TypeOK
<1>2. TypeOK' /\ Booted' /\ Nested'
  BY <1>1 DEF IInv, TypeOK, Booted, Nested, chains
<1>3. Linked' /\ Pending'
  BY <1>1, ChainsKept
<1>4. Walking'
  BY <1>1 DEF IInv, Walking, Walk, Behind, chains
<1> QED BY <1>2, <1>3, <1>4 DEF IInv

\* The inductive invariant is kept by every step of the CPU and of the devices.
LEMMA NextIInv == IInv /\ [Next]_vars => IInv'
<1> SUFFICES ASSUME IInv, [Next]_vars PROVE IInv'
  OBVIOUS
<1>1. CASE InstallChainHandler
  <2>1. ASSUME NEW v \in Vec \ {0, 1}, NEW h \in Handler, LinkNext(v, h) PROVE IInv'
    BY <2>1, LinkNextIInv DEF Chained
  <2> QED BY <1>1, <2>1, LinkHeadIInv DEF InstallChainHandler
<1>2. ASSUME NEW v \in Device, Deliver(v) PROVE IInv'
  <2>1. /\ iflag /\ Enter(v) /\ UNCHANGED <<pc, gates, chains>>
        /\ irr' \subseteq Device /\ isr' \subseteq Device /\ events' \in Nat
    BY <1>2 DEF Deliver, IInv, TypeOK
  <2>2. v \in Chained
    BY VecFacts
  <2> QED BY <2>1, <2>2, EnterIInv
<1>3. CASE Spurious
  <2>1. /\ iflag /\ Enter(SPURIOUS) /\ UNCHANGED <<pc, gates, chains>>
        /\ irr' \subseteq Device /\ isr' \subseteq Device /\ events' \in Nat
    BY <1>3 DEF Spurious, Event, IInv, TypeOK, apic
  <2> QED BY <2>1, VecFacts, EnterIInv
<1>4. CASE Nmi
  <2>1. /\ pc \in {"sti", "idle"} /\ Enter(NMI) /\ UNCHANGED <<pc, gates, chains>>
        /\ \A k \in DOMAIN frames : frames[k].vec # NMI
        /\ irr' \subseteq Device /\ isr' \subseteq Device /\ events' \in Nat
    BY <1>4 DEF Nmi, Event, IInv, TypeOK, apic
  <2> QED BY <2>1, VecFacts, EnterIInv
<1>5. CASE UNCHANGED vars
  <2>1. UNCHANGED <<pc, gates, iflag, irr, isr, frames, chains, events>>
    BY <1>5 DEF vars, apic
  <2>2. TypeOK' /\ Booted' /\ Nested'
    BY <2>1 DEF IInv, TypeOK, Booted, Nested, chains
  <2>3. Linked' /\ Pending' /\ Walking'
    BY <2>1, ChainsKept DEF IInv, Walking, Walk, Behind, chains
  <2> QED BY <2>2, <2>3 DEF IInv
<1> QED
  BY <1>1, <1>2, <1>3, <1>4, <1>5, SetupIInv, InstallIrqFunctionIInv, LoadIdtIInv,
     EnableInterruptsIInv,
     RunIInv, EOIIInv, IretqIInv, RaiseIInv
  DEF Next, Cpu, InterruptWrapper

\* Every reachable state of irqs.cc satisfies the inductive invariant.
THEOREM Inductive == Spec => []IInv
BY InitIInv, NextIInv, PTL DEF Spec

\* Interrupts go through installed gates only, and the wrapper's walk of a chain
\* runs every handler installed for the vector once, the newest first, wherever
\* in InstallChainHandler or in another wrapper the interrupt came.
THEOREM ChainsRun == Spec => []ChainRun
<1>1. IInv => ChainRun
  <2> SUFFICES ASSUME IInv, NEW k \in DOMAIN frames
               PROVE  /\ frames[k].vec < gates
                      /\ frames[k].p = NULL => frames[k].ran = Reverse(installed[frames[k].vec])
    BY DEF ChainRun
  <2> DEFINE f == frames[k]
             s == installed[f.vec]
  <2>1. k \in 1 .. Len(frames) /\ f \in Frame /\ frames # << >>
    BY ElementOfSeq DEF IInv, TypeOK
  <2>2. f.vec \in Vec /\ f.vec < kMaxInterrupt
    BY <2>1, VecFacts DEF Frame, Chained
  <2>3. gates = kMaxInterrupt
    BY <2>1 DEF IInv, Booted
  <2>4. ASSUME f.p = NULL PROVE f.ran = Reverse(s)
    <3>1. /\ s \in Seq(Handler) /\ f.ran \in Seq(Handler)
          /\ Len(s) \in Nat /\ Len(f.ran) \in Nat
      BY <2>1, <2>2 DEF IInv, TypeOK, Frame
    <3>2. Walk(f)
      BY <2>1 DEF IInv, Walking
    <3>3. Len(f.ran) = Len(s)
      <4>1. Len(s) - Len(f.ran) \in 1 .. Len(s) => s[Len(s) - Len(f.ran)] \in Handler
        BY <3>1, ElementOfSeq
      <4>2. Len(f.ran) <= Len(s) /\ NULL = Behind(f.vec, Len(s) - Len(f.ran))
        BY <2>4, <3>2 DEF Walk
      <4>3. Len(s) - Len(f.ran) # 0 => NULL = s[Len(s) - Len(f.ran)]
        BY <4>2 DEF Behind
      <4>4. Len(s) - Len(f.ran) # 0 => Len(s) - Len(f.ran) \in 1 .. Len(s)
        <5> DEFINE a == Len(s)
                   b == Len(f.ran)
        <5>1. a \in Nat /\ b \in Nat /\ b <= a
          BY <3>1, <4>2
        <5> HIDE DEF a, b
        <5>2. a - b # 0 => a - b \in 1 .. a
          BY <5>1
        <5> QED BY <5>2 DEF a, b
      <4>5. Len(s) - Len(f.ran) = 0
        BY <4>1, <4>3, <4>4, VecFacts
      <4> QED BY <3>1, <4>5
    <3>4. /\ Reverse(s) \in Seq(Handler) /\ Len(Reverse(s)) = Len(s)
          /\ \A j \in 1 .. Len(s) : Reverse(s)[j] = s[Len(s) - j + 1]
      <4>1. \A j \in 1 .. Len(s) : s[Len(s) - j + 1] \in Handler
        BY <3>1, ElementOfSeq
      <4> QED BY <3>1, <4>1 DEF Reverse
    <3>5. \A j \in 1 .. Len(f.ran) : f.ran[j] = Reverse(s)[j]
      BY <3>2, <3>3, <3>4 DEF Walk
    <3> QED BY <3>1, <3>3, <3>4, <3>5, SeqEqual
  <2> QED BY <2>2, <2>3, <2>4
<1> QED BY <1>1, Inductive, PTL

\* No vector is handled in two frames at once, whatever NMIs and early EOIs do.
THEOREM NeverReentered == Spec => []NotReentrant
<1>1. IInv => NotReentrant
  <2> SUFFICES ASSUME IInv, NEW j \in DOMAIN frames, NEW k \in DOMAIN frames,
                      frames[j].vec = frames[k].vec
               PROVE  j = k
    BY DEF NotReentrant
  <2>1. j \in 1 .. Len(frames) /\ k \in 1 .. Len(frames) /\ Len(frames) \in Nat
    BY DEF IInv, TypeOK
  <2>2. (j > 1 => frames[j].vec = NMI) /\ (k > 1 => frames[k].vec = NMI)
    BY <2>1 DEF IInv, Nested
  <2>3. frames[j].vec = NMI /\ frames[k].vec = NMI => j = k
    BY <2>1 DEF IInv, Nested
  <2> QED BY <2>1, <2>2, <2>3
<1> QED BY <1>1, Inductive, PTL
=============================================================================
