---------------------------- MODULE GbCpuProofs ----------------------------
(***************************************************************************)
(* The safety of the Game Boy CPU's control state, for any number of       *)
(* interrupt lines, any transfer length and any source pages.              *)
(***************************************************************************)
EXTENDS GbCpu, WellFoundedInduction, TLAPS

\* dispatch_interrupt finds the lowest pending line.
LEMMA UrgentPending ==
  ASSUME NEW pending \in SUBSET Ints, pending # {}
  PROVE  Urgent(pending) \in pending
<1>1. pending \subseteq Nat
  BY CpuAssumption DEF Ints
<1>2. \E x \in pending : \A y \in pending : ~(<<y, x>> \in OpToRel(<, Nat))
  BY <1>1, WFMin, NatLessThanWellFounded
<1>3. PICK x \in pending : \A y \in pending : ~(<<y, x>> \in OpToRel(<, Nat))
  BY <1>2
<1>4. \A y \in pending : ~(y < x)
  BY <1>1, <1>3 DEF OpToRel
<1>5. \A y \in pending : x <= y
  BY <1>1, <1>4
<1> QED
  BY <1>5 DEF Urgent

\* What a bus write leaves in the registers it can reach.
LEMMA WriteType ==
  ASSUME NEW w \in Writes, TypeOK
  PROVE  /\ \A f \in SUBSET Ints : IfAfter(w, f) \in SUBSET Ints
         /\ \A e \in SUBSET Ints : IeAfter(w, e) \in SUBSET Ints
         /\ \A o \in [0..(OamSize - 1) -> Bytes \cup {Program}] :
              OamAfter(w, o) \in [0..(OamSize - 1) -> Bytes \cup {Program}]
<1>1. CASE w = NoWrite
  BY <1>1 DEF IfAfter, IeAfter, OamAfter, NoWrite
<1>2. CASE w \in [reg : {"IF", "IE", "line"}, val : SUBSET Ints]
  BY <1>2 DEF IfAfter, IeAfter, OamAfter
<1>3. CASE w \in [reg : {"DMA"}, val : Pages]
  BY <1>3 DEF IfAfter, IeAfter, OamAfter
<1>4. CASE w \in [reg : {"OAM"}, val : 0..(OamSize - 1)]
  BY <1>4 DEF IfAfter, IeAfter, OamAfter
<1> QED
  BY <1>1, <1>2, <1>3, <1>4 DEF Writes

DmaType == [active : BOOLEAN, page : Pages \cup {Nothing},
            index : 0..OamSize, value : Bytes \cup {Program}]

\* A transfer as it is between two CPU steps.
DmaSound(d, o) ==
  d.active =>
    /\ d.page \in Pages /\ d.index < OamSize
    /\ d.value = <<d.page, d.index>>
    /\ \A i \in 0..(d.index - 1) : o[i] = <<d.page, i>>

\* A write outside a transfer either leaves it alone or starts a sound one.
LEMMA DmaWrite ==
  ASSUME NEW w \in Writes, NEW d \in DmaType,
         d.active => /\ d.page \in Pages /\ d.index = 0
                     /\ d.value = <<d.page, 0>>
  PROVE  /\ DmaAfter(w, d) \in DmaType
         /\ DmaAfter(w, d).active =>
              /\ DmaAfter(w, d).page \in Pages /\ DmaAfter(w, d).index = 0
              /\ DmaAfter(w, d).value = <<DmaAfter(w, d).page, 0>>
<1>1. OamSize \in Nat \ {0} /\ 0 \in 0..OamSize /\ 0 \in 0..(OamSize - 1)
  BY CpuAssumption
<1>2. CASE w.reg = "DMA"
  <2>1. w \in [reg : {"DMA"}, val : Pages]
    BY <1>2 DEF Writes, NoWrite
  <2>2. w.val \in Pages /\ <<w.val, 0>> \in Bytes
    BY <1>1, <2>1 DEF Bytes
  <2>3. DmaAfter(w, d) = [active |-> TRUE, page |-> w.val, index |-> 0,
                          value |-> <<w.val, 0>>]
    BY <1>2 DEF DmaAfter
  <2> QED
    BY <1>1, <2>2, <2>3 DEF DmaType
<1>3. CASE w.reg # "DMA"
  BY <1>3 DEF DmaAfter
<1> QED
  BY <1>2, <1>3

IInv == TypeOK /\ ImeJustified /\ HaltBugShadow /\ DmaFaithful

\* The interrupt gate and the CPU mode, apart from the transfer.
LEMMA DispatchType ==
  ASSUME TypeOK, NEW f \in SUBSET Ints, NEW e \in SUBSET Ints,
         f \cap e # {}, NEW push \in Writes, Dispatch(f, e, push)
  PROVE  /\ ime' = FALSE /\ imePending' = FALSE /\ gate' = "irq"
         /\ served' \in Ints
         /\ ifReg' \in SUBSET Ints /\ ie' \in SUBSET Ints
<1>1. Urgent(f \cap e) \in Ints
  BY UrgentPending
<1>2. f \ {Urgent(f \cap e)} \in SUBSET Ints
  OBVIOUS
<1> QED
  BY <1>1, <1>2, WriteType DEF Dispatch

LEMMA InitIInv == Init => IInv
<1> SUFFICES ASSUME Init PROVE IInv
  OBVIOUS
<1>1. 0 \in Ints /\ 0 \in 0..OamSize
  BY CpuAssumption DEF Ints
<1>2. dma \in DmaType /\ ~dma.active
  BY <1>1 DEF Init, DmaType
<1>3. oam \in [0..(OamSize - 1) -> Bytes \cup {Program}]
  BY DEF Init
<1>4. TypeOK
  BY <1>1, <1>2, <1>3 DEF Init, TypeOK, DmaType
<1>5. ImeJustified /\ HaltBugShadow /\ DmaFaithful
  BY <1>2 DEF Init, ImeJustified, HaltBugShadow, DmaFaithful
<1> QED
  BY <1>4, <1>5 DEF IInv

\* A byte of a transfer arrives and the next one is fetched.
LEMMA DmaStepIInv == IInv /\ DmaStep => IInv'
<1> SUFFICES ASSUME IInv, DmaStep PROVE IInv'
  OBVIOUS
<1>1. /\ dma \in DmaType /\ oam \in [0..(OamSize - 1) -> Bytes \cup {Program}]
      /\ dma.active /\ DmaSound(dma, oam) /\ OamSize \in Nat \ {0}
  BY CpuAssumption DEF IInv, TypeOK, DmaType, DmaFaithful, DmaSound, DmaStep
<1>2. dma.index \in 0..(OamSize - 1) /\ dma.value = <<dma.page, dma.index>>
  BY <1>1 DEF DmaType, DmaSound
<1>3. dma.value \in Bytes \cup {Program}
  BY <1>1 DEF DmaType
<1>4. oam' = [oam EXCEPT ![dma.index] = dma.value]
  BY DEF DmaStep
<1>5. oam' \in [0..(OamSize - 1) -> Bytes \cup {Program}]
  BY <1>1, <1>2, <1>3, <1>4
<1>6. \A i \in 0..dma.index : oam'[i] = <<dma.page, i>>
  BY <1>1, <1>2, <1>4 DEF DmaSound
<1>7. dma' \in DmaType /\ DmaSound(dma', oam')
  <2>1. CASE dma.index + 1 >= OamSize
    <3>1. dma' = [dma EXCEPT !.active = FALSE, !.index = @ + 1]
      BY <2>1 DEF DmaStep
    <3>2. dma.index + 1 \in 0..OamSize
      BY <1>1, <1>2
    <3>3. dma' \in DmaType /\ ~dma'.active
      BY <1>1, <3>1, <3>2 DEF DmaType
    <3> QED
      BY <3>3 DEF DmaSound
  <2>2. CASE ~(dma.index + 1 >= OamSize)
    <3>1. dma' = [dma EXCEPT !.index = @ + 1,
                             !.value = <<dma.page, dma.index + 1>>]
      BY <2>2 DEF DmaStep
    <3>2. dma.index + 1 \in 0..(OamSize - 1) /\ dma.index + 1 \in 0..OamSize
      BY <1>1, <1>2, <2>2
    <3>3. dma.page \in Pages
      BY <1>1 DEF DmaSound
    <3>4. <<dma.page, dma.index + 1>> \in Bytes
      BY <3>2, <3>3 DEF Bytes
    <3>5. dma' \in DmaType
      BY <1>1, <3>1, <3>2, <3>4 DEF DmaType
    <3>6. /\ dma'.index = dma.index + 1 /\ dma'.page = dma.page
          /\ dma'.value = <<dma.page, dma.index + 1>>
      BY <1>1, <3>1 DEF DmaType
    <3>7. dma'.index < OamSize /\ (dma'.index - 1) = dma.index
      BY <1>1, <1>2, <3>2, <3>6
    <3> QED
      BY <1>6, <3>3, <3>5, <3>6, <3>7 DEF DmaSound
  <2> QED
    BY <2>1, <2>2
<1>8. /\ UNCHANGED <<ime, imePending, halted, stopped, haltBug, gate, ifReg, ie>>
      /\ served' = Nothing /\ wroteIf' = FALSE
  BY DEF DmaStep, cpuVars
<1>9. TypeOK'
  BY <1>5, <1>7, <1>8 DEF IInv, TypeOK, DmaType
<1>10. ~haltBug
  BY <1>1 DEF IInv, HaltBugShadow
<1> QED
  BY <1>7, <1>8, <1>9, <1>10
     DEF IInv, ImeJustified, HaltBugShadow, DmaFaithful, DmaSound

\* Dispatching, or going on without, leaves a transfer sound and its CPU awake.
LEMMA WritesKeepDmaSound ==
  ASSUME IInv, ~dma.active, NEW w \in Writes, NEW push \in Writes,
         dma' = DmaAfter(push, DmaAfter(w, dma)),
         oam' = OamAfter(push, OamAfter(w, oam))
  PROVE  /\ dma' \in DmaType /\ DmaSound(dma', oam')
         /\ oam' \in [0..(OamSize - 1) -> Bytes \cup {Program}]
<1>1. TypeOK /\ dma \in DmaType
  BY DEF IInv, TypeOK, DmaType
<1>2. /\ dma' \in DmaType
      /\ dma'.active => /\ dma'.page \in Pages /\ dma'.index = 0
                        /\ dma'.value = <<dma'.page, 0>>
  <2>1. /\ DmaAfter(w, dma) \in DmaType
        /\ DmaAfter(w, dma).active =>
             /\ DmaAfter(w, dma).page \in Pages /\ DmaAfter(w, dma).index = 0
             /\ DmaAfter(w, dma).value = <<DmaAfter(w, dma).page, 0>>
    BY <1>1, DmaWrite
  <2> QED
    BY <2>1, DmaWrite
<1>3. OamSize > 0 /\ 0..(0 - 1) = {}
  BY CpuAssumption
<1>4. DmaSound(dma', oam')
  BY <1>2, <1>3 DEF DmaSound
<1>5. oam' \in [0..(OamSize - 1) -> Bytes \cup {Program}]
  <2>1. OamAfter(w, oam) \in [0..(OamSize - 1) -> Bytes \cup {Program}]
    BY <1>1, WriteType DEF TypeOK
  <2> QED
    BY <1>1, <2>1, WriteType
<1> QED
  BY <1>2, <1>4, <1>5

\* A sleeping CPU stays asleep, wakes, or wakes into a handler.
LEMMA SleepStepIInv ==
  ASSUME IInv, NEW push \in Writes, SleepStep(push)
  PROVE  IInv'
<1>1. TypeOK /\ ~dma.active /\ ~haltBug
  BY DEF IInv, HaltBugShadow, SleepStep
<1>2. /\ haltBug' = haltBug /\ halted' \in BOOLEAN /\ stopped' \in BOOLEAN
      /\ haltBug \in BOOLEAN
  BY DEF SleepStep, IInv, TypeOK
<1>3. CASE Wakes /\ ime
  <2>1. Dispatch(ifReg, ie, push)
    BY <1>3 DEF SleepStep
  <2>2. /\ ime' = FALSE /\ imePending' = FALSE /\ gate' = "irq"
        /\ served' \in Ints /\ ifReg' \in SUBSET Ints /\ ie' \in SUBSET Ints
    BY <1>1, <1>3, <2>1, DispatchType DEF Wakes, TypeOK
  <2>3. /\ dma' = DmaAfter(push, dma) /\ oam' = OamAfter(push, oam)
        /\ wroteIf' \in BOOLEAN
    BY <1>3 DEF SleepStep
  <2>4. DmaAfter(NoWrite, dma) = dma /\ OamAfter(NoWrite, oam) = oam
    BY DEF DmaAfter, OamAfter, NoWrite
  <2>5. NoWrite \in Writes
    BY DEF Writes
  <2>6. /\ dma' \in DmaType /\ DmaSound(dma', oam')
        /\ oam' \in [0..(OamSize - 1) -> Bytes \cup {Program}]
    BY <1>1, <2>3, <2>4, <2>5, WritesKeepDmaSound
  <2> QED
    BY <1>1, <1>2, <2>2, <2>3, <2>6
       DEF IInv, TypeOK, ImeJustified, HaltBugShadow, DmaFaithful, DmaSound,
           DmaType
<1>4. CASE ~(Wakes /\ ime)
  <2>1. /\ served' = Nothing /\ wroteIf' = FALSE
        /\ UNCHANGED <<ime, imePending, ifReg, ie, dma, oam, gate>>
    BY <1>4 DEF SleepStep
  <2> QED
    BY <1>1, <1>2, <2>1
       DEF IInv, TypeOK, ImeJustified, HaltBugShadow, DmaFaithful
<1> QED
  BY <1>3, <1>4

\* One instruction, and the dispatch that may follow it in the same step.
LEMMA ExecStepIInv ==
  ASSUME IInv, NEW op \in Ops, NEW w \in Writes, NEW push \in Writes,
         ExecStep(op, w, push)
  PROVE  IInv'
<1> DEFINE before == ime \/ imePending
           enabled == ImeAfter(op, before)
           f == IfAfter(w, ifReg)
           e == IeAfter(w, ie)
           sleeps == op = "HALT" /\ Halts(before, f, e)
           serves == enabled /\ ~sleeps /\ op # "STOP" /\ f \cap e # {}
<1>1. TypeOK /\ ~dma.active
  BY DEF IInv, ExecStep
<1>2. f \in SUBSET Ints /\ e \in SUBSET Ints
  BY <1>1, WriteType DEF TypeOK
<1>3. /\ halted' = sleeps /\ stopped' = (op = "STOP")
      /\ haltBug' = (op = "HALT" /\ ~sleeps)
      /\ dma' = DmaAfter(push, DmaAfter(w, dma))
      /\ oam' = OamAfter(push, OamAfter(w, oam))
      /\ wroteIf' = ("IF" \in {w.reg, push.reg})
  BY DEF ExecStep
<1>4. /\ dma' \in DmaType /\ DmaSound(dma', oam')
      /\ oam' \in [0..(OamSize - 1) -> Bytes \cup {Program}]
  BY <1>1, <1>3, WritesKeepDmaSound
<1>5. /\ halted' \in BOOLEAN /\ stopped' \in BOOLEAN /\ haltBug' \in BOOLEAN
      /\ wroteIf' \in BOOLEAN
  BY <1>3 DEF Halts
<1>6. haltBug' => op = "HALT" /\ ~before /\ ~serves /\ ~halted' /\ ~stopped'
  BY <1>3 DEF Halts, ImeAfter
<1>7. haltBug' => ~dma'.active
  <2> SUFFICES ASSUME haltBug' PROVE ~dma'.active
    OBVIOUS
  <2>1. w = NoWrite /\ push = NoWrite
    BY <1>6 DEF ExecStep
  <2> QED
    BY <1>1, <1>3, <2>1 DEF DmaAfter, NoWrite
<1>8. CASE serves
  <2>1. Dispatch(f, e, push)
    BY <1>8 DEF ExecStep
  <2>2. /\ ime' = FALSE /\ imePending' = FALSE /\ gate' = "irq"
        /\ served' \in Ints /\ ifReg' \in SUBSET Ints /\ ie' \in SUBSET Ints
    BY <1>1, <1>2, <1>8, <2>1, DispatchType
  <2> QED
    BY <1>4, <1>5, <1>6, <1>7, <2>2
       DEF IInv, TypeOK, ImeJustified, HaltBugShadow, DmaFaithful, DmaSound,
           DmaType
<1>9. CASE ~serves
  <2>1. /\ ime' = enabled /\ imePending' = (op = "EI")
        /\ ifReg' = f /\ ie' = e /\ served' = Nothing
        /\ gate' = IF op \in {"EI", "DI", "RETI"} THEN op ELSE gate
    BY <1>9 DEF ExecStep
  <2>2. ime' \in BOOLEAN /\ imePending' \in BOOLEAN
    BY <2>1 DEF ImeAfter
  <2>3. gate' \in {"reset", "EI", "DI", "RETI", "irq"}
    BY <1>1, <2>1 DEF TypeOK
  <2>4. ImeJustified'
    BY <2>1 DEF IInv, ImeJustified, ImeAfter
  <2>5. haltBug' => ~ime' /\ ~imePending'
    BY <1>6, <2>1 DEF ImeAfter
  <2> QED
    BY <1>2, <1>4, <1>5, <1>6, <1>7, <2>1, <2>2, <2>3, <2>4, <2>5
       DEF IInv, TypeOK, HaltBugShadow, DmaFaithful, DmaSound, DmaType
<1> QED
  BY <1>8, <1>9

LEMMA NextIInv == IInv /\ [Next]_vars => IInv'
<1> SUFFICES ASSUME IInv, [Next]_vars PROVE IInv'
  OBVIOUS
<1>1. CASE Step
  BY <1>1, DmaStepIInv, SleepStepIInv, ExecStepIInv DEF Step
<1>2. ASSUME NEW b \in Ints, Request(b) PROVE IInv'
  BY <1>2 DEF Request, cpuVars, IInv, TypeOK, ImeJustified, HaltBugShadow,
              DmaFaithful
<1>3. CASE PowerOn
  <2>1. 0 \in Ints /\ 0 \in 0..OamSize
    BY CpuAssumption DEF Ints
  <2>2. dma' \in DmaType /\ ~dma'.active
    BY <1>3, <2>1 DEF PowerOn, DmaType
  <2>3. TypeOK'
    BY <1>3, <2>1, <2>2 DEF PowerOn, TypeOK, DmaType
  <2> QED
    BY <1>3, <2>2, <2>3
       DEF PowerOn, IInv, ImeJustified, HaltBugShadow, DmaFaithful
<1>4. CASE UNCHANGED vars
  BY <1>4 DEF vars, IInv, TypeOK, ImeJustified, HaltBugShadow, DmaFaithful
<1> QED
  BY <1>1, <1>2, <1>3, <1>4 DEF Next

LEMMA InductiveInvariant == Spec => []IInv
  BY InitIInv, NextIInv, PTL DEF Spec

\* The control state keeps its types whatever the program and hardware do.
THEOREM CpuTypeCorrect == Spec => []TypeOK
<1>1. IInv => TypeOK
  BY DEF IInv
<1> QED
  BY InductiveInvariant, <1>1, PTL

\* No interrupt is ever enabled that EI or RETI did not enable last: handlers
\* do not nest by accident and DI is obeyed.
THEOREM CpuImeJustified == Spec => []ImeJustified
<1>1. IInv => ImeJustified
  BY DEF IInv
<1> QED
  BY InductiveInvariant, <1>1, PTL

\* The halt bug cannot meet a dispatch, a sleep or a transfer.
THEOREM CpuHaltBugShadow == Spec => []HaltBugShadow
<1>1. IInv => HaltBugShadow
  BY DEF IInv
<1> QED
  BY InductiveInvariant, <1>1, PTL

\* An OAM transfer delivers the bytes it names, whoever started it.
THEOREM CpuDmaFaithful == Spec => []DmaFaithful
<1>1. IInv => DmaFaithful
  BY DEF IInv
<1> QED
  BY InductiveInvariant, <1>1, PTL

\* A transfer ends with its last byte: only a power-on cuts one off.
THEOREM CpuDmaComplete == Spec => DmaComplete
<1>1. ASSUME IInv, [Next]_vars, dma.active, ~dma'.active, ~PowerOn
      PROVE  \A i \in 0..(OamSize - 1) : oam'[i] = <<dma.page, i>>
  <2>1. CASE DmaStep
    <3>1. /\ dma \in DmaType /\ DmaSound(dma, oam) /\ OamSize \in Nat \ {0}
          /\ oam \in [0..(OamSize - 1) -> Bytes \cup {Program}]
      BY <1>1, CpuAssumption DEF IInv, TypeOK, DmaType, DmaFaithful, DmaSound
    <3>2. dma.index \in 0..(OamSize - 1)
      BY <1>1, <3>1 DEF DmaType, DmaSound
    <3>3. dma.index + 1 >= OamSize
      <4> SUFFICES ASSUME ~(dma.index + 1 >= OamSize) PROVE FALSE
        OBVIOUS
      <4>1. dma' = [dma EXCEPT !.index = @ + 1,
                               !.value = <<dma.page, dma.index + 1>>]
        BY <2>1 DEF DmaStep
      <4>2. dma'.active = dma.active
        BY <3>1, <4>1 DEF DmaType
      <4> QED
        BY <1>1, <4>2
    <3>4. dma.index = OamSize - 1
      BY <3>1, <3>2, <3>3
    <3>5. oam' = [oam EXCEPT ![dma.index] = dma.value]
      BY <2>1 DEF DmaStep
    <3> QED
      BY <1>1, <3>1, <3>4, <3>5 DEF DmaSound
  <2>2. ASSUME NEW b \in Ints, Request(b) PROVE FALSE
    BY <1>1, <2>2 DEF Request
  <2>3. CASE UNCHANGED vars
    BY <1>1, <2>3 DEF vars
  <2>4. Step => DmaStep
    BY <1>1 DEF Step, SleepStep, ExecStep
  <2> QED
    BY <1>1, <2>1, <2>2, <2>3, <2>4 DEF Next
<1>2. IInv /\ [Next]_vars => [dma.active /\ ~dma'.active =>
        \/ \A i \in 0..(OamSize - 1) : oam'[i] = <<dma.page, i>>
        \/ PowerOn]_vars
  BY <1>1
<1> QED
  BY InductiveInvariant, <1>2, PTL DEF Spec, DmaComplete

\* What a bus write that is not a write to IF leaves requested.
LEMMA WriteKeepsRequests ==
  ASSUME NEW w \in Writes, w.reg # "IF", NEW f
  PROVE  f \subseteq IfAfter(w, f)
  BY DEF IfAfter

\* A dispatch takes one request, the one it serves.
LEMMA DispatchTakesOne ==
  ASSUME NEW f, NEW e, NEW push \in Writes, push.reg # "IF", Dispatch(f, e, push),
         NEW b \in f, b \notin ifReg'
  PROVE  served' = b
<1>1. f \ {Urgent(f \cap e)} \subseteq ifReg' /\ served' = Urgent(f \cap e)
  BY WriteKeepsRequests DEF Dispatch
<1> QED
  BY <1>1

\* A request leaves IF only by being dispatched, or because the program or a
\* power-on wrote the register (dispatch_interrupt, gb_cpu_step): none is
\* dropped on the way, whatever the push of a dispatch overwrites.
THEOREM CpuRequestKept == Spec => RequestKept
<1>1. ASSUME [Next]_vars, NEW b \in ifReg \ ifReg', ~wroteIf' PROVE served' = b
  <2>1. CASE DmaStep
    BY <1>1, <2>1 DEF DmaStep
  <2>2. ASSUME NEW push \in Writes, SleepStep(push) PROVE served' = b
    <3>1. CASE Wakes /\ ime
      <4>1. Dispatch(ifReg, ie, push) /\ push.reg # "IF"
        BY <1>1, <2>2, <3>1 DEF SleepStep
      <4> QED
        BY <1>1, <4>1, DispatchTakesOne
    <3>2. CASE ~(Wakes /\ ime)
      BY <1>1, <2>2, <3>2 DEF SleepStep
    <3> QED
      BY <3>1, <3>2
  <2>3. ASSUME NEW op \in Ops, NEW w \in Writes, NEW push \in Writes,
               ExecStep(op, w, push)
        PROVE  served' = b
    <3>1. w.reg # "IF" /\ push.reg # "IF"
      BY <1>1, <2>3 DEF ExecStep
    <3>2. b \in IfAfter(w, ifReg)
      BY <1>1, <3>1, WriteKeepsRequests
    <3>3. CASE Dispatch(IfAfter(w, ifReg), IeAfter(w, ie), push)
      BY <1>1, <3>1, <3>2, <3>3, DispatchTakesOne
    <3>4. CASE ifReg' = IfAfter(w, ifReg)
      BY <1>1, <3>2, <3>4
    <3> QED
      BY <2>3, <3>3, <3>4 DEF ExecStep
  <2>4. CASE Step
    BY <2>1, <2>2, <2>3, <2>4 DEF Step
  <2>5. ASSUME NEW r \in Ints, Request(r) PROVE served' = b
    BY <1>1, <2>5 DEF Request
  <2>6. CASE PowerOn
    BY <1>1, <2>6 DEF PowerOn
  <2>7. CASE UNCHANGED vars
    BY <1>1, <2>7 DEF vars
  <2> QED
    BY <1>1, <2>4, <2>5, <2>6, <2>7 DEF Next
<1>2. [Next]_vars => [\A b \in ifReg \ ifReg' : served' = b \/ wroteIf']_vars
  BY <1>1
<1> QED
  BY <1>2, PTL DEF Spec, RequestKept
=============================================================================
