--------------------------- MODULE ProcessorProofs ---------------------------
(***************************************************************************)
(* What is proved of the processors of MCConsoles, with DeviceProofs of    *)
(* the consoles together, and of the arithmetic of all of them.            *)
(***************************************************************************)
EXTENDS DeviceProofs

(***************************************************************************)
(* Stacks, which grow at their heads.  An item lies at a height: as many   *)
(* items are below it.                                                     *)
(***************************************************************************)

Lies(stack, height, item) ==
  height \in Nat /\ Len(stack) > height /\ stack[Len(stack) - height] = item

LEMMA Pushed ==
  ASSUME NEW S, NEW q \in Seq(S), NEW e \in S
  PROVE  /\ <<e>> \o q \in Seq(S)
         /\ Len(<<e>> \o q) = Len(q) + 1
         /\ Head(<<e>> \o q) = e /\ Tail(<<e>> \o q) = q
         /\ <<e>> \o q # <<>>
         /\ (<<e>> \o q)[1] = e
         /\ \A i \in 1..Len(q) : (<<e>> \o q)[i + 1] = q[i]
<1> DEFINE r == <<e>> \o q
<1>1. <<e>> \in Seq(S) /\ Len(<<e>>) = 1 /\ <<e>>[1] = e
  OBVIOUS
<1>2. Len(q) \in Nat
  BY LenProperties
<1>3. /\ r \in Seq(S) /\ Len(r) = 1 + Len(q)
      /\ \A i \in 1..(1 + Len(q)) : r[i] = IF i <= 1 THEN <<e>>[i] ELSE q[i - 1]
  BY <1>1, ConcatProperties
<1> HIDE DEF r
<1>4. r # <<>> /\ Len(r) = Len(q) + 1
  BY <1>2, <1>3, EmptySeq
<1>5. r[1] = e /\ \A i \in 1..Len(q) : r[i + 1] = q[i]
  <2>1. 1 \in 1..(1 + Len(q)) /\ 1 <= 1
    BY <1>2
  <2>2. r[1] = e
    BY <1>1, <1>3, <2>1
  <2>3. ASSUME NEW i \in 1..Len(q) PROVE r[i + 1] = q[i]
    <3>1. i + 1 \in 1..(1 + Len(q)) /\ ~(i + 1 <= 1) /\ (i + 1) - 1 = i
      BY <1>2
    <3> QED
      BY <1>3, <3>1
  <2> QED
    BY <2>2, <2>3
<1>6. Head(r) = e
  BY <1>3, <1>5
<1>7. Tail(r) = q
  <2>1. /\ Tail(r) \in Seq(S) /\ Len(Tail(r)) = Len(q)
        /\ \A i \in 1..Len(Tail(r)) : Tail(r)[i] = r[i + 1]
    BY <1>2, <1>3, <1>4, HeadTailProperties
  <2>2. \A i \in 1..Len(q) : Tail(r)[i] = q[i]
    BY <1>5, <2>1
  <2> QED
    BY <2>1, <2>2, SeqEqual
<1> QED
  BY <1>3, <1>4, <1>5, <1>6, <1>7 DEF r

LEMMA Popped ==
  ASSUME NEW S, NEW q \in Seq(S), q # <<>>
  PROVE  /\ Tail(q) \in Seq(S) /\ Len(Tail(q)) = Len(q) - 1 /\ Head(q) = q[1]
         /\ Head(q) \in S /\ Len(q) \in Nat \ {0}
         /\ \A i \in 1..(Len(q) - 1) : Tail(q)[i] = q[i + 1]
<1>1. Len(q) \in Nat \ {0}
  BY EmptySeq
<1>2. Len(Tail(q)) = Len(q) - 1
  BY HeadTailProperties
<1> QED
  BY <1>1, <1>2, HeadTailProperties

LEMMA LiesPushed ==
  ASSUME NEW S, NEW q \in Seq(S), NEW e \in S
  PROVE  /\ Lies(<<e>> \o q, Len(q), e)
         /\ \A h, x : Lies(q, h, x) => Lies(<<e>> \o q, h, x)
<1> DEFINE r == <<e>> \o q
<1>1. /\ Len(q) \in Nat /\ Len(r) = Len(q) + 1 /\ r[1] = e
      /\ \A i \in 1..Len(q) : r[i + 1] = q[i]
  BY Pushed, LenProperties
<1> HIDE DEF r
<1>2. Lies(r, Len(q), e)
  <2>1. Len(r) - Len(q) = 1
    BY <1>1
  <2> QED
    BY <1>1, <2>1 DEF Lies
<1>3. ASSUME NEW h, NEW x, Lies(q, h, x) PROVE Lies(r, h, x)
  <2>1. h \in Nat /\ Len(q) > h /\ q[Len(q) - h] = x
    BY <1>3 DEF Lies
  <2>2. Len(q) - h \in 1..Len(q) /\ (Len(q) - h) + 1 = Len(r) - h /\ Len(r) > h
    BY <1>1, <2>1
  <2> QED
    BY <1>1, <2>1, <2>2 DEF Lies
<1> QED
  BY <1>2, <1>3 DEF r

LEMMA LiesBelow ==
  ASSUME NEW S, NEW q \in Seq(S), q # <<>>, NEW h, NEW x, Lies(q, h, x), h < Len(q) - 1
  PROVE  Lies(Tail(q), h, x)
<1>1. /\ Len(q) \in Nat \ {0} /\ Len(Tail(q)) = Len(q) - 1
      /\ \A i \in 1..(Len(q) - 1) : Tail(q)[i] = q[i + 1]
  BY Popped
<1>2. h \in Nat /\ q[Len(q) - h] = x
  BY DEF Lies
<1>3. /\ Len(Tail(q)) - h \in 1..(Len(q) - 1)
      /\ (Len(Tail(q)) - h) + 1 = Len(q) - h /\ Len(Tail(q)) > h
  BY <1>1, <1>2
<1> QED
  BY <1>1, <1>2, <1>3 DEF Lies

LEMMA LiesTop ==
  ASSUME NEW S, NEW q \in Seq(S), q # <<>>, NEW h, NEW x, Lies(q, h, x), h = Len(q) - 1
  PROVE  Head(q) = x
<1>1. Len(q) \in Nat \ {0} /\ Head(q) = q[1]
  BY Popped
<1> QED
  BY <1>1 DEF Lies

LEMMA TwoPushed ==
  ASSUME NEW S, NEW q \in Seq(S), NEW d \in S, NEW e \in S
  PROVE  <<d, e>> \o q = <<d>> \o (<<e>> \o q)
<1>1. <<d>> \in Seq(S) /\ <<e>> \in Seq(S)
  OBVIOUS
<1>2. <<d>> \o <<e>> = <<d, e>>
  <2> DEFINE r == <<d>> \o <<e>>
             s == <<d, e>>
  <2>1. Len(<<d>>) = 1 /\ Len(<<e>>) = 1 /\ <<d>>[1] = d /\ <<e>>[1] = e
    OBVIOUS
  <2>2. /\ r \in Seq(S) /\ Len(r) = 2
        /\ \A i \in 1..2 : r[i] = IF i <= 1 THEN <<d>>[i] ELSE <<e>>[i - 1]
    BY <1>1, <2>1, ConcatProperties
  <2>3. s \in Seq(S) /\ Len(s) = 2 /\ s[1] = d /\ s[2] = e
    OBVIOUS
  <2> HIDE DEF r, s
  <2>4. r[1] = d /\ r[2] = e
    BY <2>1, <2>2
  <2>5. \A i \in 1..Len(r) : r[i] = s[i]
    BY <2>2, <2>3, <2>4
  <2>6. r = s
    BY <2>2, <2>3, <2>5, SeqEqual
  <2> QED
    BY <2>6 DEF r, s
<1>3. (<<d>> \o <<e>>) \o q = <<d>> \o (<<e>> \o q)
  BY <1>1, ConcatAssociative
<1> QED
  BY <1>2, <1>3

(***************************************************************************)
(* The NES.                                                                *)
(***************************************************************************)

NesCpus == [pc : NesPlaces, i : BOOLEAN, stack : Seq(Nes!Items), nmi : BOOLEAN,
            line : BOOLEAN, stalled : BOOLEAN]
NesPpus == [vblank : BOOLEAN, on : BOOLEAN, out : BOOLEAN, drawing : BOOLEAN]
NesFlags == [frame : BOOLEAN, inhibit : BOOLEAN, mapper : BOOLEAN, enabled : BOOLEAN]
NesCuts == [pc : NesPlaces, i : BOOLEAN, height : Nat]

\* What the interrupts not yet returned from have pushed lies where they pushed
\* it, each above those before.
NesHeld(stack, cuts) ==
  /\ \A k \in 1..Len(cuts) :
       /\ Lies(stack, cuts[k].height, Nes!Pc(cuts[k].pc, FALSE))
       /\ Lies(stack, cuts[k].height + 1, Nes!P(cuts[k].i))
  /\ \A j, k \in 1..Len(cuts) : j < k => cuts[k].height + 2 <= cuts[j].height

NesInv ==
  /\ v1 \in NesCpus /\ Len(v1.stack) <= NesStack
  /\ v2 \in NesPpus /\ v3 \in NesFlags /\ v4 \in Seq(NesCuts)
  /\ v1.line = Nes!Line(v3)
  /\ NesHeld(v1.stack, v4)

LEMMA NesItems ==
  /\ \A p \in NesPlaces, s \in BOOLEAN : Nes!Pc(p, s) \in Nes!Items
  /\ \A i \in BOOLEAN : Nes!P(i) \in Nes!Items
  BY DEF Nes!Items

LEMMA NesPush ==
  ASSUME NEW q \in Seq(Nes!Items), NEW cuts, NesHeld(q, cuts), NEW e \in Nes!Items
  PROVE  NesHeld(<<e>> \o q, cuts)
  BY LiesPushed DEF NesHeld

\* The end of the CPU's part of a step.
LEMMA NesEnds ==
  ASSUME NEW c \in NesCpus, NEW p \in NesPpus, NEW f \in NesFlags, Nes!Ends(c, p, f)
  PROVE  /\ v1' \in NesCpus /\ v1'.pc = c.pc /\ v1'.i = c.i /\ v1'.stack = c.stack
         /\ v2' \in NesPpus /\ v3' \in NesFlags /\ v1'.line = Nes!Line(v3')
<1>1. PICK q \in Nes!Blanks(p), g \in Nes!Clocked(f) :
        /\ v2' = q /\ v3' = g
        /\ v1' = [c EXCEPT !.nmi = @ \/ (q.out /\ ~p.out), !.line = Nes!Line(g)]
  BY DEF Nes!Ends
<1>2. q \in NesPpus
  <2>1. \A b \in BOOLEAN : [p EXCEPT !.vblank = b] \in NesPpus
    BY DEF NesPpus
  <2>2. \A x \in NesPpus : Nes!Updated(x) \in NesPpus
    <3> TAKE x \in NesPpus
    <3>1. Nes!Level(x) \in BOOLEAN
      BY DEF NesPpus, Nes!Level
    <3> QED
      BY <3>1 DEF NesPpus, Nes!Updated
  <2>3. Nes!Begun(p) \in NesPpus /\ Nes!Ended(p) \in NesPpus
    BY <2>1, <2>2 DEF Nes!Begun, Nes!Ended
  <2> QED
    BY <2>3 DEF Nes!Blanks
<1>3. g \in NesFlags
  BY DEF Nes!Clocked, Nes!FrameEnds, Nes!MapperClocked, NesFlags
<1> DEFINE n == c.nmi \/ (q.out /\ ~p.out)
           l == Nes!Line(g)
<1>4. l \in BOOLEAN
  BY <1>3 DEF Nes!Line, NesFlags
<1>5. n \in BOOLEAN
  BY <1>2 DEF NesCpus, NesPpus
<1>6. v1' = [c EXCEPT !.nmi = n, !.line = l]
  BY <1>1
<1> HIDE DEF n, l
<1>7. /\ v1' \in NesCpus /\ v1'.pc = c.pc /\ v1'.i = c.i /\ v1'.stack = c.stack
      /\ v1'.line = l
  BY <1>4, <1>5, <1>6 DEF NesCpus
<1> QED
  BY <1>1, <1>2, <1>3, <1>7 DEF l

LEMMA NesInit == Nes!Init => NesInv
<1> SUFFICES ASSUME Nes!Init PROVE NesInv
  OBVIOUS
<1>0. NesStack \in Nat
  BY ProcessorsFit DEF Nes!NesCpuAssumption
<1>1. v1 \in NesCpus /\ v1.stack = <<>> /\ Len(v1.stack) = 0 /\ v1.line = FALSE
  <2>1. PICK p \in NesPlaces :
          v1 = [pc |-> p, i |-> TRUE, stack |-> <<>>, nmi |-> FALSE,
                line |-> FALSE, stalled |-> FALSE]
    BY DEF Nes!Init
  <2>2. <<>> \in Seq(Nes!Items) /\ Len(<<>>) = 0
    BY EmptySeq
  <2>3. v1.stack = <<>> /\ v1.line = FALSE
    BY <2>1
  <2>4. v1 \in NesCpus
    BY <2>1, <2>2 DEF NesCpus
  <2> QED
    BY <2>2, <2>3, <2>4
<1>2. v2 \in NesPpus /\ v3 \in NesFlags /\ v4 \in Seq(NesCuts) /\ Len(v4) = 0
  BY DEF Nes!Init, NesPpus, NesFlags
<1>3. Nes!Line(v3) = FALSE
  BY DEF Nes!Init, Nes!Line
<1>4. NesHeld(v1.stack, v4)
  BY <1>2 DEF NesHeld
<1>5. v1.line = Nes!Line(v3)
  BY <1>1, <1>3
<1>6. Len(v1.stack) <= NesStack
  BY <1>0, <1>1
<1> QED
  BY <1>1, <1>2, <1>4, <1>5, <1>6 DEF NesInv

\* What an interrupt pushes lies above what there was.
LEMMA NesCut ==
  ASSUME NEW q \in Seq(Nes!Items), NEW cuts \in Seq(NesCuts), NesHeld(q, cuts),
         NEW pc \in NesPlaces, NEW i \in BOOLEAN
  PROVE  LET stack == <<Nes!P(i), Nes!Pc(pc, FALSE)>> \o q
             cut == [pc |-> pc, i |-> i, height |-> Len(q)]
         IN /\ stack \in Seq(Nes!Items) /\ Len(stack) = Len(q) + 2
            /\ NesHeld(stack, cuts)
            /\ <<cut>> \o cuts \in Seq(NesCuts) /\ NesHeld(stack, <<cut>> \o cuts)
<1> DEFINE a == Nes!P(i)
           b == Nes!Pc(pc, FALSE)
           r == <<b>> \o q
           stack == <<a>> \o r
           cut == [pc |-> pc, i |-> i, height |-> Len(q)]
           all == <<cut>> \o cuts
<1>0. Len(q) \in Nat
  BY LenProperties
<1>1. a \in Nes!Items /\ b \in Nes!Items
  BY NesItems
<1>2. <<Nes!P(i), Nes!Pc(pc, FALSE)>> \o q = stack
  BY <1>1, TwoPushed
<1> HIDE DEF a, b
<1>3. r \in Seq(Nes!Items) /\ Len(r) = Len(q) + 1
  BY <1>1, Pushed
<1>4. Lies(r, Len(q), b) /\ NesHeld(r, cuts)
  BY <1>1, LiesPushed, NesPush
<1> HIDE DEF r
<1>5. stack \in Seq(Nes!Items) /\ Len(stack) = Len(q) + 2
  BY <1>0, <1>1, <1>3, Pushed
<1>6. Lies(stack, Len(q) + 1, a) /\ Lies(stack, Len(q), b)
  BY <1>1, <1>3, <1>4, LiesPushed
<1>7. NesHeld(stack, cuts)
  BY <1>1, <1>3, <1>4, NesPush
<1>8. cut \in NesCuts /\ cut.pc = pc /\ cut.i = i /\ cut.height = Len(q)
  BY <1>0 DEF NesCuts
<1> HIDE DEF cut, stack
<1>9. /\ all \in Seq(NesCuts) /\ Len(all) = Len(cuts) + 1 /\ all[1] = cut
      /\ \A k \in 1..Len(cuts) : all[k + 1] = cuts[k]
  BY <1>8, Pushed
<1>10. Len(cuts) \in Nat
  BY LenProperties
<1> HIDE DEF all
<1>11. \A k \in 1..Len(all) : k = 1 \/ (k - 1 \in 1..Len(cuts) /\ all[k] = cuts[k - 1])
  <2> SUFFICES ASSUME NEW k \in 1..Len(all), k # 1
               PROVE  k - 1 \in 1..Len(cuts) /\ all[k] = cuts[k - 1]
    OBVIOUS
  <2>1. k - 1 \in 1..Len(cuts) /\ (k - 1) + 1 = k
    BY <1>9, <1>10
  <2> QED
    BY <1>9, <2>1
<1>12. \A k \in 1..Len(cuts) : cuts[k].height + 2 <= Len(q)
  <2> TAKE k \in 1..Len(cuts)
  <2>1. Lies(q, cuts[k].height + 1, Nes!P(cuts[k].i))
    BY DEF NesHeld
  <2>2. cuts[k] \in NesCuts
    BY ElementOfSeq
  <2>3. cuts[k].height \in Nat
    BY <2>2 DEF NesCuts
  <2> QED
    BY <1>0, <2>1, <2>3 DEF Lies
<1>13. NesHeld(stack, all)
  <2>1. ASSUME NEW k \in 1..Len(all)
        PROVE  /\ Lies(stack, all[k].height, Nes!Pc(all[k].pc, FALSE))
               /\ Lies(stack, all[k].height + 1, Nes!P(all[k].i))
    <3>1. CASE k = 1
      BY <1>6, <1>8, <1>9, <3>1 DEF a, b
    <3>2. CASE k # 1
      BY <1>7, <1>11, <3>2 DEF NesHeld
    <3> QED
      BY <3>1, <3>2
  <2>2. ASSUME NEW j \in 1..Len(all), NEW k \in 1..Len(all), j < k
        PROVE  all[k].height + 2 <= all[j].height
    <3>1. k # 1 /\ k - 1 \in 1..Len(cuts) /\ all[k] = cuts[k - 1]
      BY <1>11, <2>2
    <3>2. CASE j = 1
      BY <1>8, <1>9, <1>12, <3>1, <3>2
    <3>3. CASE j # 1
      <4>1. j - 1 \in 1..Len(cuts) /\ all[j] = cuts[j - 1] /\ j - 1 < k - 1
        BY <1>11, <2>2, <3>3
      <4> QED
        BY <3>1, <4>1 DEF NesHeld
    <3> QED
      BY <3>2, <3>3
  <2> QED
    BY <2>1, <2>2 DEF NesHeld
<1> QED
  BY <1>2, <1>5, <1>7, <1>9, <1>13 DEF all, cut

\* A pop that leaves what the interrupts pushed.
LEMMA NesPop ==
  ASSUME NEW q \in Seq(Nes!Items), q # <<>>, NEW cuts \in Seq(NesCuts),
         NesHeld(q, cuts), cuts = <<>> \/ Len(q) > Head(cuts).height + 2
  PROVE  NesHeld(Tail(q), cuts)
<1>1. Len(q) \in Nat /\ Len(cuts) \in Nat
  BY LenProperties
<1>2. \A k \in 1..Len(cuts) : cuts[k].height \in Nat
  <2> TAKE k \in 1..Len(cuts)
  <2>1. cuts[k] \in NesCuts
    BY ElementOfSeq
  <2> QED
    BY <2>1 DEF NesCuts
<1>3. ASSUME NEW k \in 1..Len(cuts) PROVE cuts[k].height + 2 < Len(q)
  <2>1. cuts # <<>> /\ 1 \in 1..Len(cuts) /\ Head(cuts) = cuts[1]
    BY <1>1, <1>3, EmptySeq, HeadTailProperties
  <2>2. Len(q) > cuts[1].height + 2
    BY <2>1
  <2>3. k = 1 \/ cuts[k].height + 2 <= cuts[1].height
    BY <1>1, <2>1 DEF NesHeld
  <2> QED
    BY <1>1, <1>2, <2>1, <2>2, <2>3
<1>4. ASSUME NEW k \in 1..Len(cuts)
      PROVE  /\ Lies(Tail(q), cuts[k].height, Nes!Pc(cuts[k].pc, FALSE))
             /\ Lies(Tail(q), cuts[k].height + 1, Nes!P(cuts[k].i))
  <2>1. cuts[k].height < Len(q) - 1 /\ cuts[k].height + 1 < Len(q) - 1
    BY <1>1, <1>2, <1>3
  <2> QED
    BY <2>1, LiesBelow DEF NesHeld
<1> QED
  BY <1>4 DEF NesHeld

\* The item below the top.
LEMMA Second ==
  ASSUME NEW S, NEW q \in Seq(S), Len(q) > 1
  PROVE  /\ q # <<>> /\ Tail(q) \in Seq(S) /\ Tail(q) # <<>>
         /\ Head(Tail(q)) = q[2] /\ Tail(Tail(q)) \in Seq(S) /\ q[2] \in S
         /\ Len(Tail(q)) = Len(q) - 1 /\ Len(Tail(Tail(q))) = Len(q) - 2
<1>1. q # <<>> /\ Len(q) \in Nat
  BY EmptySeq, LenProperties
<1>2. /\ Tail(q) \in Seq(S) /\ Len(Tail(q)) = Len(q) - 1
      /\ \A i \in 1..(Len(q) - 1) : Tail(q)[i] = q[i + 1]
  BY <1>1, Popped
<1>3. Tail(q) # <<>>
  <2> DEFINE t == Tail(q)
  <2>1. Len(t) > 0
    BY <1>1, <1>2
  <2> HIDE DEF t
  <2>2. t = <<>> => Len(t) = 0
    OBVIOUS
  <2>3. t # <<>>
    BY <2>1, <2>2
  <2> QED
    BY <2>3 DEF t
<1>4. /\ Tail(Tail(q)) \in Seq(S) /\ Len(Tail(Tail(q))) = Len(Tail(q)) - 1
      /\ Head(Tail(q)) = Tail(q)[1] /\ Head(Tail(q)) \in S
  BY <1>2, <1>3, Popped
<1>5. Tail(q)[1] = q[2]
  <2>1. 1 \in 1..(Len(q) - 1) /\ 1 + 1 = 2
    BY <1>1
  <2> QED
    BY <1>2, <2>1
<1> QED
  BY <1>1, <1>2, <1>3, <1>4, <1>5

\* An RTI pops what the last interrupt pushed, and nothing else of the kind.
LEMMA NesReturn ==
  ASSUME NEW q \in Seq(Nes!Items), NEW cuts \in Seq(NesCuts), NesHeld(q, cuts),
         Len(q) > 1, q[2].kind = "pc", cuts # <<>>
  PROVE  \/ /\ Len(q) = Head(cuts).height + 2
            /\ Head(q) = Nes!P(Head(cuts).i) /\ q[2] = Nes!Pc(Head(cuts).pc, FALSE)
            /\ NesHeld(Tail(Tail(q)), Tail(cuts))
         \/ Len(q) > Head(cuts).height + 2 /\ NesHeld(Tail(Tail(q)), cuts)
<1> DEFINE h == Head(cuts).height
           pop == Tail(q)
           a == Nes!P(cuts[1].i)
           b == Nes!Pc(cuts[1].pc, FALSE)
<1>1. /\ Len(q) \in Nat /\ Len(cuts) \in Nat \ {0} /\ Head(cuts) = cuts[1]
      /\ Head(cuts) \in NesCuts /\ Tail(cuts) \in Seq(NesCuts)
      /\ Len(Tail(cuts)) = Len(cuts) - 1
      /\ \A k \in 1..(Len(cuts) - 1) : Tail(cuts)[k] = cuts[k + 1]
  BY LenProperties, Popped
<1>2. h \in Nat /\ 1 \in 1..Len(cuts)
  BY <1>1 DEF NesCuts
<1>3. /\ q # <<>> /\ pop \in Seq(Nes!Items) /\ pop # <<>> /\ Head(pop) = q[2]
      /\ Tail(pop) \in Seq(Nes!Items) /\ Len(pop) = Len(q) - 1
  BY Second
<1>4. Lies(q, h, b) /\ Lies(q, h + 1, a)
  BY <1>1, <1>2 DEF NesHeld
<1>5. Len(q) >= h + 2
  BY <1>1, <1>2, <1>4 DEF Lies
<1>a. /\ a = Nes!P(Head(cuts).i) /\ b = Nes!Pc(Head(cuts).pc, FALSE)
      /\ a.kind = "p"
  BY <1>1 DEF Nes!P
<1> HIDE DEF h, pop, a, b
<1>6. CASE Len(q) = h + 2
  <2>1. h < Len(q) - 1 /\ h + 1 = Len(q) - 1 /\ h = Len(pop) - 1
    BY <1>1, <1>2, <1>3, <1>6
  <2>2. Head(q) = a /\ Lies(pop, h, b)
    BY <1>3, <1>4, <2>1, LiesBelow, LiesTop DEF pop
  <2>3. Head(pop) = b
    BY <1>3, <2>1, <2>2, LiesTop
  <2>4. NesHeld(Tail(pop), Tail(cuts))
    <3> DEFINE rest == Tail(cuts)
    <3>0. \A k \in 1..Len(rest) : k + 1 \in 1..Len(cuts) /\ rest[k] = cuts[k + 1]
                                  /\ cuts[k + 1] \in NesCuts
      <4> TAKE k \in 1..Len(rest)
      <4>1. k + 1 \in 1..Len(cuts) /\ k \in 1..(Len(cuts) - 1)
        BY <1>1
      <4> QED
        BY <1>1, <4>1, ElementOfSeq
    <3> HIDE DEF rest
    <3>1. ASSUME NEW k \in 1..Len(rest)
          PROVE  /\ Lies(Tail(pop), rest[k].height, Nes!Pc(rest[k].pc, FALSE))
                 /\ Lies(Tail(pop), rest[k].height + 1, Nes!P(rest[k].i))
      <4> DEFINE g == cuts[k + 1].height
                 c == Nes!Pc(rest[k].pc, FALSE)
                 d == Nes!P(rest[k].i)
      <4>1. g \in Nat /\ g + 2 <= h /\ k + 1 \in 1..Len(cuts)
        <5>1. 1 < k + 1
          OBVIOUS
        <5>2. g + 2 <= cuts[1].height
          BY <1>2, <3>0, <5>1 DEF NesHeld
        <5> QED
          BY <1>1, <3>0, <5>2 DEF h, NesCuts
      <4>2. Lies(q, g, c) /\ Lies(q, g + 1, d)
        BY <3>0 DEF NesHeld
      <4> HIDE DEF g, c, d
      <4>3. g < Len(q) - 1 /\ g + 1 < Len(q) - 1 /\ g < Len(pop) - 1 /\ g + 1 < Len(pop) - 1
        <5> DEFINE m == Len(q)
                   n == Len(pop)
        <5>1. m = h + 2 /\ n = m - 1 /\ h \in Nat
          BY <1>2, <1>3, <1>6
        <5> HIDE DEF m, n
        <5>2. g < m - 1 /\ g + 1 < m - 1 /\ g < n - 1 /\ g + 1 < n - 1
          BY <4>1, <5>1
        <5> QED
          BY <5>2 DEF m, n
      <4>4. Lies(pop, g, c) /\ Lies(pop, g + 1, d)
        BY <1>3, <4>2, <4>3, LiesBelow DEF pop
      <4>5. Lies(Tail(pop), g, c) /\ Lies(Tail(pop), g + 1, d)
        BY <1>3, <4>3, <4>4, LiesBelow
      <4> QED
        BY <3>0, <4>5 DEF g, c, d
    <3>2. ASSUME NEW j \in 1..Len(rest), NEW k \in 1..Len(rest), j < k
          PROVE  rest[k].height + 2 <= rest[j].height
      <4>1. j + 1 < k + 1
        BY <3>2
      <4> QED
        BY <3>0, <4>1 DEF NesHeld
    <3> QED
      BY <3>1, <3>2 DEF NesHeld, rest
  <2> QED
    BY <1>3, <1>6, <1>a, <2>2, <2>3, <2>4 DEF h, pop
<1>7. CASE Len(q) > h + 2
  <2>0. cuts = <<>> \/ Len(q) > Head(cuts).height + 2
    BY <1>7 DEF h
  <2>1. NesHeld(pop, cuts)
    BY <1>3, <2>0, NesPop DEF pop
  <2>2. Len(q) # h + 3
    <3> SUFFICES ASSUME Len(q) = h + 3 PROVE FALSE
      OBVIOUS
    <3>1. Len(q) - (h + 1) = 2
      BY <1>1, <1>2
    <3>2. q[2] = a
      BY <1>4, <3>1 DEF Lies
    <3> QED
      BY <1>a, <3>2
  <2>3. Len(pop) > h + 2
    BY <1>1, <1>2, <1>3, <1>7, <2>2
  <2>4. NesHeld(Tail(pop), cuts)
    BY <1>3, <2>1, <2>3, NesPop DEF h
  <2> QED
    BY <1>7, <2>4 DEF h, pop
<1>8. Len(q) = h + 2 \/ Len(q) > h + 2
  BY <1>1, <1>2, <1>5
<1> QED
  BY <1>6, <1>7, <1>8

LEMMA NesTypes ==
  ASSUME NesInv
  PROVE  /\ v1 \in NesCpus /\ Len(v1.stack) <= NesStack /\ v2 \in NesPpus
         /\ v3 \in NesFlags /\ v4 \in Seq(NesCuts) /\ NesHeld(v1.stack, v4)
         /\ v1.pc \in NesPlaces /\ v1.i \in BOOLEAN /\ v1.stack \in Seq(Nes!Items)
         /\ Len(v1.stack) \in Nat /\ NesStack \in Nat
<1>1. v1 \in NesCpus
  BY DEF NesInv
<1>2. v1.pc \in NesPlaces /\ v1.i \in BOOLEAN /\ v1.stack \in Seq(Nes!Items)
  BY <1>1 DEF NesCpus
<1>3. Len(v1.stack) \in Nat /\ NesStack \in Nat
  BY <1>2, LenProperties, ProcessorsFit DEF Nes!NesCpuAssumption
<1> QED
  BY <1>2, <1>3 DEF NesInv

\* What a step of the CPU leaves, once its devices have run too.
LEMMA NesEndsInv ==
  ASSUME NEW c \in NesCpus, NEW p \in NesPpus, NEW f \in NesFlags,
         Nes!Ends(c, p, f), Len(c.stack) <= NesStack, v4' \in Seq(NesCuts),
         NesHeld(c.stack, v4')
  PROVE  NesInv' /\ v1'.pc = c.pc /\ v1'.i = c.i
<1>1. /\ v1' \in NesCpus /\ v1'.pc = c.pc /\ v1'.i = c.i /\ v1'.stack = c.stack
      /\ v2' \in NesPpus /\ v3' \in NesFlags /\ v1'.line = Nes!Line(v3')
  BY NesEnds
<1> QED
  BY <1>1 DEF NesInv

LEMMA NesServed == ASSUME NesInv, Nes!Service PROVE NesInv'
<1> DEFINE q == v1.stack
<1>1. PICK p \in NesPlaces :
        Nes!Ends([Nes!Interrupted(v1) EXCEPT !.nmi = FALSE, !.pc = p], v2, v3)
  BY DEF Nes!Service
<1> DEFINE c == [Nes!Interrupted(v1) EXCEPT !.nmi = FALSE, !.pc = p]
           two == <<Nes!P(v1.i), Nes!Pc(v1.pc, FALSE)>> \o q
           cut == [pc |-> v1.pc, i |-> v1.i, height |-> Len(q)]
<1>2. Len(q) + 2 <= NesStack /\ v4' = <<cut>> \o v4
  BY DEF Nes!Service
<1>3. /\ two \in Seq(Nes!Items) /\ Len(two) = Len(q) + 2
      /\ v4' \in Seq(NesCuts) /\ NesHeld(two, v4')
  BY <1>2, NesCut, NesTypes
<1> DEFINE d == [v1 EXCEPT !.stack = two, !.i = TRUE]
<1>4. v1 \in NesCpus /\ c = [d EXCEPT !.nmi = FALSE, !.pc = p]
  BY NesTypes DEF Nes!Interrupted
<1> HIDE DEF two, c
<1>5. d \in NesCpus /\ d.stack = two
  BY <1>3, <1>4 DEF NesCpus
<1> HIDE DEF d
<1>6. c \in NesCpus /\ c.stack = two
  BY <1>4, <1>5 DEF NesCpus
<1>7. Nes!Ends(c, v2, v3)
  BY <1>1 DEF c
<1> HIDE DEF cut
<1>8. Len(c.stack) <= NesStack /\ NesHeld(c.stack, v4')
  BY <1>2, <1>3, <1>6
<1> QED
  BY <1>3, <1>6, <1>7, <1>8, NesTypes, NesEndsInv

LEMMA NesBroken == ASSUME NesInv, NEW p \in NesPlaces, Nes!Brk(p) PROVE NesInv'
<1> DEFINE q == v1.stack
           c == [Nes!Interrupted(v1) EXCEPT !.pc = p]
           two == <<Nes!P(v1.i), Nes!Pc(v1.pc, FALSE)>> \o q
<1>2. Len(q) + 2 <= NesStack /\ v4' = v4
  BY DEF Nes!Brk
<1>3. two \in Seq(Nes!Items) /\ Len(two) = Len(q) + 2 /\ NesHeld(two, v4)
  BY NesCut, NesTypes
<1> DEFINE d == [v1 EXCEPT !.stack = two, !.i = TRUE]
<1>4. v1 \in NesCpus /\ c = [d EXCEPT !.pc = p]
  BY NesTypes DEF Nes!Interrupted
<1> HIDE DEF two, c
<1>5. d \in NesCpus /\ d.stack = two
  BY <1>3, <1>4 DEF NesCpus
<1> HIDE DEF d
<1>6. c \in NesCpus /\ c.stack = two
  BY <1>4, <1>5 DEF NesCpus
<1>7. Nes!Ends(c, v2, v3)
  BY DEF Nes!Brk, c
<1>8. Len(c.stack) <= NesStack /\ NesHeld(c.stack, v4')
  BY <1>2, <1>3, <1>6
<1>9. v4' \in Seq(NesCuts)
  BY <1>2, NesTypes
<1> QED
  BY <1>6, <1>7, <1>8, <1>9, NesTypes, NesEndsInv

\* Instructions that leave the stack alone.
LEMMA NesKept ==
  ASSUME NesInv, NEW c \in NesCpus, c.stack = v1.stack, NEW p \in NesPpus,
         NEW f \in NesFlags, Nes!Ends(c, p, f), v4' = v4
  PROVE  NesInv'
<1>1. Len(c.stack) <= NesStack /\ NesHeld(c.stack, v4') /\ v4' \in Seq(NesCuts)
  BY NesTypes
<1> QED
  BY <1>1, NesEndsInv

\* Instructions that push an item or pop one.
LEMMA NesPushed ==
  ASSUME NesInv, NEW e \in Nes!Items, Len(v1.stack) < NesStack, NEW c \in NesCpus,
         c.stack = <<e>> \o v1.stack, Nes!Ends(c, v2, v3), v4' = v4
  PROVE  NesInv'
<1> DEFINE r == <<e>> \o v1.stack
<1>1. r \in Seq(Nes!Items) /\ Len(r) = Len(v1.stack) + 1 /\ NesHeld(r, v4)
  BY NesTypes, NesPush, Pushed
<1> HIDE DEF r
<1>2. Len(r) <= NesStack /\ c.stack = r /\ v4' \in Seq(NesCuts)
  BY <1>1, NesTypes DEF r
<1> QED
  BY <1>1, <1>2, NesTypes, NesEndsInv

LEMMA NesPopped ==
  ASSUME NesInv, v1.stack # <<>>, ~Nes!Kept, NEW c \in NesCpus,
         c.stack = Tail(v1.stack), Nes!Ends(c, v2, v3), v4' = v4
  PROVE  NesInv'
<1> DEFINE r == Tail(v1.stack)
<1>1. v4 = <<>> \/ Len(v1.stack) > Head(v4).height + 2
  <2> SUFFICES ASSUME v4 # <<>> PROVE Len(v1.stack) > Head(v4).height + 2
    OBVIOUS
  <2>1. Head(v4) \in NesCuts
    BY NesTypes, Popped
  <2>2. Head(v4).height \in Nat
    BY <2>1 DEF NesCuts
  <2> QED
    BY <2>2, NesTypes DEF Nes!Kept
<1>2. r \in Seq(Nes!Items) /\ Len(r) = Len(v1.stack) - 1 /\ NesHeld(r, v4)
  BY <1>1, NesTypes, NesPop, Popped
<1> HIDE DEF r
<1>3. Len(r) <= NesStack /\ c.stack = r /\ v4' \in Seq(NesCuts)
  BY <1>2, NesTypes DEF r
<1> QED
  BY <1>2, <1>3, NesTypes, NesEndsInv

LEMMA NesRti ==
  ASSUME NesInv, Nes!Rti PROVE NesInv' /\ Nes!ProgramResumes
<1> DEFINE q == v1.stack
           c == [v1 EXCEPT !.stack = Tail(Tail(@)), !.i = Head(v1.stack).i,
                           !.pc = v1.stack[2].at]
           f == Head(v4)
<1>1. /\ Head(q).kind = "p" /\ Len(q) > 1 /\ q[2].kind = "pc"
      /\ Nes!Ends(c, v2, v3) /\ v4' = IF Nes!Kept THEN Tail(v4) ELSE v4
  BY DEF Nes!Rti, Nes!Top
<1>2. /\ v1 \in NesCpus /\ q \in Seq(Nes!Items) /\ Len(q) \in Nat /\ NesStack \in Nat
      /\ Len(q) <= NesStack /\ v4 \in Seq(NesCuts) /\ NesHeld(q, v4)
  BY NesTypes
<1>3. /\ q # <<>> /\ Tail(Tail(q)) \in Seq(Nes!Items) /\ q[2] \in Nes!Items
      /\ Len(Tail(Tail(q))) = Len(q) - 2 /\ Head(q) \in Nes!Items
  BY <1>1, <1>2, Second, Popped
<1>4. Head(q).i \in BOOLEAN
  BY <1>1, <1>3 DEF Nes!Items, Nes!P, Nes!Pc
<1>5. q[2].at \in NesPlaces
  BY <1>1, <1>3 DEF Nes!Items, Nes!P, Nes!Pc
<1>6. /\ c \in NesCpus /\ c.stack = Tail(Tail(q)) /\ c.i = Head(q).i
      /\ c.pc = q[2].at /\ Len(c.stack) <= NesStack
  <2> DEFINE r == Tail(Tail(q))
             i == Head(q).i
             pc == q[2].at
  <2>1. c = [v1 EXCEPT !.stack = r, !.i = i, !.pc = pc]
    OBVIOUS
  <2>2. r \in Seq(Nes!Items) /\ i \in BOOLEAN /\ pc \in NesPlaces /\ Len(r) <= NesStack
    BY <1>2, <1>3, <1>4, <1>5
  <2> HIDE DEF r, i, pc, c
  <2>3. c \in NesCpus
    BY <1>2, <2>1, <2>2 DEF NesCpus
  <2>4. c.stack = r /\ c.i = i /\ c.pc = pc
    BY <1>2, <2>1, <2>2 DEF NesCpus
  <2> QED
    BY <2>2, <2>3, <2>4 DEF r, i, pc
<1> HIDE DEF c
<1>7. CASE v4 = <<>>
  <2>1. v4' = v4 /\ ~Nes!Kept
    BY <1>1, <1>7 DEF Nes!Kept
  <2>2. NesHeld(c.stack, v4') /\ v4' \in Seq(NesCuts)
    BY <1>2, <1>7, <2>1 DEF NesHeld
  <2> QED
    BY <1>1, <1>6, <2>1, <2>2, NesTypes, NesEndsInv DEF Nes!ProgramResumes
<1>8. CASE v4 # <<>>
  <2>1. f \in NesCuts /\ Tail(v4) \in Seq(NesCuts)
    BY <1>2, <1>8, Popped
  <2>2. f.height \in Nat
    BY <2>1 DEF NesCuts
  <2>3. \/ /\ Len(q) = f.height + 2
           /\ Head(q) = Nes!P(f.i) /\ q[2] = Nes!Pc(f.pc, FALSE)
           /\ NesHeld(Tail(Tail(q)), Tail(v4))
        \/ Len(q) > f.height + 2 /\ NesHeld(Tail(Tail(q)), v4)
    BY <1>1, <1>2, <1>8, NesReturn
  <2>4. CASE Len(q) = f.height + 2 /\ Nes!Kept
    <3>0. ~(Len(q) > f.height + 2) /\ v4' = Tail(v4)
      BY <1>1, <1>2, <2>2, <2>4
    <3>1. /\ Head(q) = Nes!P(f.i) /\ q[2] = Nes!Pc(f.pc, FALSE)
          /\ NesHeld(c.stack, v4') /\ v4' \in Seq(NesCuts)
      BY <1>6, <2>1, <2>3, <3>0
    <3>2. c.i = f.i /\ c.pc = f.pc
      BY <1>6, <3>1 DEF Nes!P, Nes!Pc
    <3> QED
      BY <1>1, <1>6, <3>1, <3>2, NesTypes, NesEndsInv DEF Nes!ProgramResumes
  <2>5. CASE Len(q) > f.height + 2 /\ ~Nes!Kept
    <3>0. ~(Len(q) = f.height + 2) /\ v4' = v4
      BY <1>1, <1>2, <2>2, <2>5
    <3>1. NesHeld(c.stack, v4') /\ v4' \in Seq(NesCuts)
      BY <1>2, <1>6, <2>3, <3>0
    <3> QED
      BY <1>1, <1>6, <2>5, <3>1, NesTypes, NesEndsInv DEF Nes!ProgramResumes
  <2> HIDE DEF f, q
  <2>6. Nes!Kept <=> Len(q) <= f.height + 2
    BY <1>8 DEF Nes!Kept, f, q
  <2>7. (Len(q) = f.height + 2 => Nes!Kept) /\ (Len(q) > f.height + 2 => ~Nes!Kept)
    BY <1>2, <2>2, <2>6
  <2>8. Len(q) = f.height + 2 \/ Len(q) > f.height + 2
    BY <2>3
  <2> QED
    BY <2>4, <2>5, <2>7, <2>8
<1> QED
  BY <1>7, <1>8

LEMMA NesAccess == ASSUME NesInv, Nes!Access PROVE NesInv'
<1>1. v1 \in NesCpus /\ v2 \in NesPpus /\ v3 \in NesFlags /\ v4' = v4
  BY NesTypes DEF Nes!Access
<1>2. ASSUME NEW p \in Nes!PpuAccessed(v2), Nes!Ends(v1, p, v3) PROVE NesInv'
  <2>1. p \in NesPpus
    <3>1. \A b \in BOOLEAN : /\ [v2 EXCEPT !.on = b] \in NesPpus
                             /\ [v2 EXCEPT !.drawing = b] \in NesPpus
                             /\ [v2 EXCEPT !.vblank = b] \in NesPpus
      BY <1>1 DEF NesPpus
    <3>2. (~v2.on) \in BOOLEAN /\ (~v2.drawing) \in BOOLEAN
      OBVIOUS
    <3>3. \A x \in NesPpus : Nes!Updated(x) \in NesPpus
      <4> TAKE x \in NesPpus
      <4>1. Nes!Level(x) \in BOOLEAN
        BY DEF NesPpus, Nes!Level
      <4> QED
        BY <4>1 DEF NesPpus, Nes!Updated
    <3>4. Nes!Ended(v2) \in NesPpus
      BY <3>1, <3>3 DEF Nes!Ended
    <3>5. [v2 EXCEPT !.on = ~@] \in NesPpus /\ [v2 EXCEPT !.drawing = ~@] \in NesPpus
      BY <3>1, <3>2
    <3> QED
      BY <3>4, <3>5 DEF Nes!PpuAccessed
  <2> QED
    BY <1>1, <1>2, <2>1, NesKept
<1>3. ASSUME NEW f \in Nes!FlagsAccessed(v3), Nes!Ends(v1, v2, f) PROVE NesInv'
  <2>1. f \in NesFlags
    BY <1>1 DEF Nes!FlagsAccessed, NesFlags
  <2> QED
    BY <1>1, <1>3, <2>1, NesKept
<1>4. ASSUME Nes!Ends([v1 EXCEPT !.stalled = TRUE], v2, v3) PROVE NesInv'
  <2> DEFINE c == [v1 EXCEPT !.stalled = TRUE]
  <2>1. c \in NesCpus /\ c.stack = v1.stack
    BY <1>1 DEF NesCpus
  <2> HIDE DEF c
  <2> QED
    BY <1>1, <1>4, <2>1, NesKept DEF c
<1> QED
  BY <1>2, <1>3, <1>4 DEF Nes!Access

LEMMA NesReset == ASSUME NesInv, Nes!NesReset PROVE NesInv'
<1>1. PICK p \in NesPlaces :
        v1' = [pc |-> p, i |-> TRUE, stack |-> << >>, nmi |-> FALSE,
               line |-> FALSE, stalled |-> FALSE]
  BY DEF Nes!NesReset
<1>2. /\ v3' = [frame |-> FALSE, inhibit |-> FALSE, mapper |-> FALSE, enabled |-> FALSE]
      /\ v4' = <<>> /\ v2' = v2
  BY DEF Nes!NesReset
<1>3. <<>> \in Seq(Nes!Items) /\ <<>> \in Seq(NesCuts) /\ Len(<<>>) = 0
  BY EmptySeq
<1>4. v1'.stack = <<>> /\ v1'.line = FALSE
  BY <1>1
<1>5. v1' \in NesCpus
  BY <1>1, <1>3 DEF NesCpus
<1>6. v3' \in NesFlags /\ v2' \in NesPpus
  BY <1>2, NesTypes DEF NesFlags
<1>7. Nes!Line(v3') = FALSE
  BY <1>2 DEF Nes!Line
<1>8. v1'.line = Nes!Line(v3')
  BY <1>4, <1>7
<1>9. NesHeld(v1'.stack, v4') /\ v4' \in Seq(NesCuts)
  BY <1>2, <1>3 DEF NesHeld
<1>10. Len(v1'.stack) <= NesStack
  BY <1>3, <1>4, NesTypes
<1> QED
  BY <1>5, <1>6, <1>8, <1>9, <1>10 DEF NesInv

LEMMA NesStep == ASSUME NesInv, Nes!Next PROVE NesInv'
<1>1. v1 \in NesCpus /\ v2 \in NesPpus /\ v3 \in NesFlags
  BY NesTypes
<1>2. CASE Nes!Stall
  <2>1. PICK more \in BOOLEAN : Nes!Ends([v1 EXCEPT !.stalled = more], v2, v3)
    BY <1>2 DEF Nes!Stall
  <2> DEFINE c == [v1 EXCEPT !.stalled = more]
  <2>2. c \in NesCpus /\ c.stack = v1.stack /\ v4' = v4
    BY <1>1, <1>2 DEF NesCpus, Nes!Stall
  <2> HIDE DEF c
  <2> QED
    BY <1>1, <2>1, <2>2, NesKept DEF c
<1>3. ASSUME NEW p \in NesPlaces, Nes!Plain(p) PROVE NesInv'
  <2> DEFINE c == [v1 EXCEPT !.pc = p]
  <2>1. c \in NesCpus /\ c.stack = v1.stack
    BY <1>1 DEF NesCpus
  <2>2. Nes!Ends(c, v2, v3) /\ v4' = v4
    BY <1>3 DEF Nes!Plain
  <2> HIDE DEF c
  <2> QED
    BY <1>1, <2>1, <2>2, NesKept
<1>4. ASSUME NEW v \in BOOLEAN, Nes!SetI(v) PROVE NesInv'
  <2> DEFINE c == [v1 EXCEPT !.i = v]
  <2>1. c \in NesCpus /\ c.stack = v1.stack
    BY <1>1 DEF NesCpus
  <2>2. Nes!Ends(c, v2, v3) /\ v4' = v4
    BY <1>4 DEF Nes!SetI
  <2> HIDE DEF c
  <2> QED
    BY <1>1, <2>1, <2>2, NesKept
<1>5. ASSUME NEW p \in NesPlaces, Nes!Jsr(p) PROVE NesInv'
  <2> DEFINE e == Nes!Pc(v1.pc, TRUE)
             r == <<e>> \o v1.stack
             c == [v1 EXCEPT !.stack = r, !.pc = p]
  <2>1. e \in Nes!Items
    BY NesTypes, NesItems
  <2>2. Nes!Ends(c, v2, v3) /\ v4' = v4 /\ Len(v1.stack) < NesStack
    BY <1>5 DEF Nes!Jsr
  <2> HIDE DEF e
  <2>3. r \in Seq(Nes!Items)
    BY <2>1, NesTypes, Pushed
  <2> HIDE DEF r
  <2>4. c \in NesCpus /\ c.stack = r
    BY <1>1, <2>3 DEF NesCpus
  <2> HIDE DEF c
  <2> QED
    BY <2>1, <2>2, <2>4, NesPushed DEF r
<1>6. CASE Nes!Php
  <2> DEFINE e == Nes!P(v1.i)
             r == <<e>> \o v1.stack
             c == [v1 EXCEPT !.stack = r]
  <2>1. e \in Nes!Items
    BY NesTypes, NesItems
  <2>2. Nes!Ends(c, v2, v3) /\ v4' = v4 /\ Len(v1.stack) < NesStack
    BY <1>6 DEF Nes!Php
  <2> HIDE DEF e
  <2>3. r \in Seq(Nes!Items)
    BY <2>1, NesTypes, Pushed
  <2> HIDE DEF r
  <2>4. c \in NesCpus /\ c.stack = r
    BY <1>1, <2>3 DEF NesCpus
  <2> HIDE DEF c
  <2> QED
    BY <2>1, <2>2, <2>4, NesPushed DEF r
<1>7. CASE Nes!Rts
  <2> DEFINE r == Tail(v1.stack)
             pc == Head(v1.stack).at
             c == [v1 EXCEPT !.stack = r, !.pc = pc]
  <2>1. /\ v1.stack # <<>> /\ Head(v1.stack).kind = "pc" /\ ~Nes!Kept
        /\ Nes!Ends(c, v2, v3) /\ v4' = v4
    BY <1>7 DEF Nes!Rts, Nes!Top
  <2>2. r \in Seq(Nes!Items) /\ Head(v1.stack) \in Nes!Items
    BY <2>1, NesTypes, Popped
  <2>3. pc \in NesPlaces
    BY <2>1, <2>2 DEF Nes!Items, Nes!P, Nes!Pc
  <2> HIDE DEF r, pc
  <2>4. c \in NesCpus /\ c.stack = r
    BY <1>1, <2>2, <2>3 DEF NesCpus
  <2> HIDE DEF c
  <2> QED
    BY <2>1, <2>4, NesPopped DEF r
<1>8. CASE Nes!Plp
  <2> DEFINE r == Tail(v1.stack)
             i == Head(v1.stack).i
             c == [v1 EXCEPT !.stack = r, !.i = i]
  <2>1. /\ v1.stack # <<>> /\ Head(v1.stack).kind = "p" /\ ~Nes!Kept
        /\ Nes!Ends(c, v2, v3) /\ v4' = v4
    BY <1>8 DEF Nes!Plp, Nes!Top
  <2>2. r \in Seq(Nes!Items) /\ Head(v1.stack) \in Nes!Items
    BY <2>1, NesTypes, Popped
  <2>3. i \in BOOLEAN
    BY <2>1, <2>2 DEF Nes!Items, Nes!P, Nes!Pc
  <2> HIDE DEF r, i
  <2>4. c \in NesCpus /\ c.stack = r
    BY <1>1, <2>2, <2>3 DEF NesCpus
  <2> HIDE DEF c
  <2> QED
    BY <2>1, <2>4, NesPopped DEF r
<1> QED
  BY <1>2, <1>3, <1>4, <1>5, <1>6, <1>7, <1>8, NesServed, NesBroken, NesRti, NesAccess,
     NesReset DEF Nes!Next, Nes!Execute

LEMMA NesIdle == ASSUME NesInv, UNCHANGED <<v1, v2, v3, v4>> PROVE NesInv'
  BY DEF NesInv

LEMMA NesInvImplies ==
  ASSUME NesInv PROVE Nes!TypeOK /\ Nes!LineFresh
  BY DEF NesInv, NesCpus, NesPpus, NesFlags, Nes!TypeOK, Nes!LineFresh

LEMMA NesResumes == ASSUME NesInv PROVE Nes!ProgramResumes
  BY NesRti DEF Nes!ProgramResumes

(***************************************************************************)
(* The Mega Drive's bus and Z80.                                           *)
(***************************************************************************)

Z80Cpus == [pc : Z80Spots, iff1 : BOOLEAN, iff2 : BOOLEAN, halted : BOOLEAN,
            pend : BOOLEAN, stack : Seq(Z80Spots)]
Buses == [turn : {"68k", "z80"}, held : BOOLEAN, reset : BOOLEAN]
Z80Ints == [v : BOOLEAN, h : BOOLEAN, z : BOOLEAN, ym : BOOLEAN,
            venab : BOOLEAN, henab : BOOLEAN, line : {0, 2, 4, 6}]
Z80Cuts == [pc : Z80Spots, deep : Nat]

\* The addresses the interrupts pushed lie where they pushed them.
Z80Held(stack, marks) ==
  /\ \A k \in 1..Len(marks) : Lies(stack, marks[k].deep, marks[k].pc)
  /\ \A j, k \in 1..Len(marks) : j < k => marks[k].deep < marks[j].deep

BusInv ==
  /\ v1 \in Z80Cpus /\ Len(v1.stack) <= MaxZ80
  /\ v2 \in Buses /\ v3 \in Z80Ints /\ v4 \in Seq(Z80Cuts)
  /\ v3.line \in {4, 6} => v3.line = Bus!Level(v3)
  /\ Z80Held(v1.stack, v4)

LEMMA BusTypes ==
  ASSUME BusInv
  PROVE  /\ v1 \in Z80Cpus /\ Len(v1.stack) <= MaxZ80 /\ v2 \in Buses /\ v3 \in Z80Ints
         /\ v4 \in Seq(Z80Cuts) /\ Z80Held(v1.stack, v4)
         /\ v3.line \in {4, 6} => v3.line = Bus!Level(v3)
         /\ v1.stack \in Seq(Z80Spots) /\ Len(v1.stack) \in Nat /\ MaxZ80 \in Nat \ {0}
<1>1. v1 \in Z80Cpus
  BY DEF BusInv
<1>2. v1.stack \in Seq(Z80Spots)
  BY <1>1 DEF Z80Cpus
<1>3. Len(v1.stack) \in Nat /\ MaxZ80 \in Nat \ {0}
  BY <1>2, LenProperties, ProcessorsFit DEF Bus!MdBusAssumption
<1> QED
  BY <1>2, <1>3 DEF BusInv

LEMMA Z80Started ==
  /\ Bus!Z80Reset(Bus!First) \in Z80Cpus /\ Bus!Z80Reset(Bus!First).stack = <<>>
  /\ <<>> \in Seq(Z80Cuts) /\ Len(<<>>) = 0 /\ Z80Held(<<>>, <<>>)
<1>1. Bus!First \in Z80Spots
  BY ProcessorsFit DEF Bus!MdBusAssumption, Bus!First
<1>2. <<>> \in Seq(Z80Spots) /\ <<>> \in Seq(Z80Cuts) /\ Len(<<>>) = 0
  BY EmptySeq
<1>3. Bus!Z80Reset(Bus!First) \in Z80Cpus
  BY <1>1, <1>2 DEF Bus!Z80Reset, Z80Cpus
<1>4. Bus!Z80Reset(Bus!First).stack = <<>>
  BY DEF Bus!Z80Reset
<1>5. Z80Held(<<>>, <<>>)
  BY <1>2 DEF Z80Held
<1> QED
  BY <1>2, <1>3, <1>4, <1>5

LEMMA BusInit == ASSUME Bus!Init PROVE BusInv
<1>1. /\ v1 = Bus!Z80Reset(Bus!First) /\ v4 = <<>>
      /\ v2 = [turn |-> "68k", held |-> FALSE, reset |-> TRUE]
      /\ v3 = [v |-> FALSE, h |-> FALSE, z |-> FALSE, ym |-> FALSE,
               venab |-> FALSE, henab |-> FALSE, line |-> 0]
  BY DEF Bus!Init
<1>2. v2 \in Buses /\ v3 \in Z80Ints /\ v3.line = 0
  BY <1>1 DEF Buses, Z80Ints
<1>3. MaxZ80 \in Nat
  BY ProcessorsFit DEF Bus!MdBusAssumption
<1> QED
  BY <1>1, <1>2, <1>3, Z80Started DEF BusInv

LEMMA BusLevels ==
  ASSUME NEW n \in Z80Ints
  PROVE  /\ Bus!Level(n) \in {0, 2, 4, 6}
         /\ [n EXCEPT !.line = Bus!Level(n)] \in Z80Ints
         /\ [n EXCEPT !.line = Bus!Level(n)].line
              = Bus!Level([n EXCEPT !.line = Bus!Level(n)])
<1>1. Bus!Level(n) \in {0, 2, 4, 6}
  BY DEF Bus!Level
<1> DEFINE l == Bus!Level(n)
           m == [n EXCEPT !.line = l]
<1>2. \A x \in {0, 2, 4, 6} : /\ [n EXCEPT !.line = x] \in Z80Ints
                              /\ [n EXCEPT !.line = x].line = x
                              /\ [n EXCEPT !.line = x].v = n.v
                              /\ [n EXCEPT !.line = x].h = n.h
                              /\ [n EXCEPT !.line = x].ym = n.ym
  BY DEF Z80Ints
<1>3. m \in Z80Ints /\ m.line = l /\ m.v = n.v /\ m.h = n.h /\ m.ym = n.ym
  BY <1>1, <1>2
<1> HIDE DEF m
<1>4. Bus!Level(m) = l
  BY <1>3 DEF Bus!Level
<1> QED
  BY <1>1, <1>3, <1>4 DEF m

\* The steps that leave the Z80's stack alone.
LEMMA BusKept ==
  ASSUME BusInv, v1' \in Z80Cpus, v1'.stack = v1.stack, v4' = v4,
         v2' \in Buses, v3' \in Z80Ints, v3'.line \in {4, 6} => v3'.line = Bus!Level(v3')
  PROVE  BusInv'
<1>1. Len(v1'.stack) <= MaxZ80 /\ Z80Held(v1'.stack, v4') /\ v4' \in Seq(Z80Cuts)
  BY BusTypes
<1> QED
  BY <1>1 DEF BusInv

\* An item pushed, by an instruction and by an interrupt.
LEMMA Z80Pushed ==
  ASSUME NEW q \in Seq(Z80Spots), NEW marks \in Seq(Z80Cuts), Z80Held(q, marks),
         NEW pc \in Z80Spots
  PROVE  LET mark == [pc |-> pc, deep |-> Len(q)]
         IN /\ Z80Held(<<pc>> \o q, marks)
            /\ <<mark>> \o marks \in Seq(Z80Cuts)
            /\ Z80Held(<<pc>> \o q, <<mark>> \o marks)
<1> DEFINE mark == [pc |-> pc, deep |-> Len(q)]
           r == <<pc>> \o q
           all == <<mark>> \o marks
<1>0. Len(q) \in Nat /\ Len(marks) \in Nat
  BY LenProperties
<1>1. Lies(r, Len(q), pc) /\ Z80Held(r, marks)
  BY LiesPushed DEF Z80Held
<1>2. mark \in Z80Cuts /\ mark.pc = pc /\ mark.deep = Len(q)
  BY <1>0 DEF Z80Cuts
<1> HIDE DEF mark, r
<1>3. /\ all \in Seq(Z80Cuts) /\ Len(all) = Len(marks) + 1 /\ all[1] = mark
      /\ \A k \in 1..Len(marks) : all[k + 1] = marks[k]
  BY <1>2, Pushed
<1> HIDE DEF all
<1>4. \A k \in 1..Len(all) : k = 1 \/ (k - 1 \in 1..Len(marks) /\ all[k] = marks[k - 1])
  <2> SUFFICES ASSUME NEW k \in 1..Len(all), k # 1
               PROVE  k - 1 \in 1..Len(marks) /\ all[k] = marks[k - 1]
    OBVIOUS
  <2>1. k - 1 \in 1..Len(marks) /\ (k - 1) + 1 = k
    BY <1>0, <1>3
  <2> QED
    BY <1>3, <2>1
<1>5. \A k \in 1..Len(marks) : marks[k].deep < Len(q)
  BY <1>0 DEF Z80Held, Lies
<1>6. Z80Held(r, all)
  <2>1. ASSUME NEW k \in 1..Len(all) PROVE Lies(r, all[k].deep, all[k].pc)
    <3>1. CASE k = 1
      BY <1>1, <1>2, <1>3, <3>1
    <3>2. CASE k # 1
      BY <1>1, <1>4, <3>2 DEF Z80Held
    <3> QED
      BY <3>1, <3>2
  <2>2. ASSUME NEW j \in 1..Len(all), NEW k \in 1..Len(all), j < k
        PROVE  all[k].deep < all[j].deep
    <3>1. k # 1 /\ k - 1 \in 1..Len(marks) /\ all[k] = marks[k - 1]
      BY <1>4, <2>2
    <3>2. CASE j = 1
      BY <1>2, <1>3, <1>5, <3>1, <3>2
    <3>3. CASE j # 1
      <4>1. j - 1 \in 1..Len(marks) /\ all[j] = marks[j - 1] /\ j - 1 < k - 1
        BY <1>4, <2>2, <3>3
      <4> QED
        BY <3>1, <4>1 DEF Z80Held
    <3> QED
      BY <3>2, <3>3
  <2> QED
    BY <2>1, <2>2 DEF Z80Held
<1> QED
  BY <1>1, <1>3, <1>6 DEF r, all, mark

\* A RET pops the last interrupt's address, or another that lies above it.
LEMMA Z80Popped ==
  ASSUME NEW q \in Seq(Z80Spots), q # <<>>, NEW marks \in Seq(Z80Cuts),
         Z80Held(q, marks)
  PROVE  \/ marks = <<>> /\ Z80Held(Tail(q), marks)
         \/ /\ marks # <<>> /\ Len(q) = Head(marks).deep + 1
            /\ Head(q) = Head(marks).pc /\ Z80Held(Tail(q), Tail(marks))
         \/ /\ marks # <<>> /\ Len(q) > Head(marks).deep + 1
            /\ Z80Held(Tail(q), marks)
<1>0. Len(q) \in Nat /\ Len(marks) \in Nat
  BY LenProperties
<1>1. \A k \in 1..Len(marks) :
        marks[k].deep \in Nat /\ Lies(q, marks[k].deep, marks[k].pc)
        /\ Len(q) > marks[k].deep
  BY DEF Z80Held, Lies
<1>2. ASSUME NEW k \in 1..Len(marks), marks[k].deep < Len(q) - 1
      PROVE  Lies(Tail(q), marks[k].deep, marks[k].pc)
  BY <1>1, <1>2, LiesBelow
<1>3. CASE marks = <<>>
  BY <1>3 DEF Z80Held
<1>4. CASE marks # <<>>
  <2>1. /\ 1 \in 1..Len(marks) /\ Head(marks) = marks[1]
        /\ Tail(marks) \in Seq(Z80Cuts) /\ Len(Tail(marks)) = Len(marks) - 1
        /\ \A k \in 1..(Len(marks) - 1) : Tail(marks)[k] = marks[k + 1]
    BY <1>0, <1>4, Popped
  <2>2. CASE Len(q) = marks[1].deep + 1
    <3>1. Head(q) = marks[1].pc
      <4>1. marks[1].deep = Len(q) - 1 /\ Lies(q, marks[1].deep, marks[1].pc)
        BY <1>0, <1>1, <2>1, <2>2
      <4> QED
        BY <4>1, LiesTop
    <3> DEFINE rest == Tail(marks)
    <3>2. \A k \in 1..Len(rest) : k + 1 \in 1..Len(marks) /\ rest[k] = marks[k + 1]
      <4> TAKE k \in 1..Len(rest)
      <4>1. k + 1 \in 1..Len(marks) /\ k \in 1..(Len(marks) - 1)
        BY <1>0, <2>1
      <4> QED
        BY <2>1, <4>1
    <3> HIDE DEF rest
    <3>3. ASSUME NEW k \in 1..Len(rest) PROVE Lies(Tail(q), rest[k].deep, rest[k].pc)
      <4>1. 1 < k + 1 /\ k + 1 \in 1..Len(marks)
        BY <3>2
      <4>2. marks[k + 1].deep < marks[1].deep
        BY <2>1, <4>1 DEF Z80Held
      <4>3. marks[k + 1].deep < Len(q) - 1
        BY <1>0, <1>1, <2>1, <2>2, <4>1, <4>2
      <4> QED
        BY <1>2, <3>2, <4>1, <4>3
    <3>4. ASSUME NEW j \in 1..Len(rest), NEW k \in 1..Len(rest), j < k
          PROVE  rest[k].deep < rest[j].deep
      <4>1. j + 1 < k + 1
        BY <3>4
      <4> QED
        BY <3>2, <4>1 DEF Z80Held
    <3>5. Z80Held(Tail(q), rest)
      BY <3>3, <3>4 DEF Z80Held
    <3> QED
      BY <1>4, <2>1, <2>2, <3>1, <3>5 DEF rest
  <2>3. CASE Len(q) > marks[1].deep + 1
    <3>1. ASSUME NEW k \in 1..Len(marks) PROVE marks[k].deep < Len(q) - 1
      <4>1. k = 1 \/ marks[k].deep < marks[1].deep
        BY <2>1 DEF Z80Held
      <4> QED
        BY <1>0, <1>1, <2>1, <2>3, <4>1
    <3>2. Z80Held(Tail(q), marks)
      BY <1>2, <3>1 DEF Z80Held
    <3> QED
      BY <1>4, <2>1, <2>3, <3>2
  <2>4. Len(q) = marks[1].deep + 1 \/ Len(q) > marks[1].deep + 1
    BY <1>0, <1>1, <2>1
  <2> QED
    BY <2>2, <2>3, <2>4
<1> QED
  BY <1>3, <1>4

LEMMA BusEnabled ==
  ASSUME BusInv, NEW a \in BOOLEAN, NEW b \in BOOLEAN, Bus!Enable(a, b) PROVE BusInv'
<1>1. v3 \in Z80Ints /\ (v3.line \in {4, 6} => v3.line = Bus!Level(v3))
  BY BusTypes
<1>2. v3' = [v3 EXCEPT !.venab = a, !.henab = b] /\ UNCHANGED <<v1, v2, v4>>
  BY DEF Bus!Enable
<1>3. /\ v3' \in Z80Ints /\ v3'.line = v3.line /\ v3'.v = v3.v /\ v3'.h = v3.h
      /\ v3'.ym = v3.ym
  BY <1>1, <1>2 DEF Z80Ints
<1>4. Bus!Level(v3') = Bus!Level(v3)
  BY <1>3 DEF Bus!Level
<1> QED
  BY <1>1, <1>2, <1>3, <1>4, BusTypes, BusKept

LEMMA BusAcknowledged == ASSUME BusInv, Bus!StatusRead PROVE BusInv'
<1>1. v3 \in Z80Ints
  BY BusTypes
<1>2. v3' = [v3 EXCEPT !.v = FALSE, !.h = FALSE, !.z = FALSE, !.line = 0]
      /\ UNCHANGED <<v1, v2, v4>>
  BY DEF Bus!StatusRead
<1>3. v3' \in Z80Ints
  BY <1>1, <1>2 DEF Z80Ints
<1>4. v3'.line = 0
  BY <1>1, <1>2 DEF Z80Ints
<1> QED
  BY <1>2, <1>3, <1>4, BusTypes, BusKept

LEMMA BusChunk == ASSUME BusInv, Bus!EndChunk PROVE BusInv'
<1>1. v2 \in Buses /\ v3 \in Z80Ints
  BY BusTypes
<1>2. PICK ym \in BOOLEAN :
        v3' = [[v3 EXCEPT !.ym = ym] EXCEPT !.line = Bus!Level([v3 EXCEPT !.ym = ym])]
  BY DEF Bus!EndChunk
<1> DEFINE n == [v3 EXCEPT !.ym = ym]
<1>3. n \in Z80Ints
  BY <1>1 DEF Z80Ints
<1>4. v3' = [n EXCEPT !.line = Bus!Level(n)]
  BY <1>2
<1> HIDE DEF n
<1>5. v3' \in Z80Ints /\ v3'.line = Bus!Level(v3')
  BY <1>3, <1>4, BusLevels
<1>6. v2' = [v2 EXCEPT !.turn = "68k"] /\ UNCHANGED <<v1, v4>>
  BY DEF Bus!EndChunk
<1>7. v2' \in Buses
  BY <1>1, <1>6 DEF Buses
<1> QED
  BY <1>5, <1>6, <1>7, BusTypes, BusKept

LEMMA BusLineEnds ==
  ASSUME BusInv, NEW a \in BOOLEAN, NEW b \in BOOLEAN, Bus!EndOfLine(a, b) PROVE BusInv'
<1>1. v1 \in Z80Cpus /\ v3 \in Z80Ints
  BY BusTypes
<1> DEFINE x == v3.v \/ (a /\ v3.venab)
           y == v3.z \/ (a /\ v3.venab)
           z == v3.h \/ (b /\ v3.henab)
           n == [v3 EXCEPT !.v = x, !.z = y, !.h = z]
<1>2. v3' = [n EXCEPT !.line = Bus!Level(n)] /\ v1' = [v1 EXCEPT !.pend = n.z]
      /\ UNCHANGED <<v2, v4>>
  BY DEF Bus!EndOfLine
<1>3. x \in BOOLEAN /\ y \in BOOLEAN /\ z \in BOOLEAN
  BY <1>1 DEF Z80Ints
<1> HIDE DEF x, y, z
<1>4. n \in Z80Ints
  BY <1>1, <1>3 DEF Z80Ints
<1>5. n.z \in BOOLEAN
  BY <1>4 DEF Z80Ints
<1> HIDE DEF n
<1>6. v3' \in Z80Ints /\ v3'.line = Bus!Level(v3')
  BY <1>2, <1>4, BusLevels
<1>7. v1' \in Z80Cpus /\ v1'.stack = v1.stack
  BY <1>1, <1>2, <1>5 DEF Z80Cpus
<1> QED
  BY <1>2, <1>6, <1>7, BusTypes, BusKept

LEMMA Z80Interrupted ==
  ASSUME BusInv, NEW v \in Z80Spots, Bus!Interrupt(v) PROVE BusInv'
<1> DEFINE q == v1.stack
           r == <<v1.pc>> \o q
           mark == [pc |-> v1.pc, deep |-> Len(q)]
<1>1. /\ v1 \in Z80Cpus /\ q \in Seq(Z80Spots) /\ v4 \in Seq(Z80Cuts) /\ Z80Held(q, v4)
      /\ Len(q) \in Nat /\ MaxZ80 \in Nat
  BY BusTypes
<1>2. /\ v1' = [v1 EXCEPT !.pend = FALSE, !.iff1 = FALSE, !.iff2 = FALSE, !.pc = v,
                          !.stack = r]
      /\ v4' = <<mark>> \o v4 /\ UNCHANGED <<v2, v3>> /\ Len(q) < MaxZ80
  BY DEF Bus!Interrupt
<1>3. v1.pc \in Z80Spots
  BY <1>1 DEF Z80Cpus
<1>4. r \in Seq(Z80Spots) /\ Len(r) = Len(q) + 1
  BY <1>1, <1>3, Pushed
<1>5. v4' \in Seq(Z80Cuts) /\ Z80Held(r, v4')
  BY <1>1, <1>2, <1>3, Z80Pushed
<1> HIDE DEF r, mark
<1>6. v1' \in Z80Cpus
  BY <1>1, <1>2, <1>4 DEF Z80Cpus
<1>7. v1'.stack = r
  BY <1>1, <1>2 DEF Z80Cpus
<1>8. Len(r) <= MaxZ80
  BY <1>1, <1>2, <1>4
<1> QED
  BY <1>2, <1>5, <1>6, <1>7, <1>8, BusTypes DEF BusInv

LEMMA Z80Called ==
  ASSUME BusInv, NEW p \in Z80Spots, Bus!Z80Call(p) PROVE BusInv'
<1> DEFINE q == v1.stack
           r == <<v1.pc>> \o q
<1>1. /\ v1 \in Z80Cpus /\ q \in Seq(Z80Spots) /\ v4 \in Seq(Z80Cuts) /\ Z80Held(q, v4)
      /\ Len(q) \in Nat /\ MaxZ80 \in Nat
  BY BusTypes
<1>2. /\ v1' = [v1 EXCEPT !.pc = p, !.stack = r]
      /\ UNCHANGED <<v2, v3, v4>> /\ Len(q) < MaxZ80
  BY DEF Bus!Z80Call
<1>3. v1.pc \in Z80Spots
  BY <1>1 DEF Z80Cpus
<1>4. r \in Seq(Z80Spots) /\ Len(r) = Len(q) + 1
  BY <1>1, <1>3, Pushed
<1>5. Z80Held(r, v4)
  BY <1>1, <1>3, Z80Pushed
<1> HIDE DEF r
<1>6. v1' \in Z80Cpus
  BY <1>1, <1>2, <1>4 DEF Z80Cpus
<1>7. v1'.stack = r
  BY <1>1, <1>2 DEF Z80Cpus
<1>8. Len(r) <= MaxZ80
  BY <1>1, <1>2, <1>4
<1> QED
  BY <1>1, <1>2, <1>5, <1>6, <1>7, <1>8, BusTypes DEF BusInv

LEMMA Z80Returned ==
  ASSUME BusInv, NEW reti \in BOOLEAN, Bus!Ret(reti)
  PROVE  BusInv' /\ (Bus!Served => v1'.pc = Head(v4).pc)
<1> DEFINE q == v1.stack
           t == Tail(q)
           a == Head(q)
           i == IF reti THEN v1.iff2 ELSE v1.iff1
<1>1. /\ v1 \in Z80Cpus /\ q \in Seq(Z80Spots) /\ v4 \in Seq(Z80Cuts) /\ Z80Held(q, v4)
      /\ Len(q) \in Nat /\ MaxZ80 \in Nat /\ Len(q) <= MaxZ80
  BY BusTypes
<1>2. /\ v1' = [v1 EXCEPT !.pc = a, !.stack = t, !.iff1 = i]
      /\ v4' = (IF Bus!Served THEN Tail(v4) ELSE v4) /\ UNCHANGED <<v2, v3>> /\ q # <<>>
  BY DEF Bus!Ret
<1>3. i \in BOOLEAN
  BY <1>1 DEF Z80Cpus
<1>4. t \in Seq(Z80Spots) /\ Len(t) = Len(q) - 1 /\ a \in Z80Spots
  BY <1>1, <1>2, Popped
<1>5. \/ v4 = <<>> /\ Z80Held(t, v4)
      \/ v4 # <<>> /\ Len(q) = Head(v4).deep + 1 /\ a = Head(v4).pc /\ Z80Held(t, Tail(v4))
      \/ v4 # <<>> /\ Len(q) > Head(v4).deep + 1 /\ Z80Held(t, v4)
  BY <1>1, <1>2, Z80Popped
<1>6. Bus!Served <=> v4 # <<>> /\ Len(q) = Head(v4).deep + 1
  BY DEF Bus!Served
<1>7. v4 # <<>> => Tail(v4) \in Seq(Z80Cuts) /\ Head(v4).deep \in Nat
  <2> SUFFICES ASSUME v4 # <<>> PROVE Tail(v4) \in Seq(Z80Cuts) /\ Head(v4).deep \in Nat
    OBVIOUS
  <2>1. Tail(v4) \in Seq(Z80Cuts) /\ Head(v4) \in Z80Cuts
    BY <1>1, Popped
  <2> QED
    BY <2>1 DEF Z80Cuts
<1> HIDE DEF t, a, i
<1>8. v1' \in Z80Cpus /\ v1'.stack = t /\ v1'.pc = a
  <2>1. v1' \in Z80Cpus
    BY <1>1, <1>2, <1>3, <1>4 DEF Z80Cpus
  <2> QED
    BY <1>1, <1>2, <2>1 DEF Z80Cpus
<1> HIDE DEF q
<1>9. Z80Held(t, v4') /\ v4' \in Seq(Z80Cuts)
  <2>1. CASE Bus!Served
    <3>1. ~(Len(q) > Head(v4).deep + 1) /\ v4 # <<>>
      BY <1>1, <1>6, <1>7, <2>1
    <3> QED
      BY <1>2, <1>5, <1>7, <2>1, <3>1
  <2>2. CASE ~Bus!Served
    BY <1>1, <1>2, <1>5, <1>6, <2>2
  <2> QED
    BY <2>1, <2>2
<1>10. Bus!Served => a = Head(v4).pc
  <2> SUFFICES ASSUME Bus!Served PROVE a = Head(v4).pc
    OBVIOUS
  <2>1. ~(Len(q) > Head(v4).deep + 1) /\ v4 # <<>>
    BY <1>1, <1>6, <1>7
  <2> QED
    BY <1>5, <2>1
<1>11. Len(t) <= MaxZ80
  BY <1>1, <1>4
<1> QED
  BY <1>2, <1>8, <1>9, <1>10, <1>11, BusTypes DEF BusInv

LEMMA BusStep == ASSUME BusInv, Bus!Next PROVE BusInv'
<1>1. v1 \in Z80Cpus /\ v2 \in Buses /\ v3 \in Z80Ints
  BY BusTypes
<1>2. CASE Bus!Pass
  <2>1. v2' = [v2 EXCEPT !.turn = "z80"] /\ UNCHANGED <<v1, v3, v4>>
    BY <1>2 DEF Bus!Pass
  <2>2. v2' \in Buses
    BY <1>1, <2>1 DEF Buses
  <2> QED
    BY <1>1, <2>1, <2>2, BusTypes, BusKept
<1>3. ASSUME NEW v \in BOOLEAN, Bus!Hold(v) PROVE BusInv'
  <2>1. v2' = [v2 EXCEPT !.held = v] /\ UNCHANGED <<v1, v3, v4>>
    BY <1>3 DEF Bus!Hold
  <2>2. v2' \in Buses
    BY <1>1, <2>1 DEF Buses
  <2> QED
    BY <1>1, <2>1, <2>2, BusTypes, BusKept
<1>4. ASSUME NEW v \in BOOLEAN, Bus!WriteReset(v) PROVE BusInv'
  <2>1. v2' = [v2 EXCEPT !.reset = v] /\ v3' = v3
    BY <1>4 DEF Bus!WriteReset
  <2>2. v2' \in Buses
    BY <1>1, <2>1 DEF Buses
  <2>3. CASE v
    <3>1. v1' = Bus!Z80Reset(Bus!First) /\ v4' = <<>>
      BY <1>4, <2>3 DEF Bus!WriteReset
    <3> QED
      BY <2>1, <2>2, <3>1, BusTypes, Z80Started DEF BusInv
  <2>4. CASE ~v
    <3>1. UNCHANGED <<v1, v4>>
      BY <1>4, <2>4 DEF Bus!WriteReset
    <3> QED
      BY <1>1, <2>1, <2>2, <3>1, BusTypes, BusKept
  <2> QED
    BY <2>3, <2>4
<1>5. ASSUME NEW v \in BOOLEAN, Bus!Gate(v) PROVE BusInv'
  <2>1. v1' = [v1 EXCEPT !.iff1 = v, !.iff2 = v] /\ UNCHANGED <<v2, v3, v4>>
    BY <1>5 DEF Bus!Gate
  <2>2. v1' \in Z80Cpus /\ v1'.stack = v1.stack
    BY <1>1, <2>1 DEF Z80Cpus
  <2> QED
    BY <1>1, <2>1, <2>2, BusTypes, BusKept
<1>6. CASE Bus!Halt
  <2>1. v1' = [v1 EXCEPT !.halted = TRUE] /\ UNCHANGED <<v2, v3, v4>>
    BY <1>6 DEF Bus!Halt
  <2>2. v1' \in Z80Cpus /\ v1'.stack = v1.stack
    BY <1>1, <2>1 DEF Z80Cpus
  <2> QED
    BY <1>1, <2>1, <2>2, BusTypes, BusKept
<1>7. ASSUME NEW p \in Z80Spots, Bus!Plain(p) PROVE BusInv'
  <2>1. v1' = [v1 EXCEPT !.pc = p] /\ UNCHANGED <<v2, v3, v4>>
    BY <1>7 DEF Bus!Plain
  <2>2. v1' \in Z80Cpus /\ v1'.stack = v1.stack
    BY <1>1, <2>1 DEF Z80Cpus
  <2> QED
    BY <1>1, <2>1, <2>2, BusTypes, BusKept
<1>8. CASE Bus!Halted
  BY <1>1, <1>8, BusTypes, BusKept DEF Bus!Halted, Bus!busvars
<1> QED
  BY <1>2, <1>3, <1>4, <1>5, <1>6, <1>7, <1>8, BusEnabled, BusAcknowledged, BusChunk,
     BusLineEnds, Z80Interrupted, Z80Called, Z80Returned DEF Bus!Next

LEMMA BusIdle == ASSUME BusInv, UNCHANGED <<v1, v2, v3, v4>> PROVE BusInv'
  BY DEF BusInv, Bus!Level

LEMMA BusInvImplies == ASSUME BusInv PROVE Bus!TypeOK /\ Bus!LineFresh
  BY DEF BusInv, Z80Cpus, Buses, Z80Ints, Bus!TypeOK, Bus!LineFresh

LEMMA Z80Resumes == ASSUME BusInv PROVE Bus!ProgramResumes
  BY Z80Returned DEF Bus!ProgramResumes

(***************************************************************************)
(* The shared ARM interpreter.                                             *)
(***************************************************************************)

ArmStates == [cpsr : Shared!Psrs, lr : Shared!Links, lrs : [Shared!Banks -> Shared!Links],
              spsr : [Shared!Banks \ {"usr"} -> Shared!Psrs], at : ArmPlaces]
ArmFrames == {Shared!Unframed} \cup [psr : Shared!Psrs, link : Shared!Links,
                                     mine : Shared!Links]

\* The frame of one bank is intact.
ArmHolds(s, b, f) ==
  f # Shared!Unframed =>
    /\ b # "usr"
    /\ s.spsr[b] = f.psr
    /\ Shared!LinkOf(s, b) = f.link
    /\ Shared!LinkOf(s, Shared!Bank(f.psr.mode)) = f.mine

ArmInv ==
  /\ v1 \in ArmStates
  /\ v2 \subseteq {"irq", "fiq"} \cap ArmModes
  /\ v3 \in [Shared!Banks -> ArmFrames]
  /\ \A b \in Shared!Banks : ArmHolds(v1, b, v3[b])

LEMMA ArmFacts ==
  /\ {"usr", "svc"} \subseteq ArmModes
  /\ ArmModes \subseteq {"usr", "sys", "fiq", "irq", "svc", "und"}
  /\ ArmWord \in [ArmPlaces -> ArmPlaces \ Odd]
  /\ Shared!NoLink \in Shared!Links /\ Shared!NoLink.at \in ArmPlaces
  /\ Shared!ResetPsr \in Shared!Psrs
  /\ \A m \in ArmModes : Shared!Bank(m) \in Shared!Banks
  /\ "usr" \in Shared!Banks
<1>1. /\ {"usr", "svc"} \subseteq ArmModes
      /\ ArmModes \subseteq {"usr", "sys", "fiq", "irq", "svc", "und"}
      /\ ArmWord \in [ArmPlaces -> ArmPlaces \ Odd] /\ ArmPlaces # {}
  BY ProcessorsFit DEF Shared!ArmAssumption
<1>2. \E p \in ArmPlaces \ Odd : TRUE
  BY <1>1
<1>3. Shared!NoLink.at \in ArmPlaces /\ Shared!NoLink \in Shared!Links
  BY <1>2 DEF Shared!NoLink, Shared!Links
<1>4. Shared!ResetPsr \in Shared!Psrs
  BY <1>1 DEF Shared!ResetPsr, Shared!Psrs
<1>5. \A m \in ArmModes : Shared!Bank(m) \in Shared!Banks
  BY DEF Shared!Banks
<1>6. "usr" \in Shared!Banks
  BY <1>1, <1>5 DEF Shared!Bank
<1> QED
  BY <1>1, <1>3, <1>4, <1>5, <1>6

\* A bank with a saved status is a mode of that name.
LEMMA ArmBanks ==
  /\ \A m \in ArmModes : Shared!Bank(m) # "usr" => Shared!Bank(m) = m
  /\ \A m \in ArmModes : m \notin {"usr", "sys"} => m \in Shared!Banks \ {"usr"}
  BY DEF Shared!Bank, Shared!Banks

LEMMA ArmSet ==
  ASSUME NEW s \in ArmStates, NEW m \in ArmModes
  PROVE  /\ Shared!SetMode(s, m) \in ArmStates
         /\ Shared!SetMode(s, m).cpsr.mode = m
         /\ Shared!SetMode(s, m).spsr = s.spsr
         /\ \A b \in Shared!Banks : Shared!LinkOf(Shared!SetMode(s, m), b) = Shared!LinkOf(s, b)
<1>1. CASE s.cpsr.mode = m
  BY <1>1 DEF Shared!SetMode
<1>2. CASE s.cpsr.mode # m
  <2> DEFINE lrs == [s.lrs EXCEPT ![Shared!Bank(s.cpsr.mode)] = s.lr]
             lr == lrs[Shared!Bank(m)]
             t == [s EXCEPT !.lrs = lrs, !.lr = lr, !.cpsr.mode = m]
             old == Shared!Bank(s.cpsr.mode)
  <2>1. Shared!SetMode(s, m) = t
    BY <1>2 DEF Shared!SetMode
  <2>2. s.cpsr \in Shared!Psrs /\ s.lr \in Shared!Links
        /\ s.lrs \in [Shared!Banks -> Shared!Links]
    BY DEF ArmStates
  <2>3. s.cpsr.mode \in ArmModes
    BY <2>2 DEF Shared!Psrs
  <2>4. old \in Shared!Banks /\ Shared!Bank(m) \in Shared!Banks
    BY <2>3, ArmFacts
  <2>5. /\ lrs \in [Shared!Banks -> Shared!Links]
        /\ \A b \in Shared!Banks : lrs[b] = IF b = old THEN s.lr ELSE s.lrs[b]
    BY <2>2, <2>4
  <2>6. lr \in Shared!Links
    BY <2>4, <2>5
  <2> DEFINE psr == [s.cpsr EXCEPT !.mode = m]
  <2>7. psr \in Shared!Psrs /\ psr.mode = m
    BY <2>2 DEF Shared!Psrs
  <2>8. t = [s EXCEPT !.lrs = lrs, !.lr = lr, !.cpsr = psr]
    BY DEF ArmStates
  <2> HIDE DEF t, lrs, psr
  <2>9. t \in ArmStates
    BY <2>5, <2>6, <2>7, <2>8 DEF ArmStates
  <2>10. t.cpsr = psr /\ t.lr = lr /\ t.lrs = lrs /\ t.spsr = s.spsr
    BY <2>8 DEF ArmStates
  <2>11. ASSUME NEW b \in Shared!Banks PROVE Shared!LinkOf(t, b) = Shared!LinkOf(s, b)
    BY <2>5, <2>7, <2>10 DEF Shared!LinkOf
  <2> QED
    BY <2>1, <2>7, <2>9, <2>10, <2>11
<1> QED
  BY <1>1, <1>2

\* The initial states, and those after a reset.
LEMMA ArmAfterReset ==
  /\ Shared!AfterReset \in ArmStates
  /\ [b \in Shared!Banks |-> Shared!Unframed] \in [Shared!Banks -> ArmFrames]
  /\ \A b \in Shared!Banks :
       ArmHolds(Shared!AfterReset, b, [c \in Shared!Banks |-> Shared!Unframed][b])
<1>1. [b \in Shared!Banks |-> Shared!NoLink] \in [Shared!Banks -> Shared!Links]
  BY ArmFacts
<1>2. [b \in Shared!Banks \ {"usr"} |-> Shared!ResetPsr]
        \in [Shared!Banks \ {"usr"} -> Shared!Psrs]
  BY ArmFacts
<1>3. Shared!AfterReset \in ArmStates
  BY <1>1, <1>2, ArmFacts DEF Shared!AfterReset, ArmStates
<1>4. Shared!Unframed \in ArmFrames
  BY DEF ArmFrames
<1> QED
  BY <1>3, <1>4 DEF ArmHolds

LEMMA ArmInit == Shared!Init => ArmInv
  BY ArmAfterReset DEF Shared!Init, ArmInv

\* A frame stays intact where its saved status and its two links do.
LEMMA ArmKeeps ==
  ASSUME NEW s \in ArmStates, NEW t \in ArmStates, NEW b \in Shared!Banks,
         NEW f \in ArmFrames, ArmHolds(s, b, f),
         f # Shared!Unframed =>
           /\ b # "usr" => t.spsr[b] = s.spsr[b]
           /\ Shared!LinkOf(t, b) = Shared!LinkOf(s, b)
           /\ Shared!LinkOf(t, Shared!Bank(f.psr.mode))
                = Shared!LinkOf(s, Shared!Bank(f.psr.mode))
  PROVE  ArmHolds(t, b, f)
  BY DEF ArmHolds

\* What a frame names.
LEMMA ArmFrame ==
  ASSUME NEW f \in ArmFrames, f # Shared!Unframed
  PROVE  /\ f.psr \in Shared!Psrs /\ f.psr.mode \in ArmModes
         /\ f.link \in Shared!Links /\ f.mine \in Shared!Links
         /\ Shared!Bank(f.psr.mode) \in Shared!Banks
<1>1. f \in [psr : Shared!Psrs, link : Shared!Links, mine : Shared!Links]
  BY DEF ArmFrames
<1>2. f.psr \in Shared!Psrs /\ f.link \in Shared!Links /\ f.mine \in Shared!Links
  BY <1>1
<1>3. f.psr.mode \in ArmModes
  BY <1>2 DEF Shared!Psrs
<1> QED
  BY <1>2, <1>3, ArmFacts

\* An exception takes its mode's bank; the other frames that stay keep theirs.
LEMMA ArmException ==
  ASSUME ArmInv, NEW m \in ArmModes \ {"usr", "sys"}, NEW link \in Shared!Links,
         NEW masks \in SUBSET {"I", "F"}, Shared!Exception(m, link, masks)
  PROVE  /\ v1' \in ArmStates /\ v3' \in [Shared!Banks -> ArmFrames]
         /\ \A b \in Shared!Banks : ArmHolds(v1', b, v3'[b])
<1> DEFINE d == Shared!SetMode(v1, m)
           psr == [mode |-> m, masks |-> masks, thumb |-> FALSE]
           spsr == [d.spsr EXCEPT ![m] = v1.cpsr]
           t == [d EXCEPT !.spsr = spsr, !.lr = link, !.at = Shared!NoLink.at, !.cpsr = psr]
           old == Shared!Bank(v1.cpsr.mode)
           f == [psr |-> v1.cpsr, link |-> link, mine |-> v1.lr]
<1>1. /\ v1 \in ArmStates /\ v3 \in [Shared!Banks -> ArmFrames]
      /\ \A b \in Shared!Banks : ArmHolds(v1, b, v3[b])
  BY DEF ArmInv
<1>2. /\ d \in ArmStates /\ d.cpsr.mode = m /\ d.spsr = v1.spsr
      /\ \A b \in Shared!Banks : Shared!LinkOf(d, b) = Shared!LinkOf(v1, b)
  BY <1>1, ArmSet
<1>3. /\ v1.cpsr \in Shared!Psrs /\ v1.lr \in Shared!Links /\ v1.cpsr.mode \in ArmModes
      /\ old \in Shared!Banks
  <2>1. v1.cpsr \in Shared!Psrs /\ v1.lr \in Shared!Links
    BY <1>1 DEF ArmStates
  <2>2. v1.cpsr.mode \in ArmModes
    BY <2>1 DEF Shared!Psrs
  <2> QED BY <2>1, <2>2, ArmFacts
<1>4. psr \in Shared!Psrs /\ psr.mode = m
  <2>1. FALSE \in BOOLEAN
    OBVIOUS
  <2> QED BY <2>1 DEF Shared!Psrs
<1>5. m \in Shared!Banks \ {"usr"} /\ Shared!Bank(m) = m
  BY ArmBanks DEF Shared!Bank
<1>6. v1' = t
  BY <1>2 DEF Shared!Exception, ArmStates
<1>7. v3' = [b \in Shared!Banks |->
               IF b = m THEN IF old = m THEN Shared!Unframed ELSE f
               ELSE IF v3[b] # Shared!Unframed /\ Shared!Bank(v3[b].psr.mode) = m
                      THEN Shared!Unframed
               ELSE v3[b]]
  BY DEF Shared!Exception
<1>8. f \in ArmFrames /\ f.psr = v1.cpsr /\ f.link = link /\ f.mine = v1.lr
  BY <1>3 DEF ArmFrames
<1>9. Shared!Unframed \in ArmFrames
  BY DEF ArmFrames
<1>10. spsr \in [Shared!Banks \ {"usr"} -> Shared!Psrs] /\ spsr[m] = v1.cpsr
       /\ \A b \in Shared!Banks \ {"usr"} : b # m => spsr[b] = v1.spsr[b]
  BY <1>2, <1>3, <1>5 DEF ArmStates
<1> HIDE DEF d, psr, spsr, f, old
<1>11. t \in ArmStates
  BY <1>2, <1>4, <1>10, ArmFacts DEF ArmStates
<1>12. t.cpsr = psr /\ t.lr = link /\ t.lrs = d.lrs /\ t.spsr = spsr
  BY <1>2 DEF ArmStates
<1> HIDE DEF t
<1>13. Shared!LinkOf(t, m) = link
  BY <1>4, <1>5, <1>12 DEF Shared!LinkOf
<1>14. ASSUME NEW b \in Shared!Banks, b # m
       PROVE  Shared!LinkOf(t, b) = Shared!LinkOf(v1, b)
  <2>1. Shared!LinkOf(t, b) = d.lrs[b]
    BY <1>4, <1>5, <1>12, <1>14 DEF Shared!LinkOf
  <2>2. Shared!LinkOf(d, b) = d.lrs[b]
    BY <1>2, <1>5, <1>14 DEF Shared!LinkOf
  <2> QED BY <2>1, <2>2, <1>2
<1>15. v3' \in [Shared!Banks -> ArmFrames]
  BY <1>1, <1>7, <1>8, <1>9
<1>16. ASSUME NEW b \in Shared!Banks PROVE ArmHolds(t, b, v3'[b])
  <2>1. CASE b = m /\ old # m
    <3>1. v3'[b] = f
      BY <1>7, <2>1
    <3>2. Shared!LinkOf(t, old) = v1.lr
      <4>1. Shared!LinkOf(v1, old) = v1.lr
        BY DEF Shared!LinkOf, old
      <4> QED BY <4>1, <1>14, <1>3, <2>1
    <3>3. Shared!Bank(f.psr.mode) = old
      BY <1>8 DEF old
    <3> QED BY <3>1, <3>2, <3>3, <1>5, <1>8, <1>10, <1>12, <1>13, <2>1 DEF ArmHolds
  <2>2. CASE b # m /\ ~(v3[b] # Shared!Unframed /\ Shared!Bank(v3[b].psr.mode) = m)
    <3>1. v3'[b] = v3[b]
      BY <1>7, <2>2
    <3>2. CASE v3[b] = Shared!Unframed
      BY <3>1, <3>2 DEF ArmHolds
    <3>3. CASE v3[b] # Shared!Unframed
      <4>1. v3[b] \in ArmFrames
        BY <1>1
      <4>2. Shared!Bank(v3[b].psr.mode) \in Shared!Banks
        BY <4>1, <3>3, ArmFrame
      <4>3. b # "usr" => t.spsr[b] = v1.spsr[b]
        BY <1>10, <1>12, <2>2
      <4>4. Shared!LinkOf(t, Shared!Bank(v3[b].psr.mode))
              = Shared!LinkOf(v1, Shared!Bank(v3[b].psr.mode))
        BY <4>2, <1>14, <2>2, <3>3
      <4> QED BY <1>1, <1>11, <1>14, <2>2, <3>1, <4>1, <4>3, <4>4, ArmKeeps
    <3> QED BY <3>2, <3>3
  <2>3. CASE (b = m /\ old = m) \/ (b # m /\ v3[b] # Shared!Unframed
                                      /\ Shared!Bank(v3[b].psr.mode) = m)
    <3>1. v3'[b] = Shared!Unframed
      BY <1>7, <2>3
    <3> QED BY <3>1 DEF ArmHolds
  <2> QED BY <2>1, <2>2, <2>3
<1> QED
  BY <1>6, <1>11, <1>15, <1>16

\* Writing the link register of a bank spoils the frames that name it only.
LEMMA ArmSpoils ==
  ASSUME ArmInv, NEW t \in ArmStates, NEW bank \in Shared!Banks,
         t.spsr = v1.spsr,
         \A b \in Shared!Banks : b # bank => Shared!LinkOf(t, b) = Shared!LinkOf(v1, b)
  PROVE  /\ Shared!Spoilt(bank) \in [Shared!Banks -> ArmFrames]
         /\ \A b \in Shared!Banks : ArmHolds(t, b, Shared!Spoilt(bank)[b])
<1> DEFINE new == Shared!Spoilt(bank)
<1>1. /\ v1 \in ArmStates /\ v3 \in [Shared!Banks -> ArmFrames]
      /\ \A b \in Shared!Banks : ArmHolds(v1, b, v3[b])
  BY DEF ArmInv
<1>2. \A b \in Shared!Banks : new[b] =
        IF b = bank \/ (v3[b] # Shared!Unframed /\ Shared!Bank(v3[b].psr.mode) = bank)
          THEN Shared!Unframed ELSE v3[b]
  BY DEF Shared!Spoilt
<1>3. Shared!Unframed \in ArmFrames
  BY DEF ArmFrames
<1>4. new \in [Shared!Banks -> ArmFrames]
  BY <1>1, <1>3 DEF Shared!Spoilt
<1> HIDE DEF new
<1>5. ASSUME NEW b \in Shared!Banks PROVE ArmHolds(t, b, new[b])
  <2>1. CASE new[b] = Shared!Unframed
    BY <2>1 DEF ArmHolds
  <2>2. CASE new[b] # Shared!Unframed
    <3>1. b # bank /\ new[b] = v3[b] /\ Shared!Bank(v3[b].psr.mode) # bank
      BY <1>2, <2>2
    <3>2. v3[b] \in ArmFrames /\ Shared!Bank(v3[b].psr.mode) \in Shared!Banks
      BY <1>1, <2>2, <3>1, ArmFrame
    <3> QED BY <1>1, <3>1, <3>2, ArmKeeps
  <2> QED BY <2>1, <2>2
<1> QED
  BY <1>4, <1>5 DEF new

\* A state with the links and saved states of the last keeps every frame.
LEMMA ArmStays ==
  ASSUME ArmInv, NEW t \in ArmStates, t.spsr = v1.spsr,
         \A b \in Shared!Banks : Shared!LinkOf(t, b) = Shared!LinkOf(v1, b)
  PROVE  \A b \in Shared!Banks : ArmHolds(t, b, v3[b])
<1>1. /\ v1 \in ArmStates /\ v3 \in [Shared!Banks -> ArmFrames]
      /\ \A b \in Shared!Banks : ArmHolds(v1, b, v3[b])
  BY DEF ArmInv
<1>2. ASSUME NEW b \in Shared!Banks PROVE ArmHolds(t, b, v3[b])
  <2>1. CASE v3[b] = Shared!Unframed
    BY <2>1 DEF ArmHolds
  <2>2. CASE v3[b] # Shared!Unframed
    <3>1. v3[b] \in ArmFrames /\ Shared!Bank(v3[b].psr.mode) \in Shared!Banks
      BY <1>1, <2>2, ArmFrame
    <3> QED BY <1>1, <3>1, ArmKeeps
  <2> QED BY <2>1, <2>2
<1> QED
  BY <1>2

LEMMA ArmWriteLink == ArmInv /\ Shared!WriteLink => ArmInv'
<1> SUFFICES ASSUME ArmInv, Shared!WriteLink PROVE ArmInv'
  OBVIOUS
<1> DEFINE t == [v1 EXCEPT !.lr = Shared!NoLink]
           cur == Shared!Bank(v1.cpsr.mode)
<1>1. v1 \in ArmStates
  BY DEF ArmInv
<1>2. t \in ArmStates
  BY <1>1, ArmFacts DEF ArmStates
<1>3. t.spsr = v1.spsr /\ t.cpsr = v1.cpsr /\ t.lrs = v1.lrs
  BY <1>1 DEF ArmStates
<1>4. v1.cpsr.mode \in ArmModes
  BY <1>1 DEF ArmStates, Shared!Psrs
<1>5. cur \in Shared!Banks
  BY <1>4, ArmFacts
<1>6. v1' = t /\ v3' = Shared!Spoilt(cur) /\ v2' = v2
  BY DEF Shared!WriteLink
<1> HIDE DEF t
<1>7. \A b \in Shared!Banks : b # cur => Shared!LinkOf(t, b) = Shared!LinkOf(v1, b)
  BY <1>3 DEF Shared!LinkOf
<1> HIDE DEF cur
<1>8. /\ Shared!Spoilt(cur) \in [Shared!Banks -> ArmFrames]
      /\ \A b \in Shared!Banks : ArmHolds(t, b, Shared!Spoilt(cur)[b])
  BY <1>2, <1>3, <1>5, <1>7, ArmSpoils
<1> QED
  BY <1>2, <1>6, <1>8 DEF ArmInv

LEMMA ArmLoadUserLink == ArmInv /\ Shared!LoadUserLink => ArmInv'
<1> SUFFICES ASSUME ArmInv, Shared!LoadUserLink PROVE ArmInv'
  OBVIOUS
<1> DEFINE u == Shared!SetMode(v1, "usr")
           w == [u EXCEPT !.lr = Shared!NoLink]
           t == Shared!SetMode(w, v1.cpsr.mode)
<1>1. v1 \in ArmStates /\ v1.cpsr.mode \in ArmModes
  BY DEF ArmInv, ArmStates, Shared!Psrs
<1>2. /\ u \in ArmStates /\ u.cpsr.mode = "usr" /\ u.spsr = v1.spsr
      /\ \A b \in Shared!Banks : Shared!LinkOf(u, b) = Shared!LinkOf(v1, b)
  BY <1>1, ArmSet, ArmFacts
<1> HIDE DEF u
<1>3. w \in ArmStates
  BY <1>2, ArmFacts DEF ArmStates
<1>4. w.spsr = u.spsr /\ w.cpsr = u.cpsr /\ w.lrs = u.lrs
  BY <1>2 DEF ArmStates
<1> HIDE DEF w
<1>5. \A b \in Shared!Banks : b # "usr" => Shared!LinkOf(w, b) = Shared!LinkOf(u, b)
  BY <1>2, <1>4 DEF Shared!LinkOf, Shared!Bank
<1>6. /\ t \in ArmStates /\ t.spsr = w.spsr
      /\ \A b \in Shared!Banks : Shared!LinkOf(t, b) = Shared!LinkOf(w, b)
  BY <1>1, <1>3, ArmSet
<1>7. v1' = t /\ v3' = Shared!Spoilt("usr") /\ v2' = v2
  BY DEF Shared!LoadUserLink, t, w, u
<1> HIDE DEF t
<1>8. \A b \in Shared!Banks : b # "usr" => Shared!LinkOf(t, b) = Shared!LinkOf(v1, b)
  BY <1>2, <1>5, <1>6
<1>9. t.spsr = v1.spsr
  BY <1>2, <1>4, <1>6
<1>10. /\ Shared!Spoilt("usr") \in [Shared!Banks -> ArmFrames]
       /\ \A b \in Shared!Banks : ArmHolds(t, b, Shared!Spoilt("usr")[b])
  BY <1>6, <1>8, <1>9, ArmSpoils, ArmFacts
<1> QED
  BY <1>6, <1>7, <1>10 DEF ArmInv

LEMMA ArmWriteCpsr ==
  ASSUME ArmInv, NEW m \in ArmModes, NEW masks \in SUBSET {"I"}, Shared!WriteCpsr(m, masks)
  PROVE  ArmInv'
<1>1. v1 \in ArmStates /\ v2' = v2 /\ v3' = v3
  BY DEF ArmInv, Shared!WriteCpsr
<1>2. CASE v1.cpsr.mode = "usr"
  BY <1>1, <1>2 DEF ArmInv, Shared!WriteCpsr
<1>3. CASE v1.cpsr.mode # "usr"
  <2> DEFINE d == Shared!SetMode(v1, m)
             psr == [d.cpsr EXCEPT !.masks = masks]
             t == [d EXCEPT !.cpsr = psr]
  <2>1. /\ d \in ArmStates /\ d.spsr = v1.spsr
        /\ \A b \in Shared!Banks : Shared!LinkOf(d, b) = Shared!LinkOf(v1, b)
    BY <1>1, ArmSet
  <2>2. v1' = [d EXCEPT !.cpsr.masks = masks]
    BY <1>3 DEF Shared!WriteCpsr
  <2> HIDE DEF d
  <2>3. v1' = t
    BY <2>1, <2>2 DEF ArmStates
  <2>4. d.cpsr \in Shared!Psrs
    BY <2>1 DEF ArmStates
  <2>5. psr \in Shared!Psrs /\ psr.mode = d.cpsr.mode
    BY <2>4 DEF Shared!Psrs
  <2> HIDE DEF psr
  <2>6. t \in ArmStates
    BY <2>1, <2>5 DEF ArmStates
  <2>7. t.cpsr = psr /\ t.spsr = d.spsr /\ t.lr = d.lr /\ t.lrs = d.lrs
    BY <2>1 DEF ArmStates
  <2> HIDE DEF t
  <2>8. \A b \in Shared!Banks : Shared!LinkOf(t, b) = Shared!LinkOf(v1, b)
    BY <2>1, <2>5, <2>7 DEF Shared!LinkOf
  <2>9. t.spsr = v1.spsr
    BY <2>1, <2>7
  <2>10. \A b \in Shared!Banks : ArmHolds(t, b, v3[b])
    BY <2>6, <2>8, <2>9, ArmStays
  <2> QED
    BY <1>1, <2>3, <2>6, <2>10 DEF ArmInv
<1> QED
  BY <1>2, <1>3

LEMMA ArmWriteSpsr == ArmInv /\ Shared!WriteSpsr(Shared!ResetPsr) => ArmInv'
<1> SUFFICES ASSUME ArmInv, Shared!WriteSpsr(Shared!ResetPsr) PROVE ArmInv'
  OBVIOUS
<1> DEFINE m == v1.cpsr.mode
           spsr == [v1.spsr EXCEPT ![m] = Shared!ResetPsr]
           t == [v1 EXCEPT !.spsr = spsr]
           new == [v3 EXCEPT ![m] = Shared!Unframed]
<1>1. /\ v1 \in ArmStates /\ v3 \in [Shared!Banks -> ArmFrames]
      /\ \A b \in Shared!Banks : ArmHolds(v1, b, v3[b])
  BY DEF ArmInv
<1>2. m \in ArmModes /\ Shared!Bank(m) # "usr"
  BY <1>1 DEF ArmStates, Shared!Psrs, Shared!WriteSpsr
<1>3. m \in Shared!Banks \ {"usr"}
  BY <1>2, ArmBanks, ArmFacts
<1>4. v1' = t /\ v3' = new /\ v2' = v2
  <2>1. v1' = [v1 EXCEPT !.spsr[m] = Shared!ResetPsr]
    BY DEF Shared!WriteSpsr
  <2>2. [v1 EXCEPT !.spsr[m] = Shared!ResetPsr] = t
    BY <1>1 DEF ArmStates
  <2> QED BY <2>1, <2>2 DEF Shared!WriteSpsr
<1>5. /\ spsr \in [Shared!Banks \ {"usr"} -> Shared!Psrs]
      /\ \A b \in Shared!Banks \ {"usr"} : b # m => spsr[b] = v1.spsr[b]
  BY <1>1, <1>3, ArmFacts DEF ArmStates
<1> HIDE DEF spsr
<1>6. t \in ArmStates /\ t.spsr = spsr /\ t.cpsr = v1.cpsr /\ t.lr = v1.lr /\ t.lrs = v1.lrs
  BY <1>1, <1>5 DEF ArmStates
<1>7. /\ new \in [Shared!Banks -> ArmFrames]
      /\ \A b \in Shared!Banks : new[b] = IF b = m THEN Shared!Unframed ELSE v3[b]
  BY <1>1, <1>3 DEF ArmFrames
<1> HIDE DEF new, t, m
<1>8. \A b \in Shared!Banks : Shared!LinkOf(t, b) = Shared!LinkOf(v1, b)
  BY <1>6 DEF Shared!LinkOf
<1>9. ASSUME NEW b \in Shared!Banks PROVE ArmHolds(t, b, new[b])
  <2>1. CASE new[b] = Shared!Unframed
    BY <2>1 DEF ArmHolds
  <2>2. CASE new[b] # Shared!Unframed
    <3>1. b # m /\ new[b] = v3[b]
      BY <1>7, <2>2
    <3>2. v3[b] \in ArmFrames /\ Shared!Bank(v3[b].psr.mode) \in Shared!Banks
      BY <1>1, <2>2, <3>1, ArmFrame
    <3>3. b # "usr" => t.spsr[b] = v1.spsr[b]
      BY <1>5, <1>6, <3>1
    <3> QED BY <1>1, <1>6, <1>8, <3>1, <3>2, <3>3, ArmKeeps
  <2> QED BY <2>1, <2>2
<1> QED
  BY <1>4, <1>6, <1>7, <1>9 DEF ArmInv

\* The state a return goes to.
ArmTarget ==
  LET m == v1.cpsr.mode IN
  IF Shared!Bank(m) = "usr" THEN v1
  ELSE [Shared!SetMode(v1, v1.spsr[m].mode) EXCEPT !.cpsr = v1.spsr[m]]

LEMMA ArmTargetFacts ==
  ASSUME ArmInv
  PROVE  /\ ArmTarget \in ArmStates /\ ArmTarget.spsr = v1.spsr
         /\ \A b \in Shared!Banks : Shared!LinkOf(ArmTarget, b) = Shared!LinkOf(v1, b)
         /\ Shared!Bank(v1.cpsr.mode) # "usr" => ArmTarget.cpsr = v1.spsr[v1.cpsr.mode]
<1> DEFINE m == v1.cpsr.mode
<1>1. v1 \in ArmStates /\ m \in ArmModes
  BY DEF ArmInv, ArmStates, Shared!Psrs
<1>2. CASE Shared!Bank(m) = "usr"
  BY <1>1, <1>2 DEF ArmTarget
<1>3. CASE Shared!Bank(m) # "usr"
  <2> DEFINE psr == v1.spsr[m]
             d == Shared!SetMode(v1, psr.mode)
             t == [d EXCEPT !.cpsr = psr]
  <2>1. m \in Shared!Banks \ {"usr"}
    BY <1>1, <1>3, ArmBanks, ArmFacts
  <2>2. psr \in Shared!Psrs /\ psr.mode \in ArmModes
    BY <1>1, <2>1 DEF ArmStates, Shared!Psrs
  <2>3. ArmTarget = t
    BY <1>3 DEF ArmTarget
  <2> HIDE DEF psr
  <2>4. /\ d \in ArmStates /\ d.spsr = v1.spsr /\ d.cpsr.mode = psr.mode
        /\ \A b \in Shared!Banks : Shared!LinkOf(d, b) = Shared!LinkOf(v1, b)
    BY <1>1, <2>2, ArmSet
  <2> HIDE DEF d
  <2>5. t \in ArmStates
    BY <2>2, <2>4 DEF ArmStates
  <2>6. t.cpsr = psr /\ t.spsr = d.spsr /\ t.lr = d.lr /\ t.lrs = d.lrs
    BY <2>4 DEF ArmStates
  <2> HIDE DEF t
  <2>7. \A b \in Shared!Banks : Shared!LinkOf(t, b) = Shared!LinkOf(v1, b)
    BY <2>4, <2>6 DEF Shared!LinkOf
  <2> QED
    BY <2>3, <2>4, <2>5, <2>6, <2>7 DEF psr
<1> QED
  BY <1>2, <1>3

LEMMA ArmReturn ==
  ASSUME ArmInv, NEW plus \in {0, 4}, NEW p \in ArmPlaces, Shared!Return(plus, p)
  PROVE  ArmInv'
<1> DEFINE b0 == Shared!Bank(v1.cpsr.mode)
           t == [ArmTarget EXCEPT !.at = p]
           new == [v3 EXCEPT ![b0] = Shared!Unframed]
<1>1. /\ v1 \in ArmStates /\ v3 \in [Shared!Banks -> ArmFrames]
      /\ v1.cpsr.mode \in ArmModes
  BY DEF ArmInv, ArmStates, Shared!Psrs
<1>2. v1' = t /\ v3' = new /\ v2' = v2
  BY DEF Shared!Return, ArmTarget
<1>3. b0 \in Shared!Banks
  BY <1>1, ArmFacts
<1>4. t \in ArmStates
  BY ArmTargetFacts DEF ArmStates
<1>5. /\ t.cpsr = ArmTarget.cpsr /\ t.spsr = v1.spsr
      /\ t.lr = ArmTarget.lr /\ t.lrs = ArmTarget.lrs
  BY ArmTargetFacts DEF ArmStates
<1>6. /\ new \in [Shared!Banks -> ArmFrames]
      /\ \A b \in Shared!Banks : new[b] = IF b = b0 THEN Shared!Unframed ELSE v3[b]
  BY <1>1, <1>3 DEF ArmFrames
<1> HIDE DEF t, new, b0
<1>7. \A b \in Shared!Banks : Shared!LinkOf(t, b) = Shared!LinkOf(v1, b)
  BY <1>5, ArmTargetFacts DEF Shared!LinkOf
<1>8. \A b \in Shared!Banks : ArmHolds(t, b, v3[b])
  BY <1>4, <1>5, <1>7, ArmStays
<1>9. \A b \in Shared!Banks : ArmHolds(t, b, new[b])
  BY <1>6, <1>8 DEF ArmHolds
<1> QED
  BY <1>2, <1>4, <1>6, <1>9 DEF ArmInv

LEMMA ArmPlain ==
  ASSUME ArmInv, NEW p \in ArmPlaces, Shared!Plain(p) \/ Shared!BranchExchange(p)
  PROVE  ArmInv'
<1>1. v1 \in ArmStates /\ v3 \in [Shared!Banks -> ArmFrames] /\ v2' = v2 /\ v3' = v3
  BY DEF ArmInv, Shared!Plain, Shared!BranchExchange
<1> DEFINE psr == [v1.cpsr EXCEPT !.thumb = ~@]
           t == [v1 EXCEPT !.at = p]
           u == [v1 EXCEPT !.cpsr = psr, !.at = p]
<1>2. v1' = t \/ v1' = u
  <2>1. [v1 EXCEPT !.cpsr.thumb = ~@, !.at = p] = u
    BY <1>1 DEF ArmStates
  <2> QED BY <2>1 DEF Shared!Plain, Shared!BranchExchange
<1>3. v1.cpsr \in Shared!Psrs
  BY <1>1 DEF ArmStates
<1>4. psr.mode = v1.cpsr.mode /\ psr.masks = v1.cpsr.masks /\ psr.thumb = ~v1.cpsr.thumb
  BY <1>3 DEF Shared!Psrs
<1>5. psr \in Shared!Psrs
  <2>1. (~v1.cpsr.thumb) \in BOOLEAN
    OBVIOUS
  <2> DEFINE no == ~v1.cpsr.thumb
  <2>2. psr = [v1.cpsr EXCEPT !.thumb = no]
    OBVIOUS
  <2>3. no \in BOOLEAN
    BY <2>1
  <2> HIDE DEF no
  <2> QED BY <1>3, <2>2, <2>3 DEF Shared!Psrs
<1> HIDE DEF psr
<1>6. /\ t \in ArmStates /\ t.cpsr = v1.cpsr /\ t.spsr = v1.spsr
      /\ t.lr = v1.lr /\ t.lrs = v1.lrs
  BY <1>1 DEF ArmStates
<1>7. /\ u \in ArmStates /\ u.cpsr = psr /\ u.spsr = v1.spsr
      /\ u.lr = v1.lr /\ u.lrs = v1.lrs
  BY <1>1, <1>5 DEF ArmStates
<1> HIDE DEF t, u
<1>8. \A b \in Shared!Banks : /\ Shared!LinkOf(t, b) = Shared!LinkOf(v1, b)
                              /\ Shared!LinkOf(u, b) = Shared!LinkOf(v1, b)
  BY <1>4, <1>6, <1>7 DEF Shared!LinkOf
<1>9. \A b \in Shared!Banks : ArmHolds(t, b, v3[b])
  BY <1>6, <1>8, ArmStays
<1>10. \A b \in Shared!Banks : ArmHolds(u, b, v3[b])
  BY <1>7, <1>8, ArmStays
<1> QED
  BY <1>1, <1>2, <1>6, <1>7, <1>9, <1>10 DEF ArmInv

LEMMA ArmTraps ==
  ASSUME ArmInv, Shared!TakeFiq \/ Shared!TakeIrq
                 \/ \E m \in ArmModes \cap {"svc", "und"}, p \in ArmPlaces : Shared!Trap(m, p)
  PROVE  ArmInv'
<1>1. v1 \in ArmStates /\ v1.at \in ArmPlaces /\ v2 \subseteq {"irq", "fiq"} \cap ArmModes
  BY DEF ArmInv, ArmStates
<1>2. v2' \subseteq {"irq", "fiq"} \cap ArmModes
  BY <1>1 DEF Shared!TakeFiq, Shared!TakeIrq, Shared!Trap
<1>3. \A p \in ArmPlaces, k \in {0, 4} : [at |-> p, plus |-> k] \in Shared!Links
  BY DEF Shared!Links
<1>4. \E m \in ArmModes \ {"usr", "sys"}, link \in Shared!Links, masks \in SUBSET {"I", "F"} :
        Shared!Exception(m, link, masks)
  <2>1. CASE Shared!TakeFiq
    <3>1. "fiq" \in ArmModes \ {"usr", "sys"} /\ {"I", "F"} \in SUBSET {"I", "F"}
      BY <2>1 DEF Shared!TakeFiq
    <3>2. Shared!Exception("fiq", [at |-> v1.at, plus |-> 4], {"I", "F"})
      BY <2>1 DEF Shared!TakeFiq
    <3> QED BY <1>1, <1>3, <3>1, <3>2
  <2>2. CASE Shared!TakeIrq
    <3>1. "irq" \in ArmModes \ {"usr", "sys"} /\ {"I"} \in SUBSET {"I", "F"}
      BY <1>1, <2>2 DEF Shared!TakeIrq
    <3>2. Shared!Exception("irq", [at |-> v1.at, plus |-> 4], {"I"})
      BY <2>2 DEF Shared!TakeIrq
    <3> QED BY <1>1, <1>3, <3>1, <3>2
  <2>3. ASSUME NEW m \in ArmModes \cap {"svc", "und"}, NEW p \in ArmPlaces, Shared!Trap(m, p)
        PROVE  \E mm \in ArmModes \ {"usr", "sys"}, link \in Shared!Links,
                  masks \in SUBSET {"I", "F"} : Shared!Exception(mm, link, masks)
    <3>1. m \in ArmModes \ {"usr", "sys"} /\ {"I"} \in SUBSET {"I", "F"}
      OBVIOUS
    <3>2. Shared!Exception(m, [at |-> p, plus |-> 0], {"I"})
      BY <2>3 DEF Shared!Trap
    <3> QED BY <1>3, <3>1, <3>2
  <2> QED BY <2>1, <2>2, <2>3
<1> QED
  BY <1>2, <1>4, ArmException DEF ArmInv

LEMMA ArmRaise ==
  ASSUME ArmInv, \/ Shared!ArmReset
                 \/ \E l \in {"irq", "fiq"} : (l \in ArmModes /\ Shared!Raise(l))
  PROVE  ArmInv'
<1>1. CASE Shared!ArmReset
  BY <1>1, ArmAfterReset DEF Shared!ArmReset, ArmInv
<1>2. CASE \E l \in {"irq", "fiq"} : (l \in ArmModes /\ Shared!Raise(l))
  BY <1>2 DEF Shared!Raise, ArmInv
<1> QED
  BY <1>1, <1>2

LEMMA ArmStep == ArmInv /\ Shared!Next => ArmInv'
<1> SUFFICES ASSUME ArmInv, Shared!Next PROVE ArmInv'
  OBVIOUS
<1>1. CASE Shared!ArmReset \/ \E l \in {"irq", "fiq"} : (l \in ArmModes /\ Shared!Raise(l))
  BY <1>1, ArmRaise
<1>2. CASE Shared!TakeFiq \/ Shared!TakeIrq
           \/ \E m \in ArmModes \cap {"svc", "und"}, p \in ArmPlaces : Shared!Trap(m, p)
  BY <1>2, ArmTraps
<1>3. CASE Shared!WriteLink
  BY <1>3, ArmWriteLink
<1>4. CASE Shared!LoadUserLink
  BY <1>4, ArmLoadUserLink
<1>5. CASE \E p \in ArmPlaces : Shared!Plain(p) \/ Shared!BranchExchange(p)
  BY <1>5, ArmPlain
<1>6. CASE \E m \in ArmModes, masks \in SUBSET {"I"} : Shared!WriteCpsr(m, masks)
  <2>1. \A masks \in SUBSET {"I"} : masks \in SUBSET {"I", "F"}
    OBVIOUS
  <2> QED BY <1>6, <2>1, ArmWriteCpsr
<1>7. CASE Shared!WriteSpsr(Shared!ResetPsr)
  BY <1>7, ArmWriteSpsr
<1>8. CASE \E plus \in {0, 4}, p \in ArmPlaces : Shared!Return(plus, p)
  BY <1>8, ArmReturn
<1> QED
  BY <1>1, <1>2, <1>3, <1>4, <1>5, <1>6, <1>7, <1>8 DEF Shared!Next

LEMMA ArmIdle == ArmInv /\ UNCHANGED <<v1, v2, v3>> => ArmInv'
  BY DEF ArmInv

LEMMA ArmInvImplies == ArmInv => Shared!TypeOK /\ Shared!ContextHeld
<1> SUFFICES ASSUME ArmInv PROVE Shared!TypeOK /\ Shared!ContextHeld
  OBVIOUS
<1>1. Shared!TypeOK
  BY DEF ArmInv, ArmStates, Shared!TypeOK
<1>2. Shared!ContextHeld
  BY DEF ArmInv, ArmHolds, Shared!ContextHeld
<1> QED
  BY <1>1, <1>2

\* A frame that is intact is what the matching return restores.
LEMMA ArmRestores == ASSUME ArmInv PROVE Shared!ContextRestored
<1> SUFFICES ASSUME NEW plus \in {0, 4}, NEW p \in ArmPlaces,
                    v3[Shared!Bank(v1.cpsr.mode)] # Shared!Unframed,
                    v3[Shared!Bank(v1.cpsr.mode)].link.plus = plus, Shared!Return(plus, p)
             PROVE  LET f == v3[Shared!Bank(v1.cpsr.mode)] IN
                    v1'.cpsr = f.psr /\ v1'.lr = f.mine /\ v1'.at = ArmWord[f.link.at]
  BY DEF Shared!ContextRestored
<1> DEFINE m == v1.cpsr.mode
           b == Shared!Bank(m)
           f == v3[b]
           t == [ArmTarget EXCEPT !.at = p]
<1>1. v1 \in ArmStates /\ v3 \in [Shared!Banks -> ArmFrames] /\ m \in ArmModes
  BY DEF ArmInv, ArmStates, Shared!Psrs
<1>2. b \in Shared!Banks
  BY <1>1, ArmFacts
<1>3. f \in ArmFrames /\ ArmHolds(v1, b, f)
  BY <1>1, <1>2 DEF ArmInv
<1>4. /\ b # "usr" /\ v1.spsr[b] = f.psr /\ Shared!LinkOf(v1, b) = f.link
      /\ Shared!LinkOf(v1, Shared!Bank(f.psr.mode)) = f.mine
  BY <1>3 DEF ArmHolds
<1>5. b = m
  BY <1>1, <1>4, ArmBanks
<1>6. v1.lr = f.link
  BY <1>4 DEF Shared!LinkOf
<1>7. v1' = t /\ p = ArmWord[v1.lr.at]
  BY <1>6 DEF Shared!Return, ArmTarget
<1>8. /\ ArmTarget \in ArmStates
      /\ \A c \in Shared!Banks : Shared!LinkOf(ArmTarget, c) = Shared!LinkOf(v1, c)
      /\ ArmTarget.cpsr = f.psr
  BY <1>4, <1>5, ArmTargetFacts
<1>9. t.cpsr = f.psr /\ t.lr = ArmTarget.lr /\ t.at = p
  BY <1>8 DEF ArmStates
<1>10. Shared!Bank(f.psr.mode) \in Shared!Banks
  BY <1>3, ArmFrame
<1>11. ArmTarget.lr = f.mine
  BY <1>4, <1>8, <1>10 DEF Shared!LinkOf
<1> QED
  BY <1>6, <1>7, <1>9, <1>11

(***************************************************************************)
(* SH-2 and SH-4.                                                          *)
(***************************************************************************)

ShFrameSet == [sr : Sh!Sr, pc : Sh!Place]
ShStates == [four : BOOLEAN, pc : Sh!Place, next : Sh!Place, pr : Sh!Place, sr : Sh!Sr,
             r : ShValues, bank : [{0, 1} -> ShValues], stack : Seq(ShFrameSet)]

\* The banks of a state are what the program left in them.
ShBanks(c) ==
  /\ c.r = v2[c.sr.rb]
  /\ c.four => c.bank[1 - c.sr.rb] = v2[1 - c.sr.rb]

\* An SH-2 has neither the block bit nor a second bank.
ShFits(four, s) == four \/ (s.bl = FALSE /\ s.rb = 0)

\* The frames hold the SRs that the processor stacked.
ShFramed(c, seq) ==
  /\ seq \in Seq(Sh!Sr) /\ Len(seq) = Len(c.stack)
  /\ \A i \in 1..Len(seq) : seq[i] = c.stack[i].sr /\ ShFits(c.four, seq[i])

ShInv ==
  /\ v1 \in ShStates /\ v2 \in [{0, 1} -> ShValues]
  /\ Len(v1.stack) <= ShFrames
  /\ ShBanks(v1) /\ ShFits(v1.four, v1.sr) /\ ShFramed(v1, v3)

LEMMA ShPlace ==
  /\ Sh!Vector \in Sh!Place
  /\ \A p \in Sh!Place : Sh!After(p) \in Sh!Place
<1>1. ShPlaces \in Nat \ {0}
  BY ProcessorsFit DEF Sh!ShAssumption
<1> QED
  BY <1>1 DEF Sh!Vector, Sh!Place, Sh!After

LEMMA ShFetched ==
  ASSUME NEW c \in ShStates, c = v1
  PROVE  /\ Sh!Fetched \in ShStates /\ Sh!Fetched.four = c.four /\ Sh!Fetched.sr = c.sr
         /\ Sh!Fetched.r = c.r /\ Sh!Fetched.bank = c.bank /\ Sh!Fetched.stack = c.stack
         /\ Sh!Fetched.next = Sh!After(c.next)
<1> DEFINE n == Sh!After(c.next)
           t == [c EXCEPT !.pc = c.next, !.next = n]
<1>1. c.next \in Sh!Place /\ n \in Sh!Place
  BY ShPlace DEF ShStates
<1>2. Sh!Fetched = t
  BY DEF Sh!Fetched
<1> HIDE DEF n
<1>3. /\ t \in ShStates /\ t.four = c.four /\ t.sr = c.sr /\ t.r = c.r
      /\ t.bank = c.bank /\ t.stack = c.stack /\ t.next = n
  BY <1>1 DEF ShStates
<1> QED
  BY <1>2, <1>3 DEF n

LEMMA ShAt ==
  ASSUME NEW c \in ShStates, NEW p \in Sh!Place
  PROVE  /\ Sh!At(c, p) \in ShStates /\ Sh!At(c, p).four = c.four /\ Sh!At(c, p).sr = c.sr
         /\ Sh!At(c, p).r = c.r /\ Sh!At(c, p).bank = c.bank /\ Sh!At(c, p).stack = c.stack
<1> DEFINE n == Sh!After(p)
           t == [c EXCEPT !.pc = p, !.next = n]
<1>1. n \in Sh!Place
  BY ShPlace
<1>2. Sh!At(c, p) = t
  BY DEF Sh!At
<1> HIDE DEF n
<1>3. /\ t \in ShStates /\ t.four = c.four /\ t.sr = c.sr /\ t.r = c.r
      /\ t.bank = c.bank /\ t.stack = c.stack
  BY <1>1 DEF ShStates
<1> QED
  BY <1>2, <1>3

\* Stacking keeps the frames' relation to the SRs noted.
LEMMA ShStacked ==
  ASSUME NEW c \in ShStates, NEW seq, ShFramed(c, seq), ShFits(c.four, c.sr)
  PROVE  /\ Sh!Stacked(c) \in ShStates /\ Sh!Stacked(c).four = c.four
         /\ Sh!Stacked(c).sr = c.sr /\ Sh!Stacked(c).r = c.r /\ Sh!Stacked(c).bank = c.bank
         /\ Len(Sh!Stacked(c).stack) = Len(c.stack) + 1
         /\ ShFramed(Sh!Stacked(c), <<c.sr>> \o seq)
<1> DEFINE f == [sr |-> c.sr, pc |-> c.next]
           stack == <<f>> \o c.stack
           t == [c EXCEPT !.stack = stack]
           new == <<c.sr>> \o seq
<1>1. f \in ShFrameSet /\ f.sr = c.sr
  BY DEF ShFrameSet, ShStates
<1>2. c.stack \in Seq(ShFrameSet) /\ c.sr \in Sh!Sr
  BY DEF ShStates
<1>3. Sh!Stacked(c) = t
  BY DEF Sh!Stacked, ShStates
<1> HIDE DEF f
<1>4. /\ stack \in Seq(ShFrameSet) /\ Len(stack) = Len(c.stack) + 1 /\ stack[1] = f
      /\ \A i \in 1..Len(c.stack) : stack[i + 1] = c.stack[i]
  BY <1>1, <1>2, Pushed
<1>5. /\ new \in Seq(Sh!Sr) /\ Len(new) = Len(seq) + 1 /\ new[1] = c.sr
      /\ \A i \in 1..Len(seq) : new[i + 1] = seq[i]
  BY <1>2, Pushed DEF ShFramed
<1> HIDE DEF stack, new
<1>6. /\ t \in ShStates /\ t.four = c.four /\ t.sr = c.sr /\ t.r = c.r
      /\ t.bank = c.bank /\ t.stack = stack
  BY <1>4 DEF ShStates
<1> HIDE DEF t
<1>7. Len(seq) \in Nat /\ Len(seq) = Len(c.stack)
      /\ \A i \in 1..Len(seq) : seq[i] = c.stack[i].sr /\ ShFits(c.four, seq[i])
  BY LenProperties DEF ShFramed
<1>8. ASSUME NEW i \in 1..Len(new) PROVE new[i] = stack[i].sr /\ ShFits(c.four, new[i])
  <2>1. CASE i = 1
    BY <1>1, <1>4, <1>5, <2>1
  <2>2. CASE i # 1
    <3>1. i - 1 \in 1..Len(seq) /\ (i - 1) + 1 = i
      BY <1>5, <1>7, <2>2
    <3> QED BY <1>4, <1>5, <1>7, <3>1
  <2> QED BY <2>1, <2>2
<1>9. ShFramed(t, new)
  BY <1>4, <1>5, <1>6, <1>7, <1>8 DEF ShFramed
<1> QED
  BY <1>3, <1>4, <1>6, <1>9 DEF new

\* Writing SR leaves in both banks what was in them.
LEMMA ShSrWrite ==
  ASSUME NEW c \in ShStates, NEW s \in Sh!Sr, v2 \in [{0, 1} -> ShValues],
         ShBanks(c), ShFits(c.four, c.sr)
  PROVE  /\ Sh!SrWrite(c, s) \in ShStates /\ Sh!SrWrite(c, s).four = c.four
         /\ Sh!SrWrite(c, s).stack = c.stack
         /\ ShBanks(Sh!SrWrite(c, s)) /\ ShFits(c.four, Sh!SrWrite(c, s).sr)
         /\ ShFits(c.four, s) => Sh!SrWrite(c, s).sr = s
<1>1. CASE ~c.four
  <2> DEFINE sr == [c.sr EXCEPT !.mask = s.mask]
             t == [c EXCEPT !.sr = sr]
  <2>1. Sh!SrWrite(c, s) = t
    BY <1>1 DEF Sh!SrWrite, ShStates
  <2>2. c.sr \in Sh!Sr
    BY DEF ShStates
  <2>3. sr \in Sh!Sr /\ sr.bl = c.sr.bl /\ sr.rb = c.sr.rb /\ sr.mask = s.mask
    BY <2>2 DEF Sh!Sr
  <2>4. c.sr.bl = FALSE /\ c.sr.rb = 0
    BY <1>1 DEF ShFits
  <2>5. ShFits(c.four, s) => sr = s
    <3> SUFFICES ASSUME s.bl = FALSE, s.rb = 0 PROVE sr = s
      BY <1>1 DEF ShFits
    <3> HIDE DEF sr
    <3> QED BY <2>3, <2>4 DEF Sh!Sr
  <2> HIDE DEF sr
  <2>6. /\ t \in ShStates /\ t.four = c.four /\ t.sr = sr /\ t.r = c.r
        /\ t.bank = c.bank /\ t.stack = c.stack
    BY <2>3 DEF ShStates
  <2> HIDE DEF t
  <2> QED
    BY <1>1, <2>1, <2>3, <2>4, <2>5, <2>6 DEF ShBanks, ShFits
<1>2. CASE c.four
  <2> DEFINE out == [c.bank EXCEPT ![c.sr.rb] = c.r]
             r == out[s.rb]
             t == [c EXCEPT !.sr = s, !.bank = out, !.r = r]
  <2>1. Sh!SrWrite(c, s) = t
    BY <1>2 DEF Sh!SrWrite
  <2>2. c.sr.rb \in {0, 1} /\ s.rb \in {0, 1} /\ c.r \in ShValues
        /\ c.bank \in [{0, 1} -> ShValues]
    BY DEF ShStates, Sh!Sr
  <2>3. /\ out \in [{0, 1} -> ShValues]
        /\ out[c.sr.rb] = v2[c.sr.rb]
        /\ out[1 - c.sr.rb] = v2[1 - c.sr.rb]
    BY <1>2, <2>2 DEF ShBanks
  <2>4. out[0] = v2[0] /\ out[1] = v2[1]
    BY <2>2, <2>3
  <2>5. r \in ShValues /\ r = v2[s.rb] /\ out[1 - s.rb] = v2[1 - s.rb]
    BY <2>2, <2>3, <2>4
  <2> HIDE DEF out, r
  <2>6. /\ t \in ShStates /\ t.four = c.four /\ t.sr = s /\ t.r = r
        /\ t.bank = out /\ t.stack = c.stack
    BY <2>3, <2>5 DEF ShStates
  <2> HIDE DEF t
  <2> QED
    BY <1>2, <2>1, <2>5, <2>6 DEF ShBanks, ShFits
<1> QED
  BY <1>1, <1>2

LEMMA ShInit == Sh!Init => ShInv
<1> SUFFICES ASSUME NEW four \in BOOLEAN, NEW v \in ShValues,
                    v1 = Sh!AfterReset(four, v), v2 = [b \in {0, 1} |-> v], v3 = << >>
             PROVE  ShInv
  BY DEF Sh!Init
<1> DEFINE sr == [mask |-> MaxLevel, bl |-> four, rb |-> 0]
<1>1. MaxLevel \in Nat /\ ShFrames \in Nat
  BY ProcessorsFit DEF Sh!ShAssumption
<1>2. sr \in Sh!Sr /\ sr.rb = 0 /\ sr.bl = four
  BY <1>1 DEF Sh!Sr
<1>3. << >> \in Seq(ShFrameSet) /\ << >> \in Seq(Sh!Sr) /\ Len(<< >>) = 0
  BY EmptySeq
<1>4. v2 \in [{0, 1} -> ShValues] /\ v2[0] = v /\ v2[1] = v
  OBVIOUS
<1>5. Sh!Vector \in Sh!Place /\ Sh!After(Sh!Vector) \in Sh!Place
  BY ShPlace
<1> DEFINE n == Sh!After(Sh!Vector)
           bank == [b \in {0, 1} |-> v]
<1>6. v1 = [four |-> four, pc |-> Sh!Vector, next |-> n, pr |-> Sh!Vector,
            sr |-> sr, r |-> v, bank |-> bank, stack |-> << >>]
  BY DEF Sh!AfterReset
<1>7. bank \in [{0, 1} -> ShValues] /\ bank[1] = v
  OBVIOUS
<1> HIDE DEF sr, n, bank
<1>8. v1 \in ShStates
  BY <1>2, <1>3, <1>5, <1>6, <1>7 DEF ShStates, n
<1>9. /\ v1.four = four /\ v1.sr = sr /\ v1.r = v /\ v1.bank = bank /\ v1.stack = << >>
  BY <1>6
<1> QED
  BY <1>1, <1>2, <1>3, <1>4, <1>7, <1>8, <1>9
     DEF ShInv, ShBanks, ShFits, ShFramed

LEMMA ShInterrupt ==
  ASSUME ShInv, NEW level \in 1..MaxLevel, Sh!Interrupt(level)
  PROVE  ShInv'
<1> DEFINE d == Sh!Stacked(v1)
           four == v1.four
           sr == [d.sr EXCEPT !.mask = level, !.bl = four]
           e == [d EXCEPT !.sr = sr]
           t == Sh!At(e, Sh!Vector)
           new == <<v1.sr>> \o v3
<1>1. /\ v1 \in ShStates /\ v2 \in [{0, 1} -> ShValues] /\ ShBanks(v1)
      /\ ShFits(v1.four, v1.sr) /\ ShFramed(v1, v3)
      /\ MaxLevel \in Nat /\ ShFrames \in Nat
  BY ProcessorsFit DEF ShInv, Sh!ShAssumption
<1>2. /\ d \in ShStates /\ d.four = four /\ d.sr = v1.sr /\ d.r = v1.r /\ d.bank = v1.bank
      /\ Len(d.stack) = Len(v1.stack) + 1 /\ ShFramed(d, new)
  BY <1>1, ShStacked
<1> HIDE DEF d, new
<1>3. d.sr \in Sh!Sr /\ four \in BOOLEAN
  BY <1>1, <1>2 DEF ShStates
<1>4. [d EXCEPT !.sr.mask = level, !.sr.bl = four] = e
  BY <1>2 DEF ShStates
<1>5. v1' = t /\ v2' = v2 /\ v3' = new
  BY <1>4 DEF Sh!Interrupt, d, new
<1> HIDE DEF four
<1>6. sr \in Sh!Sr /\ sr.bl = four /\ sr.rb = d.sr.rb
  <2>1. level \in 0..MaxLevel
    BY <1>1
  <2> DEFINE q == d.sr
  <2>2. q \in Sh!Sr /\ sr = [q EXCEPT !.mask = level, !.bl = four]
    BY <1>3
  <2> HIDE DEF q, sr
  <2>3. sr \in Sh!Sr
    BY <1>3, <2>1, <2>2 DEF Sh!Sr
  <2>4. sr.bl = four /\ sr.rb = q.rb
    BY <2>2 DEF Sh!Sr
  <2> QED
    BY <2>3, <2>4 DEF q
<1> HIDE DEF sr
<1>7. /\ e \in ShStates /\ e.four = four /\ e.sr = sr /\ e.r = d.r
      /\ e.bank = d.bank /\ e.stack = d.stack
  BY <1>2, <1>6 DEF ShStates
<1> HIDE DEF e
<1>8. /\ t \in ShStates /\ t.four = four /\ t.sr = sr /\ t.r = d.r
      /\ t.bank = d.bank /\ t.stack = d.stack
  BY <1>7, ShAt, ShPlace
<1> HIDE DEF t
<1>9. ShBanks(t)
  BY <1>1, <1>2, <1>6, <1>8 DEF ShBanks, four
<1>10. ShFits(t.four, t.sr)
  BY <1>1, <1>2, <1>6, <1>8 DEF ShFits, four
<1>11. ShFramed(t, new)
  BY <1>2, <1>8 DEF ShFramed
<1>12. Len(t.stack) <= ShFrames
  <2>1. Len(v1.stack) < ShFrames /\ Len(v1.stack) \in Nat
    BY <1>1, LenProperties DEF Sh!Interrupt, ShStates
  <2> QED BY <1>1, <1>2, <1>8, <2>1
<1>13. ShBanks(t) => (v1' = t /\ v2' = v2 => ShBanks(v1)')
  BY DEF ShBanks
<1> QED
  BY <1>1, <1>5, <1>8, <1>9, <1>10, <1>11, <1>12, <1>13 DEF ShInv, ShFits, ShFramed

\* A step that leaves the banks' history and the frames alone.
LEMMA ShGoesOn ==
  ASSUME ShInv, NEW t \in ShStates, v1' = t, v2' = v2, v3' = v3,
         t.four = v1.four, t.stack = v1.stack, ShBanks(t), ShFits(t.four, t.sr)
  PROVE  ShInv'
<1>1. ShBanks(v1)'
  BY DEF ShBanks
<1>2. ShFramed(v1, v3)'
  BY DEF ShInv, ShFramed
<1> QED
  BY <1>1, <1>2 DEF ShInv

LEMMA ShBranches ==
  ASSUME ShInv, \/ Sh!Rts \/ Sh!Plain
                \/ \E p \in Sh!Place, link \in BOOLEAN : Sh!Branch(p, link)
  PROVE  ShInv'
<1> DEFINE f == Sh!Fetched
<1>1. v1 \in ShStates /\ ShBanks(v1) /\ ShFits(v1.four, v1.sr)
  BY DEF ShInv
<1>2. /\ f \in ShStates /\ f.four = v1.four /\ f.sr = v1.sr /\ f.r = v1.r
      /\ f.bank = v1.bank /\ f.stack = v1.stack
  BY <1>1, ShFetched
<1>3. v1.pr \in Sh!Place /\ v1.pc \in Sh!Place /\ f.pr \in Sh!Place
  BY <1>1, <1>2 DEF ShStates
<1>4. v2' = v2 /\ v3' = v3
  BY DEF Sh!Rts, Sh!Plain, Sh!Branch
<1>5. \E next, pr \in Sh!Place : v1' = f \/ v1' = [f EXCEPT !.next = next, !.pr = pr]
  <2>1. CASE Sh!Plain
    BY <1>3, <2>1 DEF Sh!Plain
  <2>2. CASE Sh!Rts
    <3>1. [f EXCEPT !.next = v1.pr] = [f EXCEPT !.next = v1.pr, !.pr = f.pr]
      BY <1>2 DEF ShStates
    <3> QED BY <1>3, <2>2, <3>1 DEF Sh!Rts
  <2>3. ASSUME NEW p \in Sh!Place, NEW link \in BOOLEAN, Sh!Branch(p, link)
        PROVE  \E next, pr \in Sh!Place : v1' = [f EXCEPT !.next = next, !.pr = pr]
    <3> DEFINE far == Sh!After(Sh!After(v1.pc))
               pr == IF link THEN far ELSE f.pr
    <3>1. far \in Sh!Place
      BY <1>3, ShPlace
    <3>2. pr \in Sh!Place
      BY <1>3, <3>1
    <3>3. v1' = [f EXCEPT !.next = p, !.pr = pr]
      BY <1>2, <2>3 DEF Sh!Branch, ShStates
    <3> HIDE DEF pr
    <3> QED BY <3>2, <3>3
  <2> QED BY <2>1, <2>2, <2>3
<1>6. PICK next \in Sh!Place, pr \in Sh!Place :
        v1' = f \/ v1' = [f EXCEPT !.next = next, !.pr = pr]
  BY <1>5
<1> DEFINE t == [f EXCEPT !.next = next, !.pr = pr]
<1> HIDE DEF f
<1>7. /\ t \in ShStates /\ t.four = f.four /\ t.sr = f.sr /\ t.r = f.r
      /\ t.bank = f.bank /\ t.stack = f.stack
  BY <1>2 DEF ShStates
<1>8. v1' = f \/ v1' = t
  BY <1>6
<1> HIDE DEF t
<1>9. ShBanks(t) /\ ShBanks(f) /\ ShFits(t.four, t.sr) /\ ShFits(f.four, f.sr)
  BY <1>1, <1>2, <1>7 DEF ShBanks
<1> QED
  BY <1>2, <1>4, <1>7, <1>8, <1>9, ShGoesOn

LEMMA ShLoadSr == ASSUME ShInv, NEW s \in Sh!Sr, Sh!LoadSr(s) PROVE ShInv'
<1> DEFINE f == Sh!Fetched
           t == Sh!SrWrite(f, s)
<1>1. /\ v1 \in ShStates /\ ShBanks(v1) /\ ShFits(v1.four, v1.sr)
      /\ v2 \in [{0, 1} -> ShValues]
  BY DEF ShInv
<1>2. /\ f \in ShStates /\ f.four = v1.four /\ f.sr = v1.sr /\ f.r = v1.r
      /\ f.bank = v1.bank /\ f.stack = v1.stack
  BY <1>1, ShFetched
<1>3. v1' = t /\ v2' = v2 /\ v3' = v3
  BY DEF Sh!LoadSr
<1> HIDE DEF f
<1>4. ShBanks(f) /\ ShFits(f.four, f.sr)
  BY <1>1, <1>2 DEF ShBanks
<1>5. /\ t \in ShStates /\ t.four = f.four /\ t.stack = f.stack
      /\ ShBanks(t) /\ ShFits(f.four, t.sr)
  BY <1>1, <1>2, <1>4, ShSrWrite
<1> HIDE DEF t
<1> QED
  BY <1>2, <1>3, <1>5, ShGoesOn

LEMMA ShSetR == ASSUME ShInv, NEW v \in ShValues, Sh!SetR(v) PROVE ShInv'
<1> DEFINE f == Sh!Fetched
           t == [f EXCEPT !.r = v]
           new == [v2 EXCEPT ![v1.sr.rb] = v]
<1>1. /\ v1 \in ShStates /\ ShBanks(v1) /\ ShFits(v1.four, v1.sr) /\ ShFramed(v1, v3)
      /\ v2 \in [{0, 1} -> ShValues] /\ Len(v1.stack) <= ShFrames
  BY DEF ShInv
<1>2. /\ f \in ShStates /\ f.four = v1.four /\ f.sr = v1.sr /\ f.r = v1.r
      /\ f.bank = v1.bank /\ f.stack = v1.stack
  BY <1>1, ShFetched
<1>3. v1' = t /\ v2' = new /\ v3' = v3
  BY DEF Sh!SetR
<1> HIDE DEF f
<1>4. v1.sr.rb \in {0, 1}
  BY <1>1 DEF ShStates, Sh!Sr
<1>5. /\ new \in [{0, 1} -> ShValues] /\ new[v1.sr.rb] = v
      /\ new[1 - v1.sr.rb] = v2[1 - v1.sr.rb]
  BY <1>1, <1>4
<1> HIDE DEF new
<1>6. /\ t \in ShStates /\ t.four = f.four /\ t.sr = f.sr /\ t.r = v
      /\ t.bank = f.bank /\ t.stack = f.stack
  BY <1>2 DEF ShStates
<1> HIDE DEF t
<1>7. ShBanks(v1)'
  BY <1>1, <1>2, <1>3, <1>5, <1>6 DEF ShBanks
<1>8. ShFramed(v1, v3)'
  BY <1>1, <1>2, <1>3, <1>6 DEF ShFramed
<1> QED
  BY <1>1, <1>2, <1>3, <1>5, <1>6, <1>7, <1>8 DEF ShInv

LEMMA ShTrap == ASSUME ShInv, Sh!Trap PROVE ShInv'
<1> DEFINE f == Sh!Fetched
           c == Sh!Stacked(f)
           sr == [c.sr EXCEPT !.bl = TRUE]
           w == Sh!SrWrite(c, sr)
           e == IF v1.four THEN w ELSE c
           t == Sh!At(e, Sh!Vector)
           new == <<v1.sr>> \o v3
<1>1. /\ v1 \in ShStates /\ v2 \in [{0, 1} -> ShValues] /\ ShBanks(v1)
      /\ ShFits(v1.four, v1.sr) /\ ShFramed(v1, v3) /\ ShFrames \in Nat
  BY ProcessorsFit DEF ShInv, Sh!ShAssumption
<1>2. /\ f \in ShStates /\ f.four = v1.four /\ f.sr = v1.sr /\ f.r = v1.r
      /\ f.bank = v1.bank /\ f.stack = v1.stack
  BY <1>1, ShFetched
<1>3. v1' = t /\ v2' = v2 /\ v3' = new
  BY <1>2 DEF Sh!Trap
<1> HIDE DEF f, w
<1>4. ShFramed(f, v3) /\ ShFits(f.four, f.sr) /\ ShBanks(f)
  BY <1>1, <1>2 DEF ShFramed, ShBanks
<1>5. /\ c \in ShStates /\ c.four = f.four /\ c.sr = f.sr /\ c.r = f.r /\ c.bank = f.bank
      /\ Len(c.stack) = Len(f.stack) + 1 /\ ShFramed(c, new)
  <2>1. new = <<f.sr>> \o v3
    BY <1>2
  <2> HIDE DEF new
  <2> QED BY <1>2, <1>4, <2>1, ShStacked
<1> HIDE DEF c, new
<1>6. ShBanks(c) /\ ShFits(c.four, c.sr)
  BY <1>4, <1>5 DEF ShBanks
<1>7. sr \in Sh!Sr
  <2>1. c.sr \in Sh!Sr
    BY <1>5 DEF ShStates
  <2> QED BY <2>1 DEF Sh!Sr
<1> HIDE DEF sr
<1>8. w \in ShStates /\ w.four = c.four /\ w.stack = c.stack /\ ShBanks(w)
      /\ ShFits(c.four, w.sr)
  BY <1>1, <1>5, <1>6, <1>7, ShSrWrite DEF w
<1>9. e \in ShStates /\ e.four = c.four /\ e.stack = c.stack /\ ShBanks(e)
      /\ ShFits(c.four, e.sr)
  BY <1>5, <1>6, <1>8
<1> HIDE DEF e
<1>10. /\ t \in ShStates /\ t.four = e.four /\ t.sr = e.sr /\ t.r = e.r
       /\ t.bank = e.bank /\ t.stack = e.stack
  BY <1>9, ShAt, ShPlace
<1> HIDE DEF t
<1>11. ShBanks(v1)'
  BY <1>3, <1>9, <1>10 DEF ShBanks
<1>12. ShFramed(v1, v3)' /\ ShFits(v1.four, v1.sr)'
  BY <1>3, <1>5, <1>9, <1>10 DEF ShFramed, ShFits
<1>13. Len(t.stack) <= ShFrames
  <2>1. Len(v1.stack) < ShFrames /\ Len(v1.stack) \in Nat
    BY <1>1, LenProperties DEF Sh!Trap, ShStates
  <2> QED BY <1>1, <1>2, <1>5, <1>9, <1>10, <2>1
<1> QED
  BY <1>1, <1>3, <1>10, <1>11, <1>12, <1>13 DEF ShInv

\* A return takes the newest frame, whose SR is the one noted for it.
LEMMA ShReturn ==
  ASSUME ShInv, Sh!Rte
  PROVE  ShInv' /\ v1'.sr = Head(v3)
<1> DEFINE f == Sh!Fetched
           frame == Head(v1.stack)
           w == Sh!SrWrite(f, frame.sr)
           rest == Tail(w.stack)
           pc == frame.pc
           t == [w EXCEPT !.next = pc, !.stack = rest]
           new == Tail(v3)
<1>1. /\ v1 \in ShStates /\ v2 \in [{0, 1} -> ShValues] /\ ShBanks(v1)
      /\ ShFits(v1.four, v1.sr) /\ ShFramed(v1, v3) /\ Len(v1.stack) <= ShFrames
      /\ ShFrames \in Nat
  BY ProcessorsFit DEF ShInv, Sh!ShAssumption
<1>2. /\ f \in ShStates /\ f.four = v1.four /\ f.sr = v1.sr /\ f.r = v1.r
      /\ f.bank = v1.bank /\ f.stack = v1.stack
  BY <1>1, ShFetched
<1>3. v1.stack # << >> /\ v1.stack \in Seq(ShFrameSet)
  BY <1>1 DEF Sh!Rte, ShStates
<1>4. /\ Tail(v1.stack) \in Seq(ShFrameSet) /\ Len(Tail(v1.stack)) = Len(v1.stack) - 1
      /\ frame = v1.stack[1] /\ frame \in ShFrameSet /\ Len(v1.stack) \in Nat \ {0}
      /\ \A i \in 1..(Len(v1.stack) - 1) : Tail(v1.stack)[i] = v1.stack[i + 1]
  BY <1>3, Popped
<1>5. frame.sr \in Sh!Sr /\ pc \in Sh!Place
  BY <1>4 DEF ShFrameSet
<1>6. v1' = t /\ v2' = v2 /\ v3' = new
  <2>1. w \in ShStates
    BY <1>1, <1>2, <1>5, ShSrWrite DEF ShBanks
  <2> QED BY <2>1 DEF Sh!Rte, ShStates
<1> HIDE DEF f
<1>7. ShBanks(f) /\ ShFits(f.four, f.sr)
  BY <1>1, <1>2 DEF ShBanks
<1>8. /\ v3 \in Seq(Sh!Sr) /\ Len(v3) = Len(v1.stack)
      /\ \A i \in 1..Len(v3) : v3[i] = v1.stack[i].sr /\ ShFits(v1.four, v3[i])
  BY <1>1 DEF ShFramed
<1>9. /\ new \in Seq(Sh!Sr) /\ Len(new) = Len(v3) - 1 /\ Head(v3) = v3[1]
      /\ \A i \in 1..(Len(v3) - 1) : new[i] = v3[i + 1]
  <2>1. v3 # << >>
    BY <1>4, <1>8, EmptySeq
  <2> QED BY <1>8, <2>1, Popped
<1>10. Head(v3) = frame.sr /\ ShFits(v1.four, frame.sr)
  <2>1. 1 \in 1..Len(v3)
    BY <1>4, <1>8
  <2> QED BY <1>4, <1>8, <1>9, <2>1
<1>11. /\ w \in ShStates /\ w.four = f.four /\ w.stack = f.stack /\ ShBanks(w)
       /\ w.sr = frame.sr
  BY <1>1, <1>2, <1>5, <1>7, <1>10, ShSrWrite
<1> HIDE DEF w, frame
<1>12. rest = Tail(v1.stack)
  BY <1>2, <1>11
<1> HIDE DEF rest, new, pc
<1>13. /\ t \in ShStates /\ t.four = w.four /\ t.sr = w.sr /\ t.r = w.r
       /\ t.bank = w.bank /\ t.stack = rest
  BY <1>4, <1>5, <1>11, <1>12 DEF ShStates
<1> HIDE DEF t
<1>14. ShBanks(v1)'
  BY <1>6, <1>11, <1>13 DEF ShBanks
<1>15. ShFits(v1.four, v1.sr)'
  BY <1>2, <1>6, <1>10, <1>11, <1>13 DEF ShFits
<1>16. ASSUME NEW i \in 1..Len(new) PROVE new[i] = rest[i].sr /\ ShFits(v1.four, new[i])
  <2>1. i \in 1..(Len(v3) - 1) /\ i + 1 \in 1..Len(v3) /\ i \in 1..(Len(v1.stack) - 1)
    BY <1>4, <1>8, <1>9
  <2> QED BY <1>4, <1>8, <1>9, <1>12, <2>1
<1>17. Len(new) = Len(rest)
  BY <1>4, <1>8, <1>9, <1>12
<1>18. ShFramed(v1, v3)'
  BY <1>2, <1>6, <1>9, <1>11, <1>13, <1>16, <1>17 DEF ShFramed
<1>19. Len(t.stack) <= ShFrames
  BY <1>1, <1>4, <1>12, <1>13
<1> QED
  BY <1>1, <1>6, <1>10, <1>11, <1>13, <1>14, <1>15, <1>18, <1>19 DEF ShInv

LEMMA ShStep == ASSUME ShInv, Sh!Next PROVE ShInv'
  BY ShInterrupt, ShTrap, ShReturn, ShBranches, ShLoadSr, ShSetR DEF Sh!Next, Sh!Execute

LEMMA ShIdle == ASSUME ShInv, UNCHANGED <<v1, v2, v3>> PROVE ShInv'
  BY DEF ShInv, ShBanks, ShFramed

LEMMA ShInvImplies == ASSUME ShInv PROVE Sh!TypeOK /\ Sh!BanksKept
  BY DEF ShInv, ShStates, ShFrameSet, ShBanks, Sh!TypeOK, Sh!BanksKept

LEMMA ShRestores == ASSUME ShInv PROVE Sh!SrRestored
  BY ShReturn DEF Sh!SrRestored

(***************************************************************************)
(* The SNES.                                                               *)
(***************************************************************************)

SnesCpus == [k : SnesBanks, pc : SnesPlaces, p : Snes!Flags, e : BOOLEAN,
             sp : Snes!Cells, nmi : BOOLEAN, wai : BOOLEAN, stp : BOOLEAN]
SnesHolds == [k : SnesBanks, pc : SnesPlaces, p : Snes!Flags, e : BOOLEAN, sp : Snes!Cells]

\* The frame that a program held is interrupted in: four bytes above where the
\* interrupt left the stack pointer.
SnesFrame(h) ==
  [cells |-> [i \in 1..4 |-> Snes!At(h.e, h.sp + i)], k |-> h.k, pc |-> h.pc, p |-> h.p]

\* Either no frame is followed, or the one of the program held.
SnesFollow(frames, holds) ==
  \/ frames = {} /\ holds = {}
  \/ \E h \in SnesHolds : holds = {h} /\ frames = {SnesFrame(h)}

SnesInv == v1 \in SnesCpus /\ (v1.e => v1.p.x) /\ SnesFollow(v2, v3)

LEMMA SnesSizes ==
  /\ PageSize \in Nat \ {0} /\ PageSize >= 4 /\ PageSize * Pages \in Nat \ {0}
  /\ 2 * PageSize <= PageSize * Pages /\ 0 \in SnesBanks
<1>1. PageSize \in Nat /\ PageSize >= 4 /\ Pages \in Nat /\ Pages >= 2 /\ 0 \in SnesBanks
  BY ProcessorsFit DEF Snes!SnesCpuAssumption
<1>2. CASE Pages = 2
  BY <1>1, <1>2
<1>3. CASE Pages > 2
  <2>1. PageSize * 2 + PageSize <= PageSize * Pages
    BY <1>1, <1>3, MultStep
  <2>2. PageSize * Pages \in Int
    BY <1>1
  <2> QED BY <1>1, <2>1, <2>2
<1> QED
  BY <1>1, <1>2, <1>3

\* A remainder of a number that may lie below 0, taken early.
LEMMA ModEarly ==
  ASSUME NEW m \in Nat \ {0}, NEW a \in Int, a + m \in Nat, NEW b \in Nat
  PROVE  /\ a % m \in 0..(m - 1)
         /\ ((a % m) + b) % m = (a + b) % m
<1> DEFINE r == a % m
           c == a + m
           q == a \div m
<1>1. q \in Int /\ r \in 0..(m - 1) /\ a = m * q + r
  OBVIOUS
<1> HIDE DEF r, q
<1>2. m * (q + 1) = m * q + m /\ m * q \in Int
  BY <1>1
<1>3. c = m * (q + 1) + r /\ c \in Nat /\ q + 1 \in Int
  BY <1>1, <1>2
<1> HIDE DEF c
<1>4. c % m = r
  BY <1>1, <1>3, DivUnique
<1>5. (b + (c % m)) % m = (b + c) % m
  BY <1>3, ModPlus
<1> DEFINE d == b + r
           k == d \div m
           s == d % m
<1>6. d \in Nat
  BY <1>1
<1> HIDE DEF d
<1>7. k \in Int /\ s \in 0..(m - 1) /\ d = m * k + s
  BY <1>6, DivParts
<1> HIDE DEF k, s
<1> DEFINE f == a + b
<1>8. m * (q + k) = m * q + m * k /\ m * k \in Int /\ q + k \in Int
  BY <1>1, <1>7
<1>9. f = m * (q + k) + s
  BY <1>1, <1>2, <1>7, <1>8 DEF d
<1>10. f % m = s
  <2>1. f \in Int
    BY <1>1
  <2> HIDE DEF f
  <2> DEFINE g == f % m
             t == f \div m
  <2>2. t \in Int /\ g \in 0..(m - 1) /\ f = m * t + g
    BY <2>1
  <2> HIDE DEF g, t
  <2>3. m * t \in Int /\ m * (q + k) \in Int
    BY <1>8, <2>2
  <2>4. ~(t < q + k)
    <3> SUFFICES ASSUME t < q + k PROVE FALSE
      OBVIOUS
    <3>1. m * t + m <= m * (q + k)
      BY <1>8, <2>2, MultStep
    <3> QED BY <1>7, <1>9, <2>2, <2>3, <3>1
  <2>5. ~(q + k < t)
    <3> SUFFICES ASSUME q + k < t PROVE FALSE
      OBVIOUS
    <3>1. m * (q + k) + m <= m * t
      BY <1>8, <2>2, MultStep
    <3> QED BY <1>7, <1>9, <2>2, <2>3, <3>1
  <2>6. t = q + k
    BY <1>8, <2>2, <2>4, <2>5
  <2>7. g = s
    BY <1>7, <1>9, <2>2, <2>3, <2>6
  <2> QED BY <2>7 DEF g
<1> QED
  BY <1>1, <1>10 DEF r, d, f, s

\* Wherever pushes and pops go, they stay in the bank.
LEMMA SnesAt ==
  ASSUME NEW e \in BOOLEAN, NEW a \in Int, a >= 0 - PageSize
  PROVE  Snes!At(e, a) \in Snes!Cells
<1> DEFINE m == PageSize
           n == PageSize * Pages
<1>1. m \in Nat \ {0} /\ n \in Nat \ {0} /\ 2 * m <= n
  BY SnesSizes
<1>2. a + m \in Nat /\ a + n \in Nat
  BY <1>1
<1> HIDE DEF n
<1>3. a % m \in 0..(m - 1) /\ a % n \in 0..(n - 1)
  BY <1>1, <1>2, ModEarly
<1>4. m + (a % m) \in 0..(n - 1)
  BY <1>1, <1>3
<1> QED
  BY <1>3, <1>4 DEF Snes!At, Snes!Cells, n

\* What an interrupt pushes lies above where it leaves the stack pointer.
LEMMA SnesAbove ==
  ASSUME NEW e \in BOOLEAN, NEW a \in Snes!Cells, NEW i \in 1..4
  PROVE  Snes!At(e, Snes!At(e, a - 4) + i) = Snes!At(e, a - (4 - i))
<1> DEFINE m == PageSize
           n == PageSize * Pages
           b == a - 4
<1>1. m \in Nat \ {0} /\ n \in Nat \ {0} /\ 2 * m <= n /\ m >= 4
  BY SnesSizes
<1>2. a \in Nat
  BY <1>1 DEF Snes!Cells
<1>3. b \in Int /\ b + m \in Nat /\ b + n \in Nat /\ b + i = a - (4 - i)
  BY <1>1, <1>2
<1> HIDE DEF n, b
<1>4. /\ b % m \in 0..(m - 1) /\ ((b % m) + i) % m = (b + i) % m
      /\ ((b % n) + i) % n = (b + i) % n
  <2>1. i \in Nat
    OBVIOUS
  <2>2. b % m \in 0..(m - 1) /\ ((b % m) + i) % m = (b + i) % m
    BY <1>1, <1>3, <2>1, ModEarly
  <2>3. ((b % n) + i) % n = (b + i) % n
    BY <1>1, <1>3, <2>1, ModEarly
  <2> QED BY <2>2, <2>3
<1> DEFINE x == b % m
           y == x + i
<1>5. x \in Nat /\ y \in Nat
  BY <1>4
<1>6. (m + x) + i = y + m /\ m % m = 0
  BY <1>1, <1>5
<1>7. ((m + x) + i) % m = y % m
  <2>1. (y + (m % m)) % m = (y + m) % m
    BY <1>1, <1>5, ModPlus
  <2> QED BY <1>5, <1>6, <2>1
<1>8. CASE e
  <2>1. Snes!At(e, b) = m + x
    BY <1>8 DEF Snes!At
  <2>2. Snes!At(e, (m + x) + i) = m + ((b + i) % m)
    BY <1>4, <1>7, <1>8 DEF Snes!At
  <2>3. Snes!At(e, b + i) = m + ((b + i) % m)
    BY <1>8 DEF Snes!At
  <2> QED BY <1>3, <2>1, <2>2, <2>3 DEF b
<1>9. CASE ~e
  <2>1. Snes!At(e, b) = b % n
    BY <1>9 DEF Snes!At, n
  <2>2. Snes!At(e, (b % n) + i) = (b + i) % n
    BY <1>4, <1>9 DEF Snes!At, n
  <2>3. Snes!At(e, b + i) = (b + i) % n
    BY <1>9 DEF Snes!At, n
  <2> QED BY <1>3, <2>1, <2>2, <2>3 DEF b
<1> QED
  BY <1>8, <1>9

LEMMA SnesInit == ASSUME Snes!Init PROVE SnesInv
<1>1. v1 \in [k : {0}, pc : SnesPlaces, p : {[i |-> TRUE, c |-> FALSE, x |-> TRUE]},
              e : {TRUE}, sp : {2 * PageSize - 1}, nmi : {FALSE}, wai : {FALSE},
              stp : {FALSE}]
      /\ v2 = {} /\ v3 = {}
  BY DEF Snes!Init
<1> DEFINE p == [i |-> TRUE, c |-> FALSE, x |-> TRUE]
<1>2. p \in Snes!Flags /\ p.x = TRUE
  BY DEF Snes!Flags
<1> HIDE DEF p
<1>3. 2 * PageSize - 1 \in Snes!Cells
  BY SnesSizes DEF Snes!Cells
<1>4. v1 \in SnesCpus /\ v1.p = p
  BY <1>1, <1>2, <1>3, SnesSizes DEF SnesCpus, p
<1> QED
  BY <1>1, <1>2, <1>4 DEF SnesInv, SnesFollow

LEMMA SnesTypes ==
  ASSUME SnesInv
  PROVE  /\ v1 \in SnesCpus /\ (v1.e => v1.p.x) /\ SnesFollow(v2, v3)
         /\ v1.k \in SnesBanks /\ v1.pc \in SnesPlaces /\ v1.p \in Snes!Flags
         /\ v1.e \in BOOLEAN /\ v1.sp \in Snes!Cells /\ v1.sp \in Nat
         /\ v1.p.i \in BOOLEAN /\ v1.p.c \in BOOLEAN /\ v1.p.x \in BOOLEAN
<1>1. v1 \in SnesCpus
  BY DEF SnesInv
<1>2. /\ v1.k \in SnesBanks /\ v1.pc \in SnesPlaces /\ v1.p \in Snes!Flags
      /\ v1.e \in BOOLEAN /\ v1.sp \in Snes!Cells
  BY <1>1 DEF SnesCpus
<1>3. v1.p.i \in BOOLEAN /\ v1.p.c \in BOOLEAN /\ v1.p.x \in BOOLEAN
  BY <1>2 DEF Snes!Flags
<1>4. v1.sp \in Nat
  BY <1>2, SnesSizes DEF Snes!Cells
<1> QED
  BY <1>1, <1>2, <1>3, <1>4 DEF SnesInv

LEMMA SnesGoes ==
  ASSUME NEW c \in SnesCpus, v1' = c, c.e => c.p.x, SnesFollow(v2', v3')
  PROVE  SnesInv'
  BY DEF SnesInv

\* A write leaves the frame followed as it is, or there is none any more.
LEMMA SnesWrites ==
  ASSUME SnesFollow(v2, v3), NEW written, Snes!Write(written)
  PROVE  SnesFollow(v2', v3')
<1>1. v2' \subseteq v2 /\ v3' = IF v2' = {} THEN {} ELSE v3
  BY DEF Snes!Write, Snes!Whole
<1>2. CASE v2' = {}
  BY <1>1, <1>2 DEF SnesFollow
<1>3. CASE v2' # {}
  <2>1. PICK h \in SnesHolds : v3 = {h} /\ v2 = {SnesFrame(h)}
    BY <1>1, <1>3 DEF SnesFollow
  <2>2. v2' = {SnesFrame(h)} /\ v3' = {h}
    BY <1>1, <1>3, <2>1
  <2> QED BY <2>2 DEF SnesFollow
<1> QED
  BY <1>2, <1>3

\* The processor c, which differs from the one before in what interrupts do not
\* look at, is interrupted.
LEMMA SnesInterrupt ==
  ASSUME SnesInv, NEW c \in SnesCpus, c.e = v1.e, c.sp = v1.sp, c.p = v1.p,
         Snes!Interrupt(c)
  PROVE  SnesInv'
<1> DEFINE sp == Snes!At(c.e, c.sp - 4)
<1>1. PICK a \in SnesPlaces : v1' = Snes!Handler(c, a)
  BY DEF Snes!Interrupt
<1>2. /\ c.k \in SnesBanks /\ c.pc \in SnesPlaces /\ c.p \in Snes!Flags
      /\ c.e \in BOOLEAN /\ c.sp \in Snes!Cells /\ c.sp \in Nat
      /\ c.p.x \in BOOLEAN
  <2>1. c.k \in SnesBanks /\ c.pc \in SnesPlaces
    BY DEF SnesCpus
  <2> QED BY <2>1, SnesTypes
<1>3. sp \in Snes!Cells
  BY <1>2, SnesAt, SnesSizes
<1> HIDE DEF sp
<1>4. SnesFollow(v2', v3')
  <2>1. CASE Snes!Write(Snes!Pushed(4))
    BY <2>1, SnesTypes, SnesWrites
  <2>2. CASE /\ v2' = {Snes!Frame(c)}
             /\ v3' = {[k |-> c.k, pc |-> c.pc, p |-> c.p, e |-> c.e,
                        sp |-> Snes!At(c.e, c.sp - 4)]}
    <3> DEFINE h == [k |-> c.k, pc |-> c.pc, p |-> c.p, e |-> c.e, sp |-> sp]
    <3>1. /\ h \in SnesHolds /\ h.e = c.e /\ h.sp = sp /\ h.k = c.k /\ h.pc = c.pc
          /\ h.p = c.p
      BY <1>2, <1>3 DEF SnesHolds
    <3>2. v3' = {h}
      BY <2>2 DEF sp
    <3> HIDE DEF h
    <3>3. \A i \in 1..4 : Snes!At(h.e, h.sp + i) = Snes!At(c.e, c.sp - (4 - i))
      BY <1>2, <3>1, SnesAbove DEF sp
    <3>4. Snes!Frame(c) = SnesFrame(h)
      BY <3>1, <3>3 DEF Snes!Frame, SnesFrame
    <3> QED BY <2>2, <3>1, <3>2, <3>4 DEF SnesFollow
  <2> QED
    BY <2>1, <2>2 DEF Snes!Interrupt
<1> DEFINE x == c.p.x \/ c.e
           i == TRUE
           p == [c.p EXCEPT !.i = i, !.x = x]
           k == IF c.e THEN 0 ELSE c.k
           t == [c EXCEPT !.sp = sp, !.pc = a, !.p = p, !.k = k]
<1>5. Snes!Handler(c, a) = t
  BY <1>2 DEF Snes!Handler, SnesCpus, sp
<1>6. x \in BOOLEAN /\ (c.e => x) /\ i \in BOOLEAN /\ k \in SnesBanks
  BY <1>2, SnesSizes
<1> HIDE DEF x, i, k
<1>7. p \in Snes!Flags /\ p.x = x
  BY <1>2, <1>6 DEF Snes!Flags
<1> HIDE DEF p
<1>8. t \in SnesCpus /\ t.e = c.e /\ t.p = p
  BY <1>2, <1>3, <1>6, <1>7 DEF SnesCpus
<1> HIDE DEF t
<1> QED
  BY <1>1, <1>4, <1>5, <1>6, <1>7, <1>8, SnesGoes

LEMMA SnesServed == ASSUME SnesInv, Snes!Service PROVE SnesInv'
<1> DEFINE c == [v1 EXCEPT !.nmi = FALSE, !.wai = FALSE]
<1>1. c \in SnesCpus /\ c.e = v1.e /\ c.sp = v1.sp /\ c.p = v1.p
  BY SnesTypes DEF SnesCpus
<1>2. Snes!Interrupt(c)
  BY DEF Snes!Service
<1> HIDE DEF c
<1> QED
  BY <1>1, <1>2, SnesInterrupt

LEMMA SnesBroken == ASSUME SnesInv, NEW a \in SnesPlaces, Snes!Break(a) PROVE SnesInv'
<1> DEFINE c == [v1 EXCEPT !.pc = a]
<1>1. c \in SnesCpus /\ c.e = v1.e /\ c.sp = v1.sp /\ c.p = v1.p
  BY SnesTypes DEF SnesCpus
<1>2. Snes!Interrupt(c)
  BY DEF Snes!Break
<1> HIDE DEF c
<1> QED
  BY <1>1, <1>2, SnesInterrupt

\* The stack pointer, the bank and the place move.
LEMMA SnesMoves ==
  ASSUME SnesInv, NEW s \in Snes!Cells, NEW k \in SnesBanks, NEW a \in SnesPlaces,
         v1' = [v1 EXCEPT !.sp = s, !.k = k, !.pc = a], SnesFollow(v2', v3')
  PROVE  SnesInv'
<1> DEFINE t == [v1 EXCEPT !.sp = s, !.k = k, !.pc = a]
<1>1. t \in SnesCpus /\ t.e = v1.e /\ t.p = v1.p
  BY SnesTypes DEF SnesCpus
<1> HIDE DEF t
<1>2. v1' = t
  BY DEF t
<1> QED
  BY <1>1, <1>2, SnesTypes, SnesGoes

LEMMA SnesMoved ==
  ASSUME SnesInv,
         \/ \E k \in SnesBanks, a \in SnesPlaces :
              Snes!Plain(k, a) \/ Snes!Call(k, a) \/ Snes!Return(3, k, a)
         \/ \E a \in SnesPlaces : Snes!Return(2, v1.k, a)
         \/ \E cell \in Snes!Cells : Snes!Store(cell) \/ Snes!SetStack(cell)
         \/ \E n \in 1..3 : Snes!Push(n)
         \/ \E n \in 1..2 : Snes!Pull(n)
  PROVE  SnesInv'
<1>0. /\ v1 \in SnesCpus /\ v1.k \in SnesBanks /\ v1.pc \in SnesPlaces
      /\ v1.sp \in Snes!Cells /\ v1.e \in BOOLEAN /\ SnesFollow(v2, v3)
  BY SnesTypes
<1>1. ASSUME NEW n \in 0..3
      PROVE  Snes!At(v1.e, v1.sp - n) \in Snes!Cells /\ Snes!At(v1.e, v1.sp + n) \in Snes!Cells
  BY SnesTypes, SnesSizes, SnesAt
<1>2. (v2' = v2 /\ v3' = v3) => SnesFollow(v2', v3')
  BY <1>0
<1>3. ASSUME NEW k \in SnesBanks, NEW a \in SnesPlaces, Snes!Plain(k, a) PROVE SnesInv'
  <2>1. v1' = [v1 EXCEPT !.sp = v1.sp, !.k = k, !.pc = a] /\ v2' = v2 /\ v3' = v3
    BY <1>0, <1>3 DEF Snes!Plain, SnesCpus
  <2> QED BY <1>0, <1>2, <2>1, SnesMoves
<1>4. ASSUME NEW k \in SnesBanks, NEW a \in SnesPlaces, Snes!Call(k, a) PROVE SnesInv'
  <2> DEFINE s == Snes!At(v1.e, v1.sp - 3)
  <2>1. v1' = [v1 EXCEPT !.sp = s, !.k = k, !.pc = a] /\ Snes!Write(Snes!Pushed(3))
    BY <1>4 DEF Snes!Call
  <2>2. s \in Snes!Cells
    BY <1>1
  <2> HIDE DEF s
  <2> QED BY <1>0, <2>1, <2>2, SnesWrites, SnesMoves
<1>5. ASSUME NEW n \in 2..3, NEW k \in SnesBanks, NEW a \in SnesPlaces, Snes!Return(n, k, a)
      PROVE  SnesInv'
  <2> DEFINE s == Snes!At(v1.e, v1.sp + n)
  <2>1. v1' = [v1 EXCEPT !.sp = s, !.k = k, !.pc = a] /\ v2' = v2 /\ v3' = v3
    BY <1>5 DEF Snes!Return
  <2>2. s \in Snes!Cells
    BY <1>1
  <2> HIDE DEF s
  <2> QED BY <1>2, <2>1, <2>2, SnesMoves
<1>6. ASSUME NEW cell \in Snes!Cells, Snes!Store(cell) PROVE SnesInv'
  <2>1. v1' = v1 /\ Snes!Write({cell})
    BY <1>6 DEF Snes!Store
  <2>2. v1' = [v1 EXCEPT !.sp = v1.sp, !.k = v1.k, !.pc = v1.pc]
    BY <1>0, <2>1 DEF SnesCpus
  <2>3. SnesFollow(v2', v3')
    BY <1>0, <2>1, SnesWrites
  <2> QED BY <1>0, <2>2, <2>3, SnesMoves
<1>7. ASSUME NEW s \in Snes!Cells, v1' = [v1 EXCEPT !.sp = s], SnesFollow(v2', v3')
      PROVE  SnesInv'
  <2>1. v1' = [v1 EXCEPT !.sp = s, !.k = v1.k, !.pc = v1.pc]
    BY <1>0, <1>7 DEF SnesCpus
  <2>2. SnesFollow(v2', v3')
    BY <1>7
  <2> QED BY <1>0, <2>1, <2>2, SnesMoves
<1>8. ASSUME NEW cell \in Snes!Cells, Snes!SetStack(cell) PROVE SnesInv'
  <2> DEFINE s == Snes!At(v1.e, cell)
  <2>1. v1' = [v1 EXCEPT !.sp = s] /\ v2' = v2 /\ v3' = v3
    BY <1>8 DEF Snes!SetStack
  <2>2. s \in Snes!Cells
    <3>1. cell \in Int /\ cell >= 0 - PageSize
      BY SnesSizes DEF Snes!Cells
    <3> QED BY <1>0, <3>1, SnesAt
  <2> HIDE DEF s
  <2> QED BY <1>2, <1>7, <2>1, <2>2
<1>9. ASSUME NEW n \in 1..3, Snes!Push(n) PROVE SnesInv'
  <2> DEFINE s == Snes!At(v1.e, v1.sp - n)
  <2>1. v1' = [v1 EXCEPT !.sp = s] /\ Snes!Write(Snes!Pushed(n))
    BY <1>9 DEF Snes!Push
  <2>2. s \in Snes!Cells
    BY <1>1
  <2> HIDE DEF s
  <2> QED BY <1>0, <1>7, <2>1, <2>2, SnesWrites
<1>10. ASSUME NEW n \in 1..2, Snes!Pull(n) PROVE SnesInv'
  <2> DEFINE s == Snes!At(v1.e, v1.sp + n)
  <2>1. v1' = [v1 EXCEPT !.sp = s] /\ v2' = v2 /\ v3' = v3
    BY <1>10 DEF Snes!Pull
  <2>2. s \in Snes!Cells
    BY <1>1
  <2> HIDE DEF s
  <2> QED BY <1>2, <1>7, <2>1, <2>2
<1>11. CASE \/ \E k \in SnesBanks, a \in SnesPlaces : Snes!Return(3, k, a)
            \/ \E a \in SnesPlaces : Snes!Return(2, v1.k, a)
  <2>1. 2 \in 2..3 /\ 3 \in 2..3 /\ v1.k \in SnesBanks
    BY <1>0
  <2> QED BY <1>5, <1>11, <2>1
<1> QED
  BY <1>3, <1>4, <1>6, <1>8, <1>9, <1>10, <1>11

LEMMA SnesPlain ==
  ASSUME SnesInv, Snes!Wait \/ Snes!Stop \/ Snes!Raise \/ Snes!Sleep
  PROVE  SnesInv'
<1> USE SnesTypes
<1>1. CASE Snes!Wait
  <2> DEFINE t == [v1 EXCEPT !.wai = TRUE]
  <2>1. t \in SnesCpus /\ t.e = v1.e /\ t.p = v1.p
    BY DEF SnesCpus
  <2>2. v1' = t /\ v2' = v2 /\ v3' = v3
    BY <1>1 DEF Snes!Wait
  <2> HIDE DEF t
  <2> QED BY <2>1, <2>2, SnesGoes
<1>2. CASE Snes!Stop
  <2> DEFINE t == [v1 EXCEPT !.stp = TRUE]
  <2>1. t \in SnesCpus /\ t.e = v1.e /\ t.p = v1.p
    BY DEF SnesCpus
  <2>2. v1' = t /\ v2' = v2 /\ v3' = v3
    BY <1>2 DEF Snes!Stop
  <2> HIDE DEF t
  <2> QED BY <2>1, <2>2, SnesGoes
<1>3. CASE Snes!Raise
  <2> DEFINE t == [v1 EXCEPT !.nmi = TRUE]
  <2>1. t \in SnesCpus /\ t.e = v1.e /\ t.p = v1.p
    BY DEF SnesCpus
  <2>2. v1' = t /\ v2' = v2 /\ v3' = v3
    BY <1>3 DEF Snes!Raise
  <2> HIDE DEF t
  <2> QED BY <2>1, <2>2, SnesGoes
<1>4. CASE Snes!Sleep
  BY <1>4 DEF Snes!Sleep, Snes!snescpuvars, SnesInv
<1> QED
  BY <1>1, <1>2, <1>3, <1>4

\* In emulation mode the index registers are narrow, whatever writes the flags.
LEMMA SnesFlag ==
  ASSUME SnesInv,
         \/ Snes!Xce
         \/ \E b, c \in BOOLEAN : Snes!SetFlags(b, c) \/ Snes!Width(b)
         \/ \E p \in Snes!Flags : Snes!Plp(p)
  PROVE  SnesInv'
<1>0. /\ v1 \in SnesCpus /\ v1.p \in Snes!Flags /\ v1.e \in BOOLEAN /\ (v1.e => v1.p.x)
      /\ v1.p.i \in BOOLEAN /\ v1.p.c \in BOOLEAN /\ v1.p.x \in BOOLEAN
      /\ v1.sp \in Snes!Cells /\ v1.sp \in Nat /\ SnesFollow(v2, v3)
  BY SnesTypes
<1>1. CASE Snes!Xce
  <2> DEFINE e == v1.p.c
             c == v1.e
             x == v1.p.x \/ v1.p.c
             p == [v1.p EXCEPT !.c = c, !.x = x]
             s == IF v1.p.c THEN Snes!At(TRUE, v1.sp) ELSE v1.sp
             t == [v1 EXCEPT !.e = e, !.p = p, !.sp = s]
  <2>1. v1' = t /\ v2' = v2 /\ v3' = v3
    BY <1>0, <1>1 DEF Snes!Xce, SnesCpus
  <2>2. e \in BOOLEAN /\ c \in BOOLEAN /\ x \in BOOLEAN /\ (e => x)
    BY <1>0
  <2>3. s \in Snes!Cells
    <3>1. Snes!At(TRUE, v1.sp) \in Snes!Cells
      <4>1. TRUE \in BOOLEAN /\ v1.sp \in Int /\ v1.sp >= 0 - PageSize
        BY <1>0, SnesSizes
      <4> QED BY <4>1, SnesAt
    <3> QED BY <1>0, <3>1
  <2> HIDE DEF e, c, x, s
  <2>4. p \in Snes!Flags /\ p.x = x
    BY <1>0, <2>2 DEF Snes!Flags
  <2> HIDE DEF p
  <2>5. t \in SnesCpus /\ t.e = e /\ t.p = p
    BY <1>0, <2>2, <2>3, <2>4 DEF SnesCpus
  <2> HIDE DEF t
  <2> QED BY <1>0, <2>1, <2>2, <2>4, <2>5, SnesGoes
<1>2. ASSUME NEW i \in BOOLEAN, NEW c \in BOOLEAN, Snes!SetFlags(i, c) PROVE SnesInv'
  <2> DEFINE p == [v1.p EXCEPT !.i = i, !.c = c]
             t == [v1 EXCEPT !.p = p]
  <2>1. v1' = t /\ v2' = v2 /\ v3' = v3
    BY <1>0, <1>2 DEF Snes!SetFlags, SnesCpus
  <2>2. p \in Snes!Flags /\ p.x = v1.p.x
    BY <1>0 DEF Snes!Flags
  <2> HIDE DEF p
  <2>3. t \in SnesCpus /\ t.e = v1.e /\ t.p = p
    BY <1>0, <2>2 DEF SnesCpus
  <2> HIDE DEF t
  <2> QED BY <1>0, <2>1, <2>2, <2>3, SnesGoes
<1>3. ASSUME NEW b \in BOOLEAN, Snes!Width(b) PROVE SnesInv'
  <2> DEFINE x == b \/ v1.e
             p == [v1.p EXCEPT !.x = x]
             t == [v1 EXCEPT !.p = p]
  <2>1. v1' = t /\ v2' = v2 /\ v3' = v3
    BY <1>0, <1>3 DEF Snes!Width, SnesCpus
  <2>2. x \in BOOLEAN /\ (v1.e => x)
    BY <1>0
  <2> HIDE DEF x
  <2>3. p \in Snes!Flags /\ p.x = x
    BY <1>0, <2>2 DEF Snes!Flags
  <2> HIDE DEF p
  <2>4. t \in SnesCpus /\ t.e = v1.e /\ t.p = p
    BY <1>0, <2>3 DEF SnesCpus
  <2> HIDE DEF t
  <2> QED BY <1>0, <2>1, <2>2, <2>3, <2>4, SnesGoes
<1>4. ASSUME NEW f \in Snes!Flags, Snes!Plp(f) PROVE SnesInv'
  <2> DEFINE x == v1.p.x \/ v1.e
             p == [f EXCEPT !.x = x]
             s == Snes!At(v1.e, v1.sp + 1)
             t == [v1 EXCEPT !.sp = s, !.p = p]
  <2>1. v1' = t /\ v2' = v2 /\ v3' = v3
    BY <1>4 DEF Snes!Plp, Snes!Pulled
  <2>2. x \in BOOLEAN /\ (v1.e => x) /\ s \in Snes!Cells
    BY <1>0, SnesSizes, SnesAt
  <2> HIDE DEF x, s
  <2>3. p \in Snes!Flags /\ p.x = x
    BY <2>2 DEF Snes!Flags
  <2> HIDE DEF p
  <2>4. t \in SnesCpus /\ t.e = v1.e /\ t.p = p
    BY <1>0, <2>2, <2>3 DEF SnesCpus
  <2> HIDE DEF t
  <2> QED BY <1>0, <2>1, <2>2, <2>3, <2>4, SnesGoes
<1> QED
  BY <1>1, <1>2, <1>3, <1>4

\* With the stack back at the frame of the program held, RTI finds that frame.
LEMMA SnesBack ==
  ASSUME SnesInv, NEW h \in v3, Snes!BackAt(h)
  PROVE  /\ h \in SnesHolds /\ v2 = {SnesFrame(h)} /\ Snes!Popped = {SnesFrame(h)}
         /\ SnesFrame(h).k = h.k /\ SnesFrame(h).pc = h.pc /\ SnesFrame(h).p = h.p
<1>1. h \in SnesHolds /\ v2 = {SnesFrame(h)}
  BY SnesTypes DEF SnesFollow
<1>2. /\ SnesFrame(h).k = h.k /\ SnesFrame(h).pc = h.pc /\ SnesFrame(h).p = h.p
      /\ \A i \in 1..4 : SnesFrame(h).cells[i] = Snes!At(h.e, h.sp + i)
  BY DEF SnesFrame
<1>3. Snes!Found = {SnesFrame(h)}
  BY <1>1, <1>2 DEF Snes!Found, Snes!BackAt
<1> QED
  BY <1>1, <1>2, <1>3 DEF Snes!Popped

LEMMA SnesRti == ASSUME SnesInv, Snes!Rti PROVE SnesInv' /\ Snes!ProgramResumes
<1>0. /\ v1 \in SnesCpus /\ v1.p \in Snes!Flags /\ v1.e \in BOOLEAN /\ v1.p.x \in BOOLEAN
      /\ v1.sp \in Nat /\ SnesFollow(v2, v3)
  BY SnesTypes
<1>1. PICK f \in Snes!Popped :
        v1' = [v1 EXCEPT !.sp = Snes!At(v1.e, v1.sp + 4), !.k = f.k, !.pc = f.pc,
                         !.p = Snes!Pulled(f.p)]
  BY <1>0 DEF Snes!Rti, SnesCpus
<1>2. v2' = v2 \ Snes!Found /\ v3' = IF v2' = {} THEN {} ELSE v3
  BY DEF Snes!Rti
<1>3. f.k \in SnesBanks /\ f.pc \in SnesPlaces /\ f.p \in Snes!Flags
  <2>1. CASE Snes!Found # {}
    <3>1. f \in v2
      BY <1>1, <2>1 DEF Snes!Popped, Snes!Found
    <3>2. PICK h \in SnesHolds : f = SnesFrame(h)
      BY <1>0, <3>1 DEF SnesFollow
    <3> QED BY <3>2 DEF SnesFrame, SnesHolds
  <2>2. CASE Snes!Found = {}
    BY <1>1, <2>2 DEF Snes!Popped
  <2> QED BY <2>1, <2>2
<1>4. SnesFollow(v2', v3')
  BY <1>0, <1>2 DEF SnesFollow
<1> DEFINE x == v1.p.x \/ v1.e
           p == [f.p EXCEPT !.x = x]
           s == Snes!At(v1.e, v1.sp + 4)
           k == f.k
           a == f.pc
           t == [v1 EXCEPT !.sp = s, !.k = k, !.pc = a, !.p = p]
<1>5. v1' = t
  BY <1>1 DEF Snes!Pulled
<1>6. x \in BOOLEAN /\ (v1.e => x) /\ s \in Snes!Cells
  BY <1>0, SnesSizes, SnesAt
<1> HIDE DEF x, s
<1>7. p \in Snes!Flags /\ p.x = x /\ p.i = f.p.i /\ p.c = f.p.c
  BY <1>3, <1>6 DEF Snes!Flags
<1> HIDE DEF p
<1>8. k \in SnesBanks /\ a \in SnesPlaces /\ k = f.k /\ a = f.pc
  BY <1>3
<1> HIDE DEF k, a
<1>9. t \in SnesCpus /\ t.e = v1.e /\ t.p = p /\ t.k = k /\ t.pc = a
  BY <1>0, <1>6, <1>7, <1>8 DEF SnesCpus
<1> HIDE DEF t
<1>10. SnesInv'
  BY <1>4, <1>5, <1>6, <1>7, <1>9, SnesGoes
<1>11. ASSUME NEW h \in v3, Snes!BackAt(h)
       PROVE  /\ v1'.k = h.k /\ v1'.pc = h.pc
              /\ v1'.p.i = h.p.i /\ v1'.p.c = h.p.c
  <2>1. /\ f = SnesFrame(h)
        /\ SnesFrame(h).k = h.k /\ SnesFrame(h).pc = h.pc /\ SnesFrame(h).p = h.p
    BY <1>1, <1>11, SnesBack
  <2>2. f.k = h.k /\ f.pc = h.pc /\ f.p = h.p
    BY <2>1
  <2> QED BY <1>5, <1>7, <1>8, <1>9, <2>2
<1> QED
  BY <1>10, <1>11 DEF Snes!ProgramResumes

LEMMA SnesAfterReset == ASSUME SnesInv, Snes!SnesReset PROVE SnesInv'
<1>0. /\ v1 \in SnesCpus /\ v1.p \in Snes!Flags /\ 0 \in SnesBanks
      /\ v1.e \in BOOLEAN /\ v1.sp \in Nat
  BY SnesTypes, SnesSizes
<1>1. PICK a \in SnesPlaces :
        v1' = [v1 EXCEPT !.k = 0, !.pc = a, !.e = TRUE, !.sp = Snes!At(v1.e, v1.sp - 3),
                         !.p = [v1.p EXCEPT !.i = TRUE, !.x = TRUE],
                         !.nmi = FALSE, !.wai = FALSE, !.stp = FALSE]
  BY <1>0 DEF Snes!SnesReset, SnesCpus
<1>2. v2' = {} /\ v3' = {}
  BY DEF Snes!SnesReset
<1> DEFINE p == [v1.p EXCEPT !.i = TRUE, !.x = TRUE]
           s == Snes!At(v1.e, v1.sp - 3)
           d == [v1 EXCEPT !.nmi = FALSE, !.wai = FALSE, !.stp = FALSE]
           t == [d EXCEPT !.k = 0, !.pc = a, !.e = TRUE, !.sp = s, !.p = p]
<1>3. d \in SnesCpus
  BY <1>0 DEF SnesCpus
<1>4. v1' = t
  BY <1>0, <1>1 DEF SnesCpus
<1>5. p \in Snes!Flags /\ p.x = TRUE
  BY <1>0 DEF Snes!Flags
<1>6. s \in Snes!Cells
  BY <1>0, SnesSizes, SnesAt
<1> HIDE DEF p, s, d
<1>7. t \in SnesCpus /\ t.p = p
  BY <1>0, <1>3, <1>5, <1>6 DEF SnesCpus
<1> HIDE DEF t
<1> QED
  BY <1>2, <1>4, <1>5, <1>7, SnesGoes DEF SnesFollow

LEMMA SnesStep == ASSUME SnesInv, Snes!Next PROVE SnesInv'
<1>1. CASE Snes!Service \/ Snes!SnesReset
  BY <1>1, SnesServed, SnesAfterReset
<1>2. CASE Snes!Sleep \/ Snes!Raise
  BY <1>2, SnesPlain
<1>3. CASE Snes!Execute
  BY <1>3, SnesPlain, SnesMoved, SnesBroken, SnesFlag, SnesRti DEF Snes!Execute
<1> QED
  BY <1>1, <1>2, <1>3 DEF Snes!Next

LEMMA SnesIdle == ASSUME SnesInv, UNCHANGED <<v1, v2, v3>> PROVE SnesInv'
  BY DEF SnesInv

LEMMA SnesInvImplies == ASSUME SnesInv PROVE Snes!TypeOK
<1>1. ASSUME NEW h \in SnesHolds
      PROVE  SnesFrame(h) \in [cells : [1..4 -> Snes!Cells], k : SnesBanks,
                               pc : SnesPlaces, p : Snes!Flags]
  <2>1. /\ h.k \in SnesBanks /\ h.pc \in SnesPlaces /\ h.p \in Snes!Flags
        /\ h.e \in BOOLEAN /\ h.sp \in Snes!Cells
    BY DEF SnesHolds
  <2>2. h.sp \in Nat
    BY <2>1, SnesSizes DEF Snes!Cells
  <2>3. \A i \in 1..4 : Snes!At(h.e, h.sp + i) \in Snes!Cells
    BY <2>1, <2>2, SnesSizes, SnesAt
  <2> QED BY <2>1, <2>3 DEF SnesFrame
<1>2. /\ v2 \subseteq [cells : [1..4 -> Snes!Cells], k : SnesBanks, pc : SnesPlaces,
                       p : Snes!Flags]
      /\ v3 \subseteq SnesHolds
  BY <1>1, SnesTypes DEF SnesFollow
<1> QED
  BY <1>2, SnesTypes DEF SnesCpus, SnesHolds, Snes!TypeOK

LEMMA SnesResumes == ASSUME SnesInv PROVE Snes!ProgramResumes
  BY SnesRti DEF Snes!ProgramResumes

(***************************************************************************)
(* The PlayStation.                                                        *)
(***************************************************************************)

PsxSrs == [cur : BOOLEAN, prev : BOOLEAN, old : BOOLEAN]
PsxCpus == [pc : Psx!Place, next : Psx!Place, sr : PsxSrs, epc : Psx!Place, bd : BOOLEAN,
            exc : Psx!Place, slot : BOOLEAN]

\* SR's lower levels are the enables the exceptions found; handlers run with
\* interrupts off, so that RFE's or-ing changes nothing.
PsxLevels(sr, enables) ==
  /\ Len(enables) >= 1 => sr.cur = FALSE /\ sr.prev = enables[1]
  /\ Len(enables) = 2 => enables[1] = FALSE /\ sr.old = enables[2]

\* A program that is not about to run on in sequence is in the slot of the
\* branch noted.
PsxSlot(c, branch) == c.next # Psx!After(c.pc) => branch \in Psx!Place /\ c.pc = Psx!After(branch)

PsxInv ==
  /\ v1 \in PsxCpus /\ v2 \in BOOLEAN
  /\ v3 \in [branch : Psx!Place \cup {Psx!None}, enables : Seq(BOOLEAN)]
  /\ Len(v3.enables) <= PsxDepth
  /\ PsxLevels(v1.sr, v3.enables) /\ PsxSlot(v1, v3.branch)

LEMMA PsxPlaceFacts ==
  /\ PsxPlaces \in Nat /\ PsxPlaces > 1 /\ PsxDepth \in 1..2
  /\ 0 \in Psx!Place /\ Psx!None \notin Psx!Place
  /\ \A p \in Psx!Place : /\ Psx!After(p) \in Psx!Place /\ Psx!Before(p) \in Psx!Place
                          /\ Psx!Before(Psx!After(p)) = p
<1>1. PsxPlaces \in Nat /\ PsxPlaces > 1 /\ PsxDepth \in 1..2
  BY ProcessorsFit DEF Psx!PsxCpuAssumption
<1>2. ASSUME NEW p \in Psx!Place
      PROVE  /\ Psx!After(p) \in Psx!Place /\ Psx!Before(p) \in Psx!Place
             /\ Psx!Before(Psx!After(p)) = p
  <2>1. p \in Nat /\ p < PsxPlaces
    BY <1>1 DEF Psx!Place
  <2>2. Psx!After(p) \in Psx!Place /\ Psx!Before(p) \in Psx!Place
    BY <1>1, <2>1 DEF Psx!Place, Psx!After, Psx!Before
  <2>3. CASE p = PsxPlaces - 1
    <3>1. Psx!After(p) = 0
      BY <1>1, <2>3 DEF Psx!After
    <3>2. Psx!Before(0) = PsxPlaces - 1
      BY <1>1 DEF Psx!Before
    <3> QED BY <2>2, <2>3, <3>1, <3>2
  <2>4. CASE p # PsxPlaces - 1
    <3>1. Psx!After(p) = p + 1
      BY <1>1, <2>1, <2>4 DEF Psx!After
    <3>2. Psx!Before(p + 1) = p
      <4>1. (p + 1) + PsxPlaces - 1 = p + PsxPlaces
        BY <1>1, <2>1
      <4>2. (p + PsxPlaces) % PsxPlaces = p
        BY <1>1, <2>1
      <4> QED BY <4>1, <4>2 DEF Psx!Before
    <3> QED BY <2>2, <3>1, <3>2
  <2> QED BY <2>3, <2>4
<1>3. 0 \in Psx!Place /\ Psx!None \notin Psx!Place
  BY <1>1 DEF Psx!Place, Psx!None
<1> QED
  BY <1>1, <1>2, <1>3

LEMMA PsxInit == ASSUME Psx!Init PROVE PsxInv
<1>1. PICK p \in Psx!Place :
        v1 = [pc |-> p, next |-> Psx!After(p), epc |-> 0, bd |-> FALSE, exc |-> 0,
              slot |-> FALSE, sr |-> [cur |-> FALSE, prev |-> FALSE, old |-> FALSE]]
  BY DEF Psx!Init
<1>2. v2 = FALSE /\ v3 = [branch |-> Psx!None, enables |-> << >>]
  BY DEF Psx!Init
<1>3. << >> \in Seq(BOOLEAN) /\ Len(<< >>) = 0
  BY EmptySeq
<1> DEFINE sr == [cur |-> FALSE, prev |-> FALSE, old |-> FALSE]
           n == Psx!After(p)
<1>4. sr \in PsxSrs
  BY DEF PsxSrs
<1>5. n \in Psx!Place /\ 0 \in Psx!Place /\ PsxDepth \in 1..2
  BY PsxPlaceFacts
<1>6. v1.pc = p /\ v1.next = n
  BY <1>1
<1> HIDE DEF sr, n
<1>7. v1 \in PsxCpus
  BY <1>1, <1>4, <1>5 DEF PsxCpus, sr, n
<1>8. /\ v3 \in [branch : Psx!Place \cup {Psx!None}, enables : Seq(BOOLEAN)]
      /\ Len(v3.enables) = 0
  BY <1>2, <1>3
<1>9. PsxLevels(v1.sr, v3.enables)
  BY <1>8 DEF PsxLevels
<1>10. PsxSlot(v1, v3.branch)
  BY <1>6 DEF PsxSlot, n
<1>11. Len(v3.enables) <= PsxDepth
  BY <1>5, <1>8
<1> QED
  BY <1>2, <1>7, <1>8, <1>9, <1>10, <1>11 DEF PsxInv

\* An exception keeps the enable it finds below those found before.
LEMMA PsxExcepted ==
  ASSUME PsxInv, NEW c \in PsxCpus, c.sr = v1.sr, Len(v3.enables) < PsxDepth,
         v1' = Psx!Excepted(c), v2' = v2, v3' = Psx!Deeper
  PROVE  PsxInv' /\ v1'.epc = IF c.slot THEN Psx!Before(c.exc) ELSE c.exc
<1> DEFINE sr == Psx!Pushed(c.sr)
           epc == IF c.slot THEN Psx!Before(c.exc) ELSE c.exc
           n == Psx!After(0)
           bd == c.slot
           d == [c EXCEPT !.sr = sr, !.epc = epc, !.bd = bd]
           t == [d EXCEPT !.pc = 0, !.next = n]
           cur == v1.sr.cur
           enables == <<cur>> \o v3.enables
<1>1. /\ v1 \in PsxCpus /\ v2 \in BOOLEAN /\ v3.enables \in Seq(BOOLEAN)
      /\ PsxLevels(v1.sr, v3.enables) /\ PsxDepth \in 1..2
      /\ Len(v3.enables) \in Nat
  <2>1. v3.enables \in Seq(BOOLEAN)
    BY DEF PsxInv
  <2> QED BY <2>1, LenProperties, PsxPlaceFacts DEF PsxInv
<1>2. c.sr \in PsxSrs /\ c.exc \in Psx!Place /\ c.slot \in BOOLEAN
  BY DEF PsxCpus
<1>3. cur \in BOOLEAN /\ v1.sr.prev \in BOOLEAN
  BY <1>2 DEF PsxSrs
<1>4. sr \in PsxSrs /\ sr.cur = FALSE /\ sr.prev = cur /\ sr.old = v1.sr.prev
  <2>1. FALSE \in BOOLEAN
    OBVIOUS
  <2> QED BY <1>3, <2>1 DEF PsxSrs, Psx!Pushed
<1>5. epc \in Psx!Place /\ n \in Psx!Place /\ 0 \in Psx!Place /\ bd \in BOOLEAN
  BY <1>2, PsxPlaceFacts
<1>6. v1' = t
  BY DEF Psx!Excepted
<1> HIDE DEF sr, epc, n, bd
<1>7. d \in PsxCpus /\ d.sr = sr /\ d.epc = epc
  BY <1>4, <1>5 DEF PsxCpus
<1> HIDE DEF d
<1>8. t \in PsxCpus /\ t.sr = sr /\ t.epc = epc /\ t.pc = 0 /\ t.next = n
  BY <1>5, <1>7 DEF PsxCpus
<1> HIDE DEF t
<1>9. /\ enables \in Seq(BOOLEAN) /\ Len(enables) = Len(v3.enables) + 1
      /\ enables[1] = cur
      /\ \A i \in 1..Len(v3.enables) : enables[i + 1] = v3.enables[i]
  BY <1>1, <1>3, Pushed
<1>10. v3' = [branch |-> Psx!None, enables |-> enables]
  BY DEF Psx!Deeper
<1> HIDE DEF enables
<1>11. PsxLevels(sr, enables)
  <2>1. CASE Len(enables) = 2
    <3>1. Len(v3.enables) = 1 /\ 1 \in 1..Len(v3.enables) /\ 1 + 1 = 2
      <4> DEFINE m == Len(v3.enables)
      <4>1. m \in Nat /\ m + 1 = 2
        BY <1>1, <1>9, <2>1
      <4> HIDE DEF m
      <4>2. m = 1 /\ 1 \in 1..m
        BY <4>1
      <4> QED BY <4>2 DEF m
    <3>2. v1.sr.cur = FALSE /\ v1.sr.prev = v3.enables[1]
      BY <1>1, <3>1 DEF PsxLevels
    <3>3. enables[2] = v3.enables[1]
      BY <1>9, <3>1
    <3> QED BY <1>4, <1>9, <3>2, <3>3 DEF PsxLevels
  <2>2. CASE Len(enables) # 2
    BY <1>4, <1>9, <2>2 DEF PsxLevels
  <2> QED BY <2>1, <2>2
<1>12. v3' \in [branch : Psx!Place \cup {Psx!None}, enables : Seq(BOOLEAN)]
  BY <1>9, <1>10
<1>13. Len(enables) <= PsxDepth
  BY <1>1, <1>9
<1>14. v3'.enables = enables
  BY <1>10
<1>15. PsxSlot(v1, v3.branch)'
  BY <1>6, <1>8 DEF PsxSlot, n, Psx!After
<1>16. PsxLevels(v1.sr, v3.enables)'
  BY <1>6, <1>8, <1>11, <1>14 DEF PsxLevels
<1> QED
  BY <1>1, <1>6, <1>8, <1>12, <1>13, <1>14, <1>15, <1>16 DEF PsxInv, epc

LEMMA PsxFetched ==
  ASSUME PsxInv
  PROVE  /\ Psx!Fetched \in PsxCpus /\ Psx!Fetched.sr = v1.sr
         /\ Psx!Fetched.exc = v1.pc /\ Psx!Fetched.pc = v1.next
         /\ Psx!Fetched.next = Psx!After(v1.next)
         /\ Psx!Fetched.slot = (v1.next # Psx!After(v1.pc))
<1> DEFINE exc == v1.pc
           slot == v1.next # Psx!After(v1.pc)
           pc == v1.next
           next == Psx!After(v1.next)
           d == [v1 EXCEPT !.exc = exc, !.slot = slot]
           t == [d EXCEPT !.pc = pc, !.next = next]
<1>1. v1 \in PsxCpus
  BY DEF PsxInv
<1>2. exc \in Psx!Place /\ pc \in Psx!Place /\ next \in Psx!Place /\ slot \in BOOLEAN
  BY <1>1, PsxPlaceFacts DEF PsxCpus
<1>3. Psx!Fetched = t
  BY DEF Psx!Fetched
<1> HIDE DEF exc, slot, pc, next
<1>4. d \in PsxCpus /\ d.sr = v1.sr /\ d.exc = exc /\ d.slot = slot
  BY <1>1, <1>2 DEF PsxCpus
<1> HIDE DEF d
<1>5. t \in PsxCpus /\ t.sr = v1.sr /\ t.exc = exc /\ t.slot = slot /\ t.pc = pc /\ t.next = next
  BY <1>2, <1>4 DEF PsxCpus
<1> HIDE DEF t
<1> QED
  BY <1>3, <1>5 DEF exc, slot, pc, next

LEMMA PsxTrap == ASSUME PsxInv, Psx!Trap PROVE PsxInv' /\ Psx!TrapReplays
<1> DEFINE c == Psx!Fetched
<1>1. /\ c \in PsxCpus /\ c.sr = v1.sr /\ c.exc = v1.pc
      /\ c.slot = (v1.next # Psx!After(v1.pc))
  BY PsxFetched
<1>2. /\ Len(v3.enables) < PsxDepth /\ v1' = Psx!Excepted(c) /\ v2' = v2
      /\ v3' = Psx!Deeper
  BY DEF Psx!Trap
<1> HIDE DEF c
<1>3. PsxInv' /\ v1'.epc = IF c.slot THEN Psx!Before(c.exc) ELSE c.exc
  BY <1>1, <1>2, PsxExcepted
<1>4. CASE v1.next = Psx!After(v1.pc)
  BY <1>1, <1>3, <1>4 DEF Psx!TrapReplays
<1>5. CASE v1.next # Psx!After(v1.pc)
  <2>1. v3.branch \in Psx!Place /\ v1.pc = Psx!After(v3.branch)
    BY <1>5 DEF PsxInv, PsxSlot
  <2>2. Psx!Before(v1.pc) = v3.branch
    BY <2>1, PsxPlaceFacts
  <2>3. v1'.epc = v3.branch
    BY <1>1, <1>3, <1>5, <2>2
  <2> QED
    BY <1>3, <2>3 DEF Psx!TrapReplays
<1> QED
  BY <1>4, <1>5

LEMMA PsxInterrupt == ASSUME PsxInv, Psx!Interrupt PROVE PsxInv'
  BY PsxExcepted DEF Psx!Interrupt, PsxInv

\* Instructions that run on in sequence, and the slots of branches.
LEMMA PsxRuns ==
  ASSUME PsxInv, NEW sr \in PsxSrs, v1' = [Psx!Fetched EXCEPT !.sr = sr], v2' = v2,
         v3' \in [branch : Psx!Place \cup {Psx!None}, enables : Seq(BOOLEAN)],
         Len(v3'.enables) <= PsxDepth, PsxLevels(sr, v3'.enables)
  PROVE  PsxInv' /\ v1'.sr = sr
<1> DEFINE f == Psx!Fetched
           t == [f EXCEPT !.sr = sr]
<1>1. f \in PsxCpus /\ f.next = Psx!After(v1.next) /\ f.pc = v1.next
  BY PsxFetched
<1>2. v1' = t
  OBVIOUS
<1> HIDE DEF f
<1>3. t \in PsxCpus /\ t.sr = sr /\ t.pc = f.pc /\ t.next = f.next
  BY <1>1 DEF PsxCpus
<1> HIDE DEF t
<1>4. PsxSlot(v1, v3.branch)'
  BY <1>1, <1>2, <1>3 DEF PsxSlot, Psx!After
<1>5. PsxLevels(v1.sr, v3.enables)'
  BY <1>2, <1>3 DEF PsxLevels
<1> QED
  BY <1>2, <1>3, <1>4, <1>5 DEF PsxInv

LEMMA PsxPlain == ASSUME PsxInv, Psx!Plain PROVE PsxInv'
<1> DEFINE new == [v3 EXCEPT !.branch = Psx!None]
<1>1. /\ v3 \in [branch : Psx!Place \cup {Psx!None}, enables : Seq(BOOLEAN)]
      /\ Len(v3.enables) <= PsxDepth /\ PsxLevels(v1.sr, v3.enables) /\ v1 \in PsxCpus
  BY DEF PsxInv
<1>2. v1.sr \in PsxSrs
  BY <1>1 DEF PsxCpus
<1>3. /\ new \in [branch : Psx!Place \cup {Psx!None}, enables : Seq(BOOLEAN)]
      /\ new.enables = v3.enables
  BY <1>1
<1>4. v2' = v2 /\ v3' = new
  BY DEF Psx!Plain
<1>5. v1' = [Psx!Fetched EXCEPT !.sr = v1.sr]
  <2> DEFINE f == Psx!Fetched
  <2>1. f \in PsxCpus /\ f.sr = v1.sr
    BY PsxFetched
  <2>2. v1' = f
    BY DEF Psx!Plain
  <2> HIDE DEF f
  <2>3. f = [f EXCEPT !.sr = f.sr]
    BY <2>1 DEF PsxCpus
  <2>4. v1' = [f EXCEPT !.sr = v1.sr]
    BY <2>1, <2>2, <2>3
  <2> QED BY <2>4 DEF f
<1> HIDE DEF new
<1> QED
  BY <1>1, <1>2, <1>3, <1>4, <1>5, PsxRuns

LEMMA PsxBranch == ASSUME PsxInv, NEW p \in Psx!Place, Psx!Branch(p) PROVE PsxInv'
<1> DEFINE f == Psx!Fetched
           t == [f EXCEPT !.next = p]
           branch == v1.pc
           new == [v3 EXCEPT !.branch = branch]
<1>1. f \in PsxCpus /\ f.sr = v1.sr /\ f.pc = v1.next
  BY PsxFetched
<1>2. v1' = t /\ v2' = v2 /\ v3' = new /\ v3.branch = Psx!None
  BY DEF Psx!Branch
<1>3. /\ v3 \in [branch : Psx!Place \cup {Psx!None}, enables : Seq(BOOLEAN)]
      /\ Len(v3.enables) <= PsxDepth /\ PsxLevels(v1.sr, v3.enables) /\ v1 \in PsxCpus
      /\ v2 \in BOOLEAN
  BY DEF PsxInv
<1>4. branch \in Psx!Place
  BY <1>3 DEF PsxCpus
<1>5. v1.next = Psx!After(branch)
  BY <1>2, PsxPlaceFacts DEF PsxInv, PsxSlot
<1> HIDE DEF f, branch
<1>6. t \in PsxCpus /\ t.sr = v1.sr /\ t.pc = v1.next
  BY <1>1 DEF PsxCpus
<1>7. /\ new \in [branch : Psx!Place \cup {Psx!None}, enables : Seq(BOOLEAN)]
      /\ new.enables = v3.enables /\ new.branch = branch
  BY <1>3, <1>4
<1> HIDE DEF t, new
<1>8. PsxSlot(v1, v3.branch)'
  BY <1>2, <1>4, <1>5, <1>6, <1>7 DEF PsxSlot, Psx!After, Psx!Place
<1>9. PsxLevels(v1.sr, v3.enables)'
  BY <1>2, <1>3, <1>6, <1>7 DEF PsxLevels
<1> QED
  BY <1>2, <1>3, <1>6, <1>7, <1>8, <1>9 DEF PsxInv

\* RFE brings back the enable its exception found.
LEMMA PsxReturn == ASSUME PsxInv, Psx!Rfe PROVE PsxInv' /\ Psx!EnableRestored
<1> DEFINE old == v1.sr.old
           cur == v1.sr.cur
           prev == v1.sr.prev
           up == old \/ cur
           sr == Psx!RfeDown
           seq == v3.enables
           new == [branch |-> Psx!None, enables |-> Tail(seq)]
<1>1. /\ v3 \in [branch : Psx!Place \cup {Psx!None}, enables : Seq(BOOLEAN)]
      /\ Len(seq) <= PsxDepth /\ PsxLevels(v1.sr, seq) /\ v1 \in PsxCpus
  BY DEF PsxInv
<1>2. seq # << >> /\ v1' = [Psx!Fetched EXCEPT !.sr = sr] /\ v2' = v2 /\ v3' = new
  BY DEF Psx!Rfe
<1>3. v1.sr \in PsxSrs
  BY <1>1 DEF PsxCpus
<1>4. old \in BOOLEAN /\ cur \in BOOLEAN /\ prev \in BOOLEAN /\ up \in BOOLEAN
  BY <1>3 DEF PsxSrs
<1>5. sr = [cur |-> prev, prev |-> up, old |-> prev]
  BY DEF Psx!RfeDown
<1>6. seq \in Seq(BOOLEAN)
  BY <1>1
<1>7. /\ Tail(seq) \in Seq(BOOLEAN) /\ Len(Tail(seq)) = Len(seq) - 1 /\ Head(seq) = seq[1]
      /\ Len(seq) \in Nat \ {0}
      /\ \A i \in 1..(Len(seq) - 1) : Tail(seq)[i] = seq[i + 1]
  BY <1>2, <1>6, Popped
<1> DEFINE rest == Tail(seq)
<1>8. new \in [branch : Psx!Place \cup {Psx!None}, enables : Seq(BOOLEAN)]
      /\ new.enables = rest
  BY <1>7
<1>9. Len(seq) = 1 \/ Len(seq) = 2
  <2> DEFINE m == Len(seq)
  <2>1. m \in Nat \ {0} /\ m <= PsxDepth /\ PsxDepth \in 1..2
    BY <1>1, <1>7, PsxPlaceFacts
  <2> HIDE DEF m
  <2>2. m = 1 \/ m = 2
    BY <2>1
  <2> QED BY <2>2 DEF m
<1>10. cur = FALSE /\ prev = seq[1]
  BY <1>1, <1>7 DEF PsxLevels
<1>11. Len(seq) = 2 => prev = FALSE /\ old = seq[2]
  BY <1>1, <1>10 DEF PsxLevels
<1> HIDE DEF sr, new, seq, rest, old, cur, prev
<1>12. up = old
  BY <1>4, <1>10
<1> HIDE DEF up
<1>13. sr \in PsxSrs /\ sr.cur = prev /\ sr.prev = up /\ sr.old = prev
  BY <1>4, <1>5 DEF PsxSrs
<1>14. PsxLevels(sr, rest)
  <2>1. CASE Len(seq) = 1
    <3>1. Len(rest) = 0
      BY <1>7, <2>1 DEF rest
    <3> QED BY <3>1 DEF PsxLevels
  <2>2. CASE Len(seq) = 2
    <3>1. Len(rest) = 1
      BY <1>7, <2>2 DEF rest
    <3>2. rest[1] = seq[2]
      <4>1. 1 \in 1..(Len(seq) - 1) /\ 1 + 1 = 2
        BY <2>2
      <4> QED BY <1>7, <4>1 DEF rest
    <3> QED BY <1>11, <1>12, <1>13, <2>2, <3>1, <3>2 DEF PsxLevels
  <2> QED BY <1>9, <2>1, <2>2
<1>15. Len(rest) <= PsxDepth
  <2>1. Len(rest) = Len(seq) - 1
    BY <1>7 DEF rest
  <2> QED BY <1>1, <1>7, <2>1, PsxPlaceFacts
<1>16. PsxInv' /\ v1'.sr = sr
  <2>1. v3' \in [branch : Psx!Place \cup {Psx!None}, enables : Seq(BOOLEAN)]
    BY <1>2, <1>8
  <2>2. v3'.enables = rest
    BY <1>2, <1>8
  <2> QED BY <1>2, <1>13, <1>14, <1>15, <2>1, <2>2, PsxRuns
<1>17. v1'.sr.cur = Head(v3.enables)
  BY <1>7, <1>10, <1>13, <1>16 DEF seq
<1> QED
  BY <1>16, <1>17 DEF Psx!EnableRestored

LEMMA PsxWriteSr == ASSUME PsxInv, NEW e \in BOOLEAN, Psx!WriteSr(e) PROVE PsxInv'
<1> DEFINE sr == [cur |-> e, prev |-> FALSE, old |-> FALSE]
           new == [v3 EXCEPT !.branch = Psx!None]
<1>1. /\ v3 \in [branch : Psx!Place \cup {Psx!None}, enables : Seq(BOOLEAN)]
      /\ Len(v3.enables) <= PsxDepth /\ v3.enables = << >>
      /\ v1' = [Psx!Fetched EXCEPT !.sr = sr] /\ v2' = v2 /\ v3' = new
  BY DEF PsxInv, Psx!WriteSr
<1>2. FALSE \in BOOLEAN
  OBVIOUS
<1>3. sr \in PsxSrs
  BY <1>2 DEF PsxSrs
<1>4. /\ new \in [branch : Psx!Place \cup {Psx!None}, enables : Seq(BOOLEAN)]
      /\ new.enables = << >>
  BY <1>1
<1> HIDE DEF sr, new
<1>5. Len(<< >>) = 0
  OBVIOUS
<1>6. PsxLevels(sr, new.enables) /\ Len(new.enables) <= PsxDepth
  BY <1>1, <1>4, <1>5 DEF PsxLevels
<1> QED
  BY <1>1, <1>3, <1>4, <1>6, PsxRuns

LEMMA PsxPend == ASSUME PsxInv, NEW v \in BOOLEAN, Psx!Pend(v) PROVE PsxInv'
  BY DEF Psx!Pend, PsxInv, PsxLevels, PsxSlot, Psx!After, Psx!Place

LEMMA PsxStep == ASSUME PsxInv, Psx!Next PROVE PsxInv'
  BY PsxInterrupt, PsxPlain, PsxTrap, PsxReturn, PsxBranch, PsxWriteSr, PsxPend
     DEF Psx!Next

LEMMA PsxIdle == ASSUME PsxInv, UNCHANGED <<v1, v2, v3>> PROVE PsxInv'
  BY DEF PsxInv, PsxLevels, PsxSlot, Psx!After, Psx!Place

LEMMA PsxInvImplies == ASSUME PsxInv PROVE Psx!TypeOK
  BY DEF PsxInv, PsxCpus, PsxSrs, Psx!TypeOK

LEMMA PsxResumes == ASSUME PsxInv PROVE Psx!EnableRestored /\ Psx!TrapReplays
  BY PsxReturn, PsxTrap DEF Psx!EnableRestored, Psx!TrapReplays

(***************************************************************************)
(* The Nintendo 64.                                                        *)
(***************************************************************************)

N64Cpus == [pc : N64!Place, next : N64!Place, slot : BOOLEAN, ie : BOOLEAN, exl : BOOLEAN,
            erl : BOOLEAN, epc : N64!Place]
N64Mis == [intr : SUBSET N64!Sources, mask : SUBSET N64!Sources]
N64Vis == [line : 0..LastLine, at : 0..LastLine, latched : BOOLEAN]

\* While a handler's program is noted, EPC holds where it was, and ERET uses it.
N64Notes(c, where) == where # N64!None => c.epc = where /\ c.erl = FALSE

N64Inv ==
  /\ v1 \in N64Cpus /\ v2 \in N64Mis /\ v3 \in N64Vis
  /\ v4 \in N64!Place \cup {N64!None} /\ N64Notes(v1, v4)

LEMMA N64PlaceFacts ==
  /\ N64Places \in Nat /\ N64Places > 2 /\ LastLine \in Nat /\ LastLine > 0
  /\ 0 \in N64!Place
  /\ \A p \in N64!Place : /\ N64!After(p) \in N64!Place /\ N64!Before(p) \in N64!Place
                          /\ N64!Before(N64!After(p)) = p /\ N64!After(N64!Before(p)) = p
<1>1. N64Places \in Nat /\ N64Places > 2 /\ LastLine \in Nat /\ LastLine > 0
  BY ProcessorsFit DEF N64!N64Assumption
<1>2. ASSUME NEW p \in N64!Place
      PROVE  /\ N64!After(p) \in N64!Place /\ N64!Before(p) \in N64!Place
             /\ N64!Before(N64!After(p)) = p /\ N64!After(N64!Before(p)) = p
  <2>1. p \in Nat /\ p < N64Places
    BY <1>1 DEF N64!Place
  <2>2. N64!After(p) = IF p = N64Places - 1 THEN 0 ELSE p + 1
    BY <1>1, <2>1 DEF N64!After
  <2>3. N64!Before(p) = IF p = 0 THEN N64Places - 1 ELSE p - 1
    <3>1. CASE p = 0
      BY <1>1, <3>1 DEF N64!Before
    <3>2. CASE p # 0
      <4>1. p + N64Places - 1 = (p - 1) + N64Places /\ p - 1 \in Nat /\ p - 1 < N64Places
        BY <1>1, <2>1, <3>2
      <4> DEFINE k == p - 1
      <4>2. k \in Nat /\ k < N64Places
        BY <4>1
      <4> HIDE DEF k
      <4>3. (k + N64Places) % N64Places = k
        BY <1>1, <4>2
      <4>4. (p + N64Places - 1) % N64Places = k
        BY <4>1, <4>3 DEF k
      <4> QED BY <3>2, <4>4 DEF N64!Before, k
    <3> QED BY <3>1, <3>2
  <2>4. N64!After(p) \in N64!Place /\ N64!Before(p) \in N64!Place
    BY <1>1, <2>1, <2>2, <2>3 DEF N64!Place
  <2>5. N64!Before(N64!After(p)) = p
    <3>1. CASE p = N64Places - 1
      <4>1. N64!After(p) = 0
        BY <2>2, <3>1
      <4>2. N64!Before(0) = N64Places - 1
        BY <1>1 DEF N64!Before
      <4> QED BY <3>1, <4>1, <4>2
    <3>2. CASE p # N64Places - 1
      <4>1. N64!After(p) = p + 1
        BY <2>2, <3>2
      <4>2. (p + 1) + N64Places - 1 = p + N64Places
        BY <1>1, <2>1
      <4>3. (p + N64Places) % N64Places = p
        BY <1>1, <2>1
      <4> QED BY <4>1, <4>2, <4>3 DEF N64!Before
    <3> QED BY <3>1, <3>2
  <2>6. N64!After(N64!Before(p)) = p
    <3>1. CASE p = 0
      <4>1. N64!Before(p) = N64Places - 1 /\ (N64Places - 1) + 1 = N64Places
        BY <1>1, <2>3, <3>1
      <4>2. N64Places % N64Places = 0
        BY <1>1
      <4> QED BY <3>1, <4>1, <4>2 DEF N64!After
    <3>2. CASE p # 0
      <4>1. N64!Before(p) = p - 1 /\ (p - 1) + 1 = p
        BY <2>1, <2>3, <3>2
      <4>2. p % N64Places = p
        BY <1>1, <2>1
      <4> QED BY <4>1, <4>2 DEF N64!After
    <3> QED BY <3>1, <3>2
  <2> QED BY <2>4, <2>5, <2>6
<1>3. 0 \in N64!Place
  BY <1>1 DEF N64!Place
<1> QED
  BY <1>1, <1>2, <1>3

LEMMA N64Booted ==
  ASSUME NEW p \in N64!Place
  PROVE  N64!Boot(p) \in N64Cpus
<1> DEFINE n == N64!After(p)
<1>1. n \in N64!Place /\ 0 \in N64!Place
  BY N64PlaceFacts
<1>2. N64!Boot(p) = [pc |-> p, next |-> n, slot |-> FALSE, ie |-> FALSE,
                     exl |-> FALSE, erl |-> TRUE, epc |-> 0]
  BY DEF N64!Boot
<1> HIDE DEF n
<1> QED
  BY <1>1, <1>2 DEF N64Cpus

LEMMA N64Init == ASSUME N64!Init PROVE N64Inv
<1>1. v1 \in N64Cpus
  BY N64Booted DEF N64!Init
<1>2. v2 \in N64Mis
  BY DEF N64!Init, N64Mis
<1>3. v3 \in N64Vis
  BY N64PlaceFacts DEF N64!Init, N64Vis
<1> QED
  BY <1>1, <1>2, <1>3 DEF N64!Init, N64Inv, N64Notes

\* An exception leaves EPC at the instruction, or in a slot at its branch.
LEMMA N64Excepted ==
  ASSUME NEW c \in N64Cpus
  PROVE  /\ N64!Excepted(c) \in N64Cpus /\ N64!Excepted(c).erl = FALSE
         /\ N64!Excepted(c).epc = IF c.slot THEN N64!Before(c.pc) ELSE c.pc
<1> DEFINE epc == IF c.slot THEN N64!Before(c.pc) ELSE c.pc
           n == N64!After(0)
           d == [c EXCEPT !.epc = epc, !.erl = FALSE, !.exl = TRUE]
           t == [d EXCEPT !.pc = 0, !.next = n, !.slot = FALSE]
<1>1. epc \in N64!Place /\ n \in N64!Place /\ 0 \in N64!Place
  BY N64PlaceFacts DEF N64Cpus
<1>2. N64!Excepted(c) = t
  BY DEF N64!Excepted
<1> HIDE DEF epc, n
<1>3. d \in N64Cpus /\ d.erl = FALSE /\ d.epc = epc
  BY <1>1 DEF N64Cpus
<1> HIDE DEF d
<1>4. t \in N64Cpus /\ t.erl = FALSE /\ t.epc = epc
  BY <1>1, <1>3 DEF N64Cpus
<1> HIDE DEF t
<1> QED
  BY <1>2, <1>4 DEF epc

\* The head of a step takes an interrupt or not; either way EPC is what is noted.
LEMMA N64Sampled ==
  ASSUME N64Inv
  PROVE  /\ N64!Sampled \in N64Cpus /\ N64!Leaves \in N64!Place \cup {N64!None}
         /\ N64Notes(N64!Sampled, N64!Leaves)
<1>1. v1 \in N64Cpus /\ v4 \in N64!Place \cup {N64!None} /\ N64Notes(v1, v4)
  BY DEF N64Inv
<1>2. v1.pc \in N64!Place
  BY <1>1 DEF N64Cpus
<1>3. CASE ~N64!Takes
  BY <1>1, <1>3 DEF N64!Sampled, N64!Leaves
<1>4. CASE N64!Takes
  <2>1. /\ N64!Sampled = N64!Excepted(v1)
        /\ N64!Sampled \in N64Cpus /\ N64!Sampled.erl = FALSE
        /\ N64!Sampled.epc = IF v1.slot THEN N64!Before(v1.pc) ELSE v1.pc
    BY <1>1, <1>4, N64Excepted DEF N64!Sampled
  <2>2. N64!Leaves = IF v1.slot THEN CHOOSE b \in N64!Place : N64!After(b) = v1.pc ELSE v1.pc
    BY <1>4 DEF N64!Leaves
  <2> DEFINE chosen == CHOOSE b \in N64!Place : N64!After(b) = v1.pc
  <2>3. chosen \in N64!Place /\ N64!After(chosen) = v1.pc
    <3>1. N64!Before(v1.pc) \in N64!Place /\ N64!After(N64!Before(v1.pc)) = v1.pc
      BY <1>2, N64PlaceFacts
    <3>2. \E b \in N64!Place : N64!After(b) = v1.pc
      BY <3>1
    <3> QED BY <3>2
  <2> HIDE DEF chosen
  <2>4. chosen = N64!Before(v1.pc)
    BY <2>3, N64PlaceFacts
  <2>5. N64!Leaves = IF v1.slot THEN chosen ELSE v1.pc
    BY <2>2 DEF chosen
  <2> QED
    BY <1>2, <2>1, <2>3, <2>4, <2>5 DEF N64Notes
<1> QED
  BY <1>3, <1>4

\* The instruction is fetched, and EPC stays.
LEMMA N64Fetched ==
  ASSUME N64Inv
  PROVE  /\ N64!Fetched \in N64Cpus /\ N64!Fetched.epc = N64!Sampled.epc
         /\ N64!Fetched.erl = N64!Sampled.erl /\ N64!Fetched.exl = N64!Sampled.exl
         /\ N64!Fetched.next \in N64!Place
<1> DEFINE s == N64!Sampled
           pc == s.next
           n == N64!After(s.next)
           t == [s EXCEPT !.pc = pc, !.next = n, !.slot = FALSE]
<1>1. s \in N64Cpus
  BY N64Sampled
<1>2. N64!Fetched = t
  BY DEF N64!Fetched
<1> HIDE DEF s
<1>3. pc \in N64!Place /\ n \in N64!Place
  BY <1>1, N64PlaceFacts DEF N64Cpus
<1> HIDE DEF pc, n
<1>4. t \in N64Cpus /\ t.epc = s.epc /\ t.erl = s.erl /\ t.exl = s.exl /\ t.next = n
  BY <1>1, <1>3 DEF N64Cpus
<1> HIDE DEF t
<1> QED
  BY <1>2, <1>3, <1>4 DEF s

\* The end of a step: the VI and the MI may change, the CPU does not.
LEMMA N64Ends ==
  ASSUME NEW c \in N64Cpus, NEW m \in N64Mis, NEW v \in N64Vis, N64!Ends(c, m, v),
         v4' \in N64!Place \cup {N64!None}, N64Notes(c, v4')
  PROVE  N64Inv' /\ v1' = c
<1>1. PICK line \in {v.line, v.line + 1, 0}, intr \in {m.intr, m.intr \cup {"timer"}} :
        LET now == [v EXCEPT !.line = line] IN
        /\ line <= LastLine
        /\ v1' = c
        /\ v3' = [now EXCEPT !.latched = @ \/ N64!Reached(now)]
        /\ v2' = [m EXCEPT !.intr = intr \cup (IF N64!Reached(now) THEN {"vi"} ELSE {})]
  BY DEF N64!Ends
<1> DEFINE now == [v EXCEPT !.line = line]
           reached == N64!Reached(now)
           latched == now.latched \/ reached
           vi == [now EXCEPT !.latched = latched]
           pending == intr \cup (IF reached THEN {"vi"} ELSE {})
           mi == [m EXCEPT !.intr = pending]
<1>2. line \in 0..LastLine
  <2>1. v.line \in 0..LastLine /\ LastLine \in Nat /\ line <= LastLine
    BY <1>1, N64PlaceFacts DEF N64Vis
  <2> QED BY <2>1
<1>3. now \in N64Vis /\ now.latched \in BOOLEAN
  BY <1>2 DEF N64Vis
<1>4. v1' = c /\ v2' = mi /\ v3' = vi
  BY <1>1
<1> HIDE DEF now
<1>5. reached \in BOOLEAN /\ latched \in BOOLEAN
  BY <1>3 DEF N64!Reached, N64Vis
<1>6. pending \in SUBSET N64!Sources
  <2>1. m.intr \subseteq N64!Sources
    BY DEF N64Mis
  <2> QED BY <1>1, <2>1 DEF N64!Sources
<1> HIDE DEF reached, latched, pending
<1>7. vi \in N64Vis
  BY <1>3, <1>5 DEF N64Vis
<1>8. mi \in N64Mis
  BY <1>6 DEF N64Mis
<1> HIDE DEF vi, mi
<1> QED
  BY <1>4, <1>7, <1>8 DEF N64Inv, N64Notes

\* An instruction that leaves EPC and ERL alone.
LEMMA N64Runs ==
  ASSUME N64Inv, NEW c \in N64Cpus, c.epc = N64!Sampled.epc, c.erl = N64!Sampled.erl,
         NEW m \in N64Mis, NEW v \in N64Vis, N64!Ends(c, m, v), v4' = N64!Leaves
  PROVE  N64Inv'
<1>1. v4' \in N64!Place \cup {N64!None} /\ N64Notes(c, v4')
  BY N64Sampled DEF N64Notes
<1> QED
  BY <1>1, N64Ends

LEMMA N64Plain ==
  ASSUME N64Inv, \/ N64!Plain \/ N64!Skip
                 \/ \E p \in N64!Place : N64!Branch(p)
                 \/ \E b \in BOOLEAN : N64!WriteSr(b)
  PROVE  N64Inv'
<1> DEFINE f == N64!Fetched
<1>0. v2 \in N64Mis /\ v3 \in N64Vis /\ v4' = N64!Leaves
  BY DEF N64Inv, N64!Plain, N64!Skip, N64!Branch, N64!WriteSr
<1>1. f \in N64Cpus /\ f.epc = N64!Sampled.epc /\ f.erl = N64!Sampled.erl
      /\ f.next \in N64!Place
  BY N64Fetched
<1>2. CASE N64!Plain
  <2>1. N64!Ends(f, v2, v3)
    BY <1>2 DEF N64!Plain
  <2> HIDE DEF f
  <2> QED BY <1>0, <1>1, <2>1, N64Runs
<1>3. CASE N64!Skip
  <2> DEFINE n == N64!After(f.next)
             pc == f.next
             t == [f EXCEPT !.pc = pc, !.next = n]
  <2>1. N64!Ends(t, v2, v3)
    BY <1>3 DEF N64!Skip
  <2>2. n \in N64!Place /\ pc \in N64!Place
    BY <1>1, N64PlaceFacts
  <2> HIDE DEF f, n, pc
  <2>3. t \in N64Cpus /\ t.epc = f.epc /\ t.erl = f.erl
    BY <1>1, <2>2 DEF N64Cpus
  <2> HIDE DEF t
  <2> QED BY <1>0, <1>1, <2>1, <2>3, N64Runs
<1>4. ASSUME NEW p \in N64!Place, N64!Branch(p) PROVE N64Inv'
  <2> DEFINE t == [f EXCEPT !.next = p, !.slot = TRUE]
  <2>1. N64!Ends(t, v2, v3)
    BY <1>4 DEF N64!Branch
  <2> HIDE DEF f
  <2>2. t \in N64Cpus /\ t.epc = f.epc /\ t.erl = f.erl
    BY <1>1 DEF N64Cpus
  <2> HIDE DEF t
  <2> QED BY <1>0, <1>1, <2>1, <2>2, N64Runs
<1>5. ASSUME NEW b \in BOOLEAN, N64!WriteSr(b) PROVE N64Inv'
  <2> DEFINE t == [f EXCEPT !.ie = b]
  <2>1. N64!Ends(t, v2, v3)
    BY <1>5 DEF N64!WriteSr
  <2> HIDE DEF f
  <2>2. t \in N64Cpus /\ t.epc = f.epc /\ t.erl = f.erl
    BY <1>1 DEF N64Cpus
  <2> HIDE DEF t
  <2> QED BY <1>0, <1>1, <2>1, <2>2, N64Runs
<1> QED
  BY <1>2, <1>3, <1>4, <1>5

LEMMA N64Stored == ASSUME N64Inv, N64!Store PROVE N64Inv'
<1> DEFINE f == N64!Fetched
<1>0. v2 \in N64Mis /\ v3 \in N64Vis /\ v4' = N64!Leaves
  BY DEF N64Inv, N64!Store
<1>1. f \in N64Cpus /\ f.epc = N64!Sampled.epc /\ f.erl = N64!Sampled.erl
  BY N64Fetched
<1>2. \E m \in N64Mis, v \in N64Vis : N64!Ends(f, m, v)
  <2>1. ASSUME NEW s \in N64!Sources
        PROVE  [v2 EXCEPT !.intr = @ \ {s}] \in N64Mis
    BY <1>0 DEF N64Mis
  <2>2. ASSUME NEW mask \in {{}, {"vi"}, N64!Sources}
        PROVE  [v2 EXCEPT !.mask = mask] \in N64Mis
    <3>1. mask \in SUBSET N64!Sources
      BY DEF N64!Sources
    <3> QED BY <1>0, <3>1 DEF N64Mis
  <2>3. [v2 EXCEPT !.intr = @ \cup {"dma"}] \in N64Mis
    <3> DEFINE x == v2.intr \cup {"dma"}
    <3>1. x \in SUBSET N64!Sources
      BY <1>0 DEF N64Mis, N64!Sources
    <3> HIDE DEF x
    <3>2. [v2 EXCEPT !.intr = x] \in N64Mis
      BY <1>0, <3>1 DEF N64Mis
    <3> QED BY <3>2 DEF x
  <2>4. ASSUME NEW at \in 0..LastLine PROVE [v3 EXCEPT !.at = at] \in N64Vis
    BY <1>0 DEF N64Vis
  <2>5. [v3 EXCEPT !.latched = FALSE] \in N64Vis
    BY <1>0 DEF N64Vis
  <2>6. CASE \E s \in N64!Sources : N64!Ends(f, [v2 EXCEPT !.intr = @ \ {s}], v3)
    BY <1>0, <2>1, <2>6
  <2>7. CASE \E mask \in {{}, {"vi"}, N64!Sources} : N64!Ends(f, [v2 EXCEPT !.mask = mask], v3)
    BY <1>0, <2>2, <2>7
  <2>8. CASE N64!Ends(f, [v2 EXCEPT !.intr = @ \cup {"dma"}], v3)
    BY <1>0, <2>3, <2>8
  <2>9. CASE \E at \in 0..LastLine : N64!Ends(f, v2, [v3 EXCEPT !.at = at])
    BY <1>0, <2>4, <2>9
  <2>10. CASE N64!Ends(f, v2, [v3 EXCEPT !.latched = FALSE])
    BY <1>0, <2>5, <2>10
  <2> QED
    BY <2>6, <2>7, <2>8, <2>9, <2>10 DEF N64!Store
<1> HIDE DEF f
<1> QED
  BY <1>0, <1>1, <1>2, N64Runs

LEMMA N64Trap == ASSUME N64Inv, N64!Trap PROVE N64Inv'
<1> DEFINE f == N64!Fetched
           t == N64!Excepted(f)
<1>0. v2 \in N64Mis /\ v3 \in N64Vis
  BY DEF N64Inv
<1>1. f \in N64Cpus
  BY N64Fetched
<1>2. N64!Ends(t, v2, v3) /\ v4' = N64!None
  BY DEF N64!Trap
<1> HIDE DEF f
<1>3. t \in N64Cpus
  BY <1>1, N64Excepted
<1> HIDE DEF t
<1>4. v4' \in N64!Place \cup {N64!None} /\ N64Notes(t, v4')
  BY <1>2 DEF N64Notes
<1> QED
  BY <1>0, <1>2, <1>3, <1>4, N64Ends

\* ERET goes to EPC, and the program that was noted is no longer left.
LEMMA N64Return == ASSUME N64Inv, N64!Eret PROVE N64Inv' /\ N64!Resumes
<1> DEFINE f == N64!Fetched
           to == IF N64!Sampled.erl THEN 0 ELSE N64!Sampled.epc
           n == N64!After(to)
           exl == f.exl /\ N64!Sampled.erl
           d == [f EXCEPT !.pc = to, !.next = n]
           t == [d EXCEPT !.erl = FALSE, !.exl = exl]
<1>0. v2 \in N64Mis /\ v3 \in N64Vis
  BY DEF N64Inv
<1>1. f \in N64Cpus /\ N64!Sampled \in N64Cpus /\ N64Notes(N64!Sampled, N64!Leaves)
      /\ f.exl = N64!Sampled.exl
  BY N64Fetched, N64Sampled
<1>2. N64!Ends(t, v2, v3) /\ v4' = N64!None
  BY DEF N64!Eret
<1>3. to \in N64!Place /\ n \in N64!Place
  <2>1. to \in N64!Place
    BY <1>1, N64PlaceFacts DEF N64Cpus
  <2> QED BY <2>1, N64PlaceFacts
<1>4. exl \in BOOLEAN
  OBVIOUS
<1>5. N64!Leaves # N64!None => to = N64!Leaves
  BY <1>1 DEF N64Notes
<1> HIDE DEF f, to, n, exl
<1>6. d \in N64Cpus /\ d.pc = to
  BY <1>1, <1>3 DEF N64Cpus
<1> HIDE DEF d
<1>7. t \in N64Cpus /\ t.pc = to
  BY <1>4, <1>6 DEF N64Cpus
<1> HIDE DEF t
<1>8. v4' \in N64!Place \cup {N64!None} /\ N64Notes(t, v4')
  BY <1>2 DEF N64Notes
<1>9. N64Inv' /\ v1' = t
  BY <1>0, <1>2, <1>7, <1>8, N64Ends
<1>10. N64!Leaves # N64!None => v1'.pc = N64!Leaves
  BY <1>5, <1>7, <1>9
<1> QED
  BY <1>9, <1>10 DEF N64!Resumes

LEMMA N64AfterReset == ASSUME N64Inv, N64!N64Reset PROVE N64Inv'
<1>1. v1' \in N64Cpus
  BY N64Booted DEF N64!N64Reset
<1>2. v2' \in N64Mis
  BY DEF N64!N64Reset, N64Mis
<1>3. v3' \in N64Vis
  <2>1. v3.line \in 0..LastLine /\ 0 \in 0..LastLine
    BY N64PlaceFacts DEF N64Inv, N64Vis
  <2> QED BY <2>1 DEF N64!N64Reset, N64Vis
<1> QED
  BY <1>1, <1>2, <1>3 DEF N64!N64Reset, N64Inv, N64Notes

LEMMA N64Step == ASSUME N64Inv, N64!Next PROVE N64Inv'
  BY N64Plain, N64Stored, N64Trap, N64Return, N64AfterReset DEF N64!Next

LEMMA N64Idle == ASSUME N64Inv, UNCHANGED <<v1, v2, v3, v4>> PROVE N64Inv'
  BY DEF N64Inv, N64Notes

LEMMA N64InvImplies == ASSUME N64Inv PROVE N64!TypeOK
  BY DEF N64Inv, N64Cpus, N64Mis, N64Vis, N64!TypeOK

LEMMA N64Resumes == ASSUME N64Inv PROVE N64!Resumes
  BY N64Return DEF N64!Resumes

(***************************************************************************)
(* The 68000.                                                              *)
(***************************************************************************)

M68kFrames == [kind : {"frame"}, pc : M68kSpots, s : BOOLEAN, t : BOOLEAN, ipl : 0..7]
M68kCalls == [kind : {"call"}, pc : M68kSpots]
M68kItems == M68kFrames \cup M68kCalls
M68kStacks == [s : Seq(M68kItems), u : Seq(M68kItems)]
M68kCpus == [pc : M68kSpots, s : BOOLEAN, t : BOOLEAN, ipl : 0..7, a7 : M68k!Pointers,
             usp : M68k!Pointers, ssp : M68k!Pointers, line : 0..7, stopped : BOOLEAN]

Pointer(of, deep) == [of |-> of, deep |-> deep]

\* The pointer of the mode and the one saved point at what was last pushed.
M68kApart(c, st) ==
  /\ c.s => c.a7 = Pointer("s", Len(st.s)) /\ c.usp = Pointer("u", Len(st.u))
  /\ ~c.s => c.a7 = Pointer("u", Len(st.u)) /\ c.ssp = Pointer("s", Len(st.s))

\* The item at a height of a stack.
ItemAt(stack, n) == stack[Len(stack) - n]

\* The frames on the supervisor's stack, at the heights h, are those of the
\* exceptions noted, the newest on top.
M68kMarks(stack, places, h) ==
  /\ h \in [1..Len(places) -> Nat]
  /\ \A k \in 1..Len(places) :
       /\ h[k] < Len(stack)
       /\ ItemAt(stack, h[k]).kind = "frame" /\ ItemAt(stack, h[k]).pc = places[k]
  /\ \A i, j \in 1..Len(places) : i < j => h[j] < h[i]
  /\ \A n \in 0..(Len(stack) - 1) :
       ItemAt(stack, n).kind = "frame" => \E k \in 1..Len(places) : h[k] = n

M68kGood(c, st, places) ==
  /\ c \in M68kCpus /\ st \in M68kStacks /\ places \in Seq(M68kSpots)
  /\ Len(st.s) <= MaxDeep /\ Len(st.u) <= MaxDeep
  /\ M68kApart(c, st)
  /\ \E h : M68kMarks(st.s, places, h)

M68kInv == M68kGood(v1, v2, v3)

LEMMA ItemPushed ==
  ASSUME NEW S, NEW q \in Seq(S), NEW e \in S
  PROVE  /\ ItemAt(<<e>> \o q, Len(q)) = e
         /\ \A n \in 0..(Len(q) - 1) : ItemAt(<<e>> \o q, n) = ItemAt(q, n)
<1> DEFINE r == <<e>> \o q
<1>1. /\ Len(q) \in Nat /\ Len(r) = Len(q) + 1 /\ r[1] = e
      /\ \A i \in 1..Len(q) : r[i + 1] = q[i]
  BY Pushed, LenProperties
<1> HIDE DEF r
<1>2. ItemAt(r, Len(q)) = e
  <2>1. Len(r) - Len(q) = 1
    BY <1>1
  <2> QED BY <1>1, <2>1 DEF ItemAt
<1>3. ASSUME NEW n \in 0..(Len(q) - 1) PROVE ItemAt(r, n) = ItemAt(q, n)
  <2>1. Len(q) - n \in 1..Len(q) /\ (Len(q) - n) + 1 = Len(r) - n
    BY <1>1
  <2> QED BY <1>1, <2>1 DEF ItemAt
<1> QED
  BY <1>2, <1>3 DEF r

LEMMA ItemPopped ==
  ASSUME NEW S, NEW q \in Seq(S), q # << >>
  PROVE  /\ ItemAt(q, Len(q) - 1) = Head(q)
         /\ \A n \in 0..(Len(q) - 2) : ItemAt(Tail(q), n) = ItemAt(q, n)
<1>1. /\ Len(q) \in Nat \ {0} /\ Len(Tail(q)) = Len(q) - 1 /\ Head(q) = q[1]
      /\ \A i \in 1..(Len(q) - 1) : Tail(q)[i] = q[i + 1]
  BY Popped
<1>2. ItemAt(q, Len(q) - 1) = Head(q)
  <2>1. Len(q) - (Len(q) - 1) = 1
    BY <1>1
  <2> QED BY <1>1, <2>1 DEF ItemAt
<1>3. ASSUME NEW n \in 0..(Len(q) - 2) PROVE ItemAt(Tail(q), n) = ItemAt(q, n)
  <2>1. /\ Len(Tail(q)) - n \in 1..(Len(q) - 1)
        /\ (Len(Tail(q)) - n) + 1 = Len(q) - n
    BY <1>1
  <2> QED BY <1>1, <2>1 DEF ItemAt
<1> QED
  BY <1>2, <1>3

\* A call pushed leaves the marks as they were.
LEMMA M68kCalled ==
  ASSUME NEW q \in Seq(M68kItems), NEW places \in Seq(M68kSpots), NEW h,
         M68kMarks(q, places, h), NEW e \in M68kCalls
  PROVE  M68kMarks(<<e>> \o q, places, h)
<1> DEFINE r == <<e>> \o q
<1>1. e \in M68kItems /\ e.kind = "call" /\ Len(q) \in Nat
  BY LenProperties DEF M68kItems, M68kCalls
<1>2. /\ Len(r) = Len(q) + 1 /\ ItemAt(r, Len(q)) = e
      /\ \A n \in 0..(Len(q) - 1) : ItemAt(r, n) = ItemAt(q, n)
  BY <1>1, Pushed, ItemPushed
<1> HIDE DEF r
<1>3. ASSUME NEW k \in 1..Len(places)
      PROVE  /\ h[k] < Len(r)
             /\ ItemAt(r, h[k]).kind = "frame" /\ ItemAt(r, h[k]).pc = places[k]
  <2>1. h[k] \in Nat /\ h[k] < Len(q)
    BY DEF M68kMarks
  <2>2. h[k] \in 0..(Len(q) - 1) /\ h[k] < Len(r)
    BY <1>1, <1>2, <2>1
  <2> QED BY <1>2, <2>2 DEF M68kMarks
<1>4. ASSUME NEW n \in 0..(Len(r) - 1), ItemAt(r, n).kind = "frame"
      PROVE  \E k \in 1..Len(places) : h[k] = n
  <2>1. n # Len(q)
    BY <1>1, <1>2, <1>4
  <2>2. n \in 0..(Len(q) - 1)
    BY <1>1, <1>2, <2>1
  <2> QED BY <1>2, <1>4, <2>2 DEF M68kMarks
<1> QED
  BY <1>3, <1>4 DEF M68kMarks, r

LEMMA M68kReturned ==
  ASSUME NEW q \in Seq(M68kItems), NEW places \in Seq(M68kSpots), NEW h,
         M68kMarks(q, places, h), q # << >>, Head(q).kind = "call"
  PROVE  M68kMarks(Tail(q), places, h)
<1> DEFINE r == Tail(q)
<1>1. /\ Len(q) \in Nat \ {0} /\ Len(r) = Len(q) - 1
      /\ ItemAt(q, Len(q) - 1) = Head(q)
      /\ \A n \in 0..(Len(q) - 2) : ItemAt(r, n) = ItemAt(q, n)
  BY Popped, ItemPopped
<1> HIDE DEF r
<1>2. ASSUME NEW k \in 1..Len(places)
      PROVE  /\ h[k] < Len(r)
             /\ ItemAt(r, h[k]).kind = "frame" /\ ItemAt(r, h[k]).pc = places[k]
  <2>1. h[k] \in Nat /\ h[k] < Len(q) /\ ItemAt(q, h[k]).kind = "frame"
    BY DEF M68kMarks
  <2>2. h[k] # Len(q) - 1
    BY <1>1, <2>1
  <2>3. h[k] \in 0..(Len(q) - 2) /\ h[k] < Len(r)
    <3> DEFINE x == h[k]
               m == Len(q)
    <3>1. x \in Nat /\ x < m /\ x # m - 1 /\ m \in Nat \ {0} /\ Len(r) = m - 1
      BY <1>1, <2>1, <2>2
    <3> HIDE DEF x, m
    <3>2. x \in 0..(m - 2) /\ x < Len(r)
      BY <3>1
    <3> QED BY <3>2 DEF x, m
  <2>4. ItemAt(q, h[k]).kind = "frame" /\ ItemAt(q, h[k]).pc = places[k]
    BY DEF M68kMarks
  <2>5. ItemAt(r, h[k]) = ItemAt(q, h[k])
    BY <1>1, <2>3
  <2> QED BY <2>3, <2>4, <2>5
<1>3. ASSUME NEW n \in 0..(Len(r) - 1), ItemAt(r, n).kind = "frame"
      PROVE  \E k \in 1..Len(places) : h[k] = n
  <2>1. n \in 0..(Len(q) - 2) /\ n \in 0..(Len(q) - 1)
    BY <1>1
  <2> QED BY <1>1, <1>3, <2>1 DEF M68kMarks
<1> QED
  BY <1>2, <1>3 DEF M68kMarks, r

\* An exception's frame is the newest mark.
LEMMA M68kFramed ==
  ASSUME NEW q \in Seq(M68kItems), NEW places \in Seq(M68kSpots), NEW h,
         M68kMarks(q, places, h), NEW e \in M68kFrames
  PROVE  \E g : M68kMarks(<<e>> \o q, <<e.pc>> \o places, g)
<1> DEFINE r == <<e>> \o q
           pc == e.pc
           all == <<pc>> \o places
           g == [k \in 1..(Len(places) + 1) |-> IF k = 1 THEN Len(q) ELSE h[k - 1]]
<1>1. e \in M68kItems /\ e.kind = "frame" /\ Len(q) \in Nat /\ pc \in M68kSpots
      /\ Len(places) \in Nat
  BY LenProperties DEF M68kItems, M68kFrames
<1> HIDE DEF pc
<1>2. /\ Len(r) = Len(q) + 1 /\ ItemAt(r, Len(q)) = e
      /\ \A n \in 0..(Len(q) - 1) : ItemAt(r, n) = ItemAt(q, n)
  BY <1>1, Pushed, ItemPushed
<1>3. /\ Len(all) = Len(places) + 1 /\ all[1] = pc
      /\ \A i \in 1..Len(places) : all[i + 1] = places[i]
  BY <1>1, Pushed
<1> HIDE DEF r, all
<1>4. ASSUME NEW k \in 1..Len(all), k # 1
      PROVE  /\ k - 1 \in 1..Len(places) /\ all[k] = places[k - 1]
             /\ g[k] = h[k - 1] /\ h[k - 1] \in Nat /\ h[k - 1] < Len(q)
  <2>1. k - 1 \in 1..Len(places) /\ (k - 1) + 1 = k /\ k \in 1..(Len(places) + 1)
    BY <1>1, <1>3, <1>4
  <2>2. h[k - 1] \in Nat /\ h[k - 1] < Len(q)
    BY <2>1 DEF M68kMarks
  <2>3. all[k] = places[k - 1]
    BY <1>3, <2>1
  <2>4. g[k] = h[k - 1]
    BY <1>4, <2>1
  <2> QED BY <2>1, <2>2, <2>3, <2>4
<1>5. 1 \in 1..Len(all) /\ g[1] = Len(q)
  BY <1>1, <1>3
<1>6. g \in [1..Len(all) -> Nat]
  <2>1. \A k \in 1..(Len(places) + 1) : (IF k = 1 THEN Len(q) ELSE h[k - 1]) \in Nat
    <3> TAKE k \in 1..(Len(places) + 1)
    <3>1. k # 1 => h[k - 1] \in Nat
      BY <1>3, <1>4
    <3> QED BY <1>1, <3>1
  <2> QED BY <1>3, <2>1
<1> HIDE DEF g
<1>7. ASSUME NEW k \in 1..Len(all)
      PROVE  /\ g[k] < Len(r)
             /\ ItemAt(r, g[k]).kind = "frame" /\ ItemAt(r, g[k]).pc = all[k]
  <2>1. CASE k = 1
    BY <1>1, <1>2, <1>3, <1>5, <2>1 DEF pc
  <2>2. CASE k # 1
    <3>1. g[k] \in 0..(Len(q) - 1) /\ g[k] < Len(r)
      BY <1>1, <1>2, <1>4, <2>2
    <3>2. /\ k - 1 \in 1..Len(places) /\ all[k] = places[k - 1] /\ g[k] = h[k - 1]
      BY <1>4, <2>2
    <3>3. /\ ItemAt(q, h[k - 1]).kind = "frame"
          /\ ItemAt(q, h[k - 1]).pc = places[k - 1]
      BY <3>2 DEF M68kMarks
    <3>4. ItemAt(r, g[k]) = ItemAt(q, h[k - 1])
      BY <1>2, <3>1, <3>2
    <3> QED BY <3>1, <3>2, <3>3, <3>4
  <2> QED BY <2>1, <2>2
<1>8. ASSUME NEW i \in 1..Len(all), NEW j \in 1..Len(all), i < j PROVE g[j] < g[i]
  <2>1. j # 1
    BY <1>1, <1>3, <1>8
  <2>2. CASE i = 1
    BY <1>4, <1>5, <2>1, <2>2
  <2>3. CASE i # 1
    <3>1. i - 1 < j - 1
      BY <1>1, <1>3, <1>8
    <3> QED BY <1>4, <2>1, <2>3, <3>1 DEF M68kMarks
  <2> QED BY <2>2, <2>3
<1>9. ASSUME NEW n \in 0..(Len(r) - 1), ItemAt(r, n).kind = "frame"
      PROVE  \E k \in 1..Len(all) : g[k] = n
  <2>1. CASE n = Len(q)
    BY <1>5, <2>1
  <2>2. CASE n # Len(q)
    <3>1. n \in 0..(Len(q) - 1)
      BY <1>1, <1>2, <2>2
    <3>2. ItemAt(q, n).kind = "frame"
      BY <1>2, <1>9, <3>1
    <3>3. PICK k \in 1..Len(places) : h[k] = n
      BY <3>1, <3>2 DEF M68kMarks
    <3>4. k + 1 \in 1..Len(all) /\ k + 1 # 1 /\ (k + 1) - 1 = k
      BY <1>1, <1>3
    <3>5. g[k + 1] = h[k]
      BY <1>4, <3>4
    <3> QED BY <3>3, <3>4, <3>5
  <2> QED BY <2>1, <2>2
<1>10. M68kMarks(r, all, g)
  BY <1>6, <1>7, <1>8, <1>9 DEF M68kMarks
<1> QED
  BY <1>10 DEF r, all, pc

\* The frame on top is that of the newest exception noted.
LEMMA M68kUnframed ==
  ASSUME NEW q \in Seq(M68kItems), NEW places \in Seq(M68kSpots), NEW h,
         M68kMarks(q, places, h), q # << >>, Head(q).kind = "frame"
  PROVE  /\ places # << >> /\ Head(q).pc = Head(places)
         /\ \E g : M68kMarks(Tail(q), Tail(places), g)
<1> DEFINE r == Tail(q)
           rest == Tail(places)
           g == [k \in 1..(Len(places) - 1) |-> h[k + 1]]
<1>1. /\ Len(q) \in Nat \ {0} /\ Len(r) = Len(q) - 1
      /\ ItemAt(q, Len(q) - 1) = Head(q)
      /\ \A n \in 0..(Len(q) - 2) : ItemAt(r, n) = ItemAt(q, n)
  BY Popped, ItemPopped
<1>2. PICK top \in 1..Len(places) : h[top] = Len(q) - 1
  <2>1. Len(q) - 1 \in 0..(Len(q) - 1)
    BY <1>1
  <2> QED BY <1>1, <2>1 DEF M68kMarks
<1>3. Len(places) \in Nat \ {0} /\ places # << >> /\ 1 \in 1..Len(places)
  BY <1>2, LenProperties, EmptySeq
<1>4. \A k \in 1..Len(places) : h[k] \in Nat /\ h[k] < Len(q)
  BY DEF M68kMarks
<1>5. top = 1
  <2> SUFFICES ASSUME top # 1 PROVE FALSE
    OBVIOUS
  <2>1. 1 < top
    BY <1>3
  <2>2. h[top] < h[1]
    BY <1>3, <2>1 DEF M68kMarks
  <2> QED BY <1>1, <1>2, <1>3, <1>4, <2>2
<1>6. /\ Len(rest) = Len(places) - 1 /\ Head(places) = places[1]
      /\ \A i \in 1..(Len(places) - 1) : rest[i] = places[i + 1]
  BY <1>3, Popped
<1> HIDE DEF r, rest
<1>7. Head(q).pc = Head(places)
  <2>1. ItemAt(q, h[1]).pc = places[1]
    BY <1>3 DEF M68kMarks
  <2> QED BY <1>1, <1>2, <1>5, <1>6, <2>1
<1>8. ASSUME NEW k \in 1..Len(rest)
      PROVE  /\ k + 1 \in 1..Len(places) /\ rest[k] = places[k + 1] /\ g[k] = h[k + 1]
             /\ h[k + 1] \in Nat /\ h[k + 1] < Len(q) - 1
  <2>1. k \in 1..(Len(places) - 1) /\ k + 1 \in 1..Len(places) /\ 1 < k + 1
    BY <1>3, <1>6
  <2>2. h[k + 1] < h[1]
    BY <1>3, <2>1 DEF M68kMarks
  <2>3. h[k + 1] \in Nat /\ h[k + 1] < Len(q) - 1
    BY <1>2, <1>4, <1>5, <2>1, <2>2
  <2>4. g[k] = h[k + 1]
    BY <2>1
  <2> QED BY <1>6, <2>1, <2>3, <2>4
<1>9. g \in [1..Len(rest) -> Nat]
  <2>1. \A k \in 1..(Len(places) - 1) : h[k + 1] \in Nat
    BY <1>6, <1>8
  <2> QED BY <1>6, <2>1
<1> HIDE DEF g
<1>10. ASSUME NEW k \in 1..Len(rest)
       PROVE  /\ g[k] < Len(r)
              /\ ItemAt(r, g[k]).kind = "frame" /\ ItemAt(r, g[k]).pc = rest[k]
  <2>1. g[k] \in 0..(Len(q) - 2) /\ g[k] < Len(r)
    BY <1>1, <1>8
  <2>2. ItemAt(q, h[k + 1]).kind = "frame" /\ ItemAt(q, h[k + 1]).pc = places[k + 1]
    BY <1>8 DEF M68kMarks
  <2> QED BY <1>1, <1>8, <2>1, <2>2
<1>11. ASSUME NEW i \in 1..Len(rest), NEW j \in 1..Len(rest), i < j PROVE g[j] < g[i]
  <2>1. i + 1 < j + 1
    BY <1>11
  <2>2. h[j + 1] < h[i + 1]
    BY <1>8, <2>1 DEF M68kMarks
  <2> QED BY <1>8, <2>2
<1>12. ASSUME NEW n \in 0..(Len(r) - 1), ItemAt(r, n).kind = "frame"
       PROVE  \E k \in 1..Len(rest) : g[k] = n
  <2>1. n \in 0..(Len(q) - 2) /\ n \in 0..(Len(q) - 1) /\ n # Len(q) - 1
    BY <1>1
  <2>2. PICK k \in 1..Len(places) : h[k] = n
    BY <1>1, <1>12, <2>1 DEF M68kMarks
  <2>3. k # 1
    BY <1>2, <1>5, <2>1, <2>2
  <2>4. k - 1 \in 1..Len(rest) /\ (k - 1) + 1 = k
    BY <1>3, <1>6, <2>3
  <2>5. g[k - 1] = h[k]
    BY <1>8, <2>4
  <2> QED BY <2>2, <2>4, <2>5
<1>13. M68kMarks(r, rest, g)
  BY <1>9, <1>10, <1>11, <1>12 DEF M68kMarks
<1> QED
  BY <1>3, <1>7, <1>13 DEF r, rest

LEMMA M68kFacts ==
  /\ MaxDeep \in Nat \ {0} /\ M68k!Ipls \subseteq 0..7 /\ {0} \cup Levels \subseteq 0..7
<1>1. MaxDeep \in Nat \ {0} /\ Levels \subseteq 1..7
  BY ProcessorsFit DEF M68k!M68kAssumption
<1>2. 1..7 \subseteq 0..7 /\ 0 \in 0..7 /\ 7 \in 0..7
  OBVIOUS
<1>3. Levels \subseteq 0..7
  BY <1>1, <1>2
<1> QED
  BY <1>1, <1>2, <1>3 DEF M68k!Ipls

LEMMA M68kCleared ==
  ASSUME NEW p \in M68kSpots
  PROVE  M68kGood(M68k!Reset(p), [s |-> << >>, u |-> << >>], << >>)
<1> DEFINE st == [s |-> << >>, u |-> << >>]
           c == M68k!Reset(p)
           h == [k \in 1..0 |-> 0]
<1>1. << >> \in Seq(M68kItems) /\ << >> \in Seq(M68kSpots) /\ Len(<< >>) = 0
  BY EmptySeq
<1>2. st \in M68kStacks /\ st.s = << >> /\ st.u = << >>
  BY <1>1 DEF M68kStacks
<1>3. /\ Pointer("s", 0) \in M68k!Pointers /\ Pointer("u", 0) \in M68k!Pointers
      /\ 0 \in 0..7 /\ 7 \in 0..7 /\ TRUE \in BOOLEAN /\ FALSE \in BOOLEAN
  BY M68kFacts DEF M68k!Pointers, Pointer
<1>4. c = [pc |-> p, s |-> TRUE, t |-> FALSE, ipl |-> 7, line |-> 0,
           a7 |-> Pointer("s", 0), usp |-> Pointer("u", 0), ssp |-> Pointer("s", 0),
           stopped |-> FALSE]
  BY DEF M68k!Reset, Pointer
<1>5. c \in M68kCpus
  BY <1>3, <1>4 DEF M68kCpus
<1>6. M68kApart(c, st)
  BY <1>1, <1>2, <1>4 DEF M68kApart
<1>7. M68kMarks(<< >>, << >>, h)
  <2>1. h \in [1..Len(<< >>) -> Nat] /\ (1..Len(<< >>)) = {} /\ (0..(Len(<< >>) - 1)) = {}
    BY <1>1
  <2> QED BY <2>1 DEF M68kMarks
<1>8. Len(st.s) <= MaxDeep /\ Len(st.u) <= MaxDeep
  BY <1>1, <1>2, M68kFacts
<1> HIDE DEF st, c, h
<1>9. M68kGood(c, st, << >>)
  BY <1>1, <1>2, <1>5, <1>6, <1>7, <1>8 DEF M68kGood
<1> QED
  BY <1>9 DEF c, st

LEMMA M68kInit == ASSUME M68k!Init PROVE M68kInv
  BY M68kCleared DEF M68k!Init, M68kInv

LEMMA M68kAfterReset == ASSUME M68k!M68kReset PROVE M68kInv'
  BY M68kCleared DEF M68k!M68kReset, M68kInv

\* A push at what was last pushed leaves what lies there.
LEMMA M68kPushes ==
  ASSUME v2 \in M68kStacks, NEW e \in M68kItems
  PROVE  /\ M68k!Pushed(Pointer("s", Len(v2.s)), e) \in M68kStacks
         /\ M68k!Pushed(Pointer("s", Len(v2.s)), e).s = <<e>> \o v2.s
         /\ M68k!Pushed(Pointer("s", Len(v2.s)), e).u = v2.u
         /\ M68k!Pushed(Pointer("u", Len(v2.u)), e) \in M68kStacks
         /\ M68k!Pushed(Pointer("u", Len(v2.u)), e).u = <<e>> \o v2.u
         /\ M68k!Pushed(Pointer("u", Len(v2.u)), e).s = v2.s
<1>1. v2.s \in Seq(M68kItems) /\ v2.u \in Seq(M68kItems)
  BY DEF M68kStacks
<1>2. ASSUME NEW q \in Seq(M68kItems)
      PROVE  SubSeq(q, Len(q) - Len(q) + 1, Len(q)) = q /\ <<e>> \o q \in Seq(M68kItems)
  <2>1. Len(q) \in Nat /\ Len(q) - Len(q) + 1 = 1
    BY LenProperties
  <2> QED BY <2>1, SubSeqFull, Pushed
<1> DEFINE ns == <<e>> \o v2.s
           nu == <<e>> \o v2.u
<1>3. ns \in Seq(M68kItems) /\ nu \in Seq(M68kItems)
  BY <1>1, <1>2
<1>4. M68k!Pushed(Pointer("s", Len(v2.s)), e) = [v2 EXCEPT !.s = ns]
  BY <1>1, <1>2 DEF M68k!Pushed, Pointer
<1>5. M68k!Pushed(Pointer("u", Len(v2.u)), e) = [v2 EXCEPT !.u = nu]
  BY <1>1, <1>2 DEF M68k!Pushed, Pointer
<1> HIDE DEF ns, nu
<1>6. [v2 EXCEPT !.s = ns] \in M68kStacks /\ [v2 EXCEPT !.u = nu] \in M68kStacks
  BY <1>3 DEF M68kStacks
<1>7. /\ [v2 EXCEPT !.s = ns].s = ns /\ [v2 EXCEPT !.s = ns].u = v2.u
      /\ [v2 EXCEPT !.u = nu].s = v2.s /\ [v2 EXCEPT !.u = nu].u = nu
  BY DEF M68kStacks
<1> QED
  BY <1>4, <1>5, <1>6, <1>7 DEF ns, nu

\* A7 moved, and nothing else.
LEMMA M68kMoved ==
  ASSUME NEW c \in M68kCpus, NEW d \in 0..MaxDeep
  PROVE  /\ [c EXCEPT !.a7.deep = d] \in M68kCpus
         /\ [c EXCEPT !.a7.deep = d].a7 = Pointer(c.a7.of, d)
         /\ [c EXCEPT !.a7.deep = d].s = c.s
         /\ [c EXCEPT !.a7.deep = d].usp = c.usp
         /\ [c EXCEPT !.a7.deep = d].ssp = c.ssp
<1> DEFINE at == [c.a7 EXCEPT !.deep = d]
           m == [c EXCEPT !.a7 = at]
<1>1. c.a7 \in M68k!Pointers
  BY DEF M68kCpus
<1>2. at \in M68k!Pointers /\ at = Pointer(c.a7.of, d)
  BY <1>1 DEF M68k!Pointers, Pointer
<1>3. [c EXCEPT !.a7.deep = d] = m
  BY DEF M68kCpus
<1> HIDE DEF at
<1>4. m \in M68kCpus /\ m.a7 = at /\ m.s = c.s /\ m.usp = c.usp /\ m.ssp = c.ssp
  BY <1>2 DEF M68kCpus
<1> HIDE DEF m
<1> QED
  BY <1>2, <1>3, <1>4

\* A write of SR exchanges the two pointers with the mode.
LEMMA M68kWritten ==
  ASSUME NEW c \in M68kCpus, c.s, NEW st, M68kApart(c, st),
         NEW s \in BOOLEAN, NEW t \in BOOLEAN, NEW ipl \in 0..7
  PROVE  M68k!WrittenSr(c, s, t, ipl) \in M68kCpus /\ M68kApart(M68k!WrittenSr(c, s, t, ipl), st)
<1> DEFINE w == M68k!WrittenSr(c, s, t, ipl)
           d == [c EXCEPT !.s = s, !.t = t, !.ipl = ipl]
<1>1. d \in M68kCpus /\ d.s = s /\ d.a7 = c.a7 /\ d.usp = c.usp /\ d.ssp = c.ssp
  BY DEF M68kCpus
<1>2. c.a7 = Pointer("s", Len(st.s)) /\ c.usp = Pointer("u", Len(st.u))
  BY DEF M68kApart
<1>3. c.a7 \in M68k!Pointers /\ c.usp \in M68k!Pointers
  BY DEF M68kCpus
<1>4. CASE s
  <2>1. w = [d EXCEPT !.ssp = c.ssp, !.usp = c.usp, !.a7 = c.a7]
    BY <1>4 DEF M68k!WrittenSr
  <2> HIDE DEF d, w
  <2>2. w \in M68kCpus /\ w.s = s /\ w.a7 = c.a7 /\ w.usp = c.usp
    BY <1>1, <1>3, <2>1 DEF M68kCpus
  <2> QED BY <1>2, <1>4, <2>2 DEF M68kApart, w
<1>5. CASE ~s
  <2>1. w = [d EXCEPT !.ssp = c.a7, !.usp = c.usp, !.a7 = c.usp]
    BY <1>5 DEF M68k!WrittenSr
  <2> HIDE DEF d, w
  <2>2. w \in M68kCpus /\ w.s = s /\ w.a7 = c.usp /\ w.ssp = c.a7
    BY <1>1, <1>3, <2>1 DEF M68kCpus
  <2> QED BY <1>2, <1>5, <2>2 DEF M68kApart, w
<1> QED
  BY <1>4, <1>5

\* An exception enters supervisor mode with both pointers where they were.
LEMMA M68kEnters ==
  ASSUME NEW c \in M68kCpus, NEW st, M68kApart(c, st), NEW level \in 0..7
  PROVE  /\ M68k!Entered(c, level) \in M68kCpus /\ M68k!Entered(c, level).s = TRUE
         /\ M68k!Entered(c, level).a7 = Pointer("s", Len(st.s))
         /\ M68k!Entered(c, level).usp = Pointer("u", Len(st.u))
<1> DEFINE e == M68k!Entered(c, level)
           usp == IF c.s THEN c.usp ELSE c.a7
           a7 == IF c.s THEN c.a7 ELSE c.ssp
           ipl == IF level = 0 THEN c.ipl ELSE level
           d == [c EXCEPT !.usp = usp, !.a7 = a7]
<1>1. usp \in M68k!Pointers /\ a7 \in M68k!Pointers /\ ipl \in 0..7
  BY DEF M68kCpus
<1>2. a7 = Pointer("s", Len(st.s)) /\ usp = Pointer("u", Len(st.u))
  BY DEF M68kApart
<1>3. e = [d EXCEPT !.s = TRUE, !.t = FALSE, !.ipl = ipl]
  BY DEF M68k!Entered
<1> HIDE DEF e, usp, a7, ipl
<1>4. d \in M68kCpus /\ d.usp = usp /\ d.a7 = a7
  BY <1>1 DEF M68kCpus
<1> HIDE DEF d
<1>5. e \in M68kCpus /\ e.s = TRUE /\ e.usp = usp /\ e.a7 = a7
  BY <1>1, <1>3, <1>4 DEF M68kCpus
<1> QED
  BY <1>2, <1>5 DEF e

LEMMA M68kException ==
  ASSUME M68kInv, NEW level \in 0..7, NEW back \in M68kSpots, NEW v \in M68kSpots,
         M68k!Exception(level, back, v)
  PROVE  M68kInv'
<1> DEFINE c == M68k!Entered(v1, level)
           n == Len(v2.s)
           d == n + 1
           m == [c EXCEPT !.a7.deep = d]
           t == [m EXCEPT !.pc = v, !.stopped = FALSE]
           f == M68k!Frame(back, c.s, c.t, c.ipl)
           st == M68k!Pushed(c.a7, f)
           places == <<back>> \o v3
<1>1. /\ v1 \in M68kCpus /\ v2 \in M68kStacks /\ v3 \in Seq(M68kSpots)
      /\ Len(v2.s) <= MaxDeep /\ Len(v2.u) <= MaxDeep /\ M68kApart(v1, v2)
  BY DEF M68kInv, M68kGood
<1>2. PICK h : M68kMarks(v2.s, v3, h)
  BY DEF M68kInv, M68kGood
<1>3. /\ c.a7.deep < MaxDeep
      /\ v1' = [c EXCEPT !.a7.deep = @ + 1, !.pc = v, !.stopped = FALSE]
      /\ v2' = st /\ v3' = places
  BY DEF M68k!Exception
<1> HIDE DEF n, d, m, t, f, st, places
<1>4. /\ c \in M68kCpus /\ c.s = TRUE
      /\ c.a7 = Pointer("s", Len(v2.s)) /\ c.usp = Pointer("u", Len(v2.u))
  <2>1. v1 \in M68kCpus /\ M68kApart(v1, v2)
    BY <1>1
  <2> HIDE DEF c
  <2>2. /\ M68k!Entered(v1, level) \in M68kCpus /\ M68k!Entered(v1, level).s = TRUE
        /\ M68k!Entered(v1, level).a7 = Pointer("s", Len(v2.s))
        /\ M68k!Entered(v1, level).usp = Pointer("u", Len(v2.u))
    BY <2>1, M68kEnters
  <2> QED BY <2>2 DEF c
<1> USE DEF n, d, m, t, f, st, places
<1>5. c.a7.deep = n /\ c.a7.of = "s"
  BY <1>4 DEF Pointer
<1> HIDE DEF c
<1>6. v1' = t
  BY <1>4, <1>3, <1>5 DEF M68kCpus
<1>7. v2.s \in Seq(M68kItems) /\ n \in Nat /\ n < MaxDeep /\ MaxDeep \in Nat
  BY <1>1, <1>3, <1>5, M68kFacts, LenProperties DEF M68kStacks
<1> HIDE DEF n
<1>8. d \in 0..MaxDeep
  BY <1>7
<1> HIDE DEF d
<1>9. m \in M68kCpus /\ m.a7 = Pointer("s", d) /\ m.s = TRUE /\ m.usp = Pointer("u", Len(v2.u))
  BY <1>4, <1>5, <1>8, M68kMoved
<1> HIDE DEF m
<1>10. t \in M68kCpus /\ t.a7 = Pointer("s", d) /\ t.s = TRUE /\ t.usp = Pointer("u", Len(v2.u))
  BY <1>9 DEF M68kCpus
<1> HIDE DEF t
<1>11. f \in M68kFrames /\ f.pc = back
  <2>1. c.s \in BOOLEAN /\ c.t \in BOOLEAN /\ c.ipl \in 0..7
    BY <1>4 DEF M68kCpus
  <2> QED BY <2>1 DEF M68k!Frame, M68kFrames
<1>12. f \in M68kItems
  BY <1>11 DEF M68kItems
<1> HIDE DEF f
<1>13. st \in M68kStacks /\ st.s = <<f>> \o v2.s /\ st.u = v2.u
  BY <1>1, <1>4, <1>12, M68kPushes
<1> HIDE DEF st
<1>14. Len(st.s) = d /\ places \in Seq(M68kSpots)
  BY <1>1, <1>7, <1>12, <1>13, Pushed DEF d, n
<1>15. \E g : M68kMarks(st.s, places, g)
  BY <1>1, <1>2, <1>7, <1>11, <1>13, M68kFramed
<1> HIDE DEF places
<1>16. M68kApart(t, st)
  BY <1>10, <1>13, <1>14 DEF M68kApart
<1>17. Len(st.s) <= MaxDeep /\ Len(st.u) <= MaxDeep
  BY <1>1, <1>7, <1>8, <1>13, <1>14
<1>18. M68kGood(t, st, places)
  BY <1>10, <1>13, <1>14, <1>15, <1>16, <1>17 DEF M68kGood
<1> QED
  BY <1>3, <1>6, <1>18 DEF M68kInv

LEMMA M68kKept ==
  ASSUME M68kInv, v1' \in M68kCpus, M68kApart(v1', v2), v2' = v2, v3' = v3
  PROVE  M68kInv'
  BY DEF M68kInv, M68kGood

LEMMA M68kSame ==
  ASSUME M68kInv, NEW c \in M68kCpus, v1' = c, c.s = v1.s, c.a7 = v1.a7, c.usp = v1.usp,
         c.ssp = v1.ssp, v2' = v2, v3' = v3
  PROVE  M68kInv'
<1>1. M68kApart(c, v2)
  BY DEF M68kInv, M68kGood, M68kApart
<1> QED
  BY <1>1, M68kKept

LEMMA M68kPlain == ASSUME M68kInv, NEW p \in M68kSpots, M68k!Plain(p) PROVE M68kInv'
<1> DEFINE c == [v1 EXCEPT !.pc = p]
<1>1. v1 \in M68kCpus
  BY DEF M68kInv, M68kGood
<1>2. c \in M68kCpus /\ c.s = v1.s /\ c.a7 = v1.a7 /\ c.usp = v1.usp /\ c.ssp = v1.ssp
  BY <1>1 DEF M68kCpus
<1>3. v1' = c /\ v2' = v2 /\ v3' = v3
  BY DEF M68k!Plain
<1> HIDE DEF c
<1> QED
  BY <1>2, <1>3, M68kSame

LEMMA M68kSetIrq == ASSUME M68kInv, NEW level \in 0..7, M68k!SetIrq(level) PROVE M68kInv'
<1> DEFINE c == [v1 EXCEPT !.line = level]
<1>1. v1 \in M68kCpus
  BY DEF M68kInv, M68kGood
<1>2. c \in M68kCpus /\ c.s = v1.s /\ c.a7 = v1.a7 /\ c.usp = v1.usp /\ c.ssp = v1.ssp
  BY <1>1 DEF M68kCpus
<1>3. v1' = c /\ v2' = v2 /\ v3' = v3
  BY DEF M68k!SetIrq
<1> HIDE DEF c
<1> QED
  BY <1>2, <1>3, M68kSame

LEMMA M68kWriteSr ==
  ASSUME M68kInv, NEW s \in BOOLEAN, NEW t \in BOOLEAN, NEW ipl \in 0..7,
         M68k!WriteSr(s, t, ipl)
  PROVE  M68kInv'
<1> DEFINE w == M68k!WrittenSr(v1, s, t, ipl)
<1>1. v1 \in M68kCpus /\ M68kApart(v1, v2)
  BY DEF M68kInv, M68kGood
<1>2. v1.s /\ v1' = w /\ v2' = v2 /\ v3' = v3
  BY DEF M68k!WriteSr
<1>3. w \in M68kCpus /\ M68kApart(w, v2)
  BY <1>1, <1>2, M68kWritten
<1> HIDE DEF w
<1> QED
  BY <1>2, <1>3, M68kKept

LEMMA M68kStop ==
  ASSUME M68kInv, NEW s \in BOOLEAN, NEW ipl \in 0..7, M68k!Stop(s, ipl)
  PROVE  M68kInv'
<1> DEFINE w == M68k!WrittenSr(v1, s, FALSE, ipl)
           c == [w EXCEPT !.stopped = TRUE]
<1>1. v1 \in M68kCpus /\ M68kApart(v1, v2) /\ FALSE \in BOOLEAN
  BY DEF M68kInv, M68kGood
<1>2. v1.s /\ v1' = c /\ v2' = v2 /\ v3' = v3
  BY DEF M68k!Stop
<1>3. w \in M68kCpus /\ M68kApart(w, v2)
  BY <1>1, <1>2, M68kWritten
<1> HIDE DEF w
<1>4. c \in M68kCpus /\ c.s = w.s /\ c.a7 = w.a7 /\ c.usp = w.usp /\ c.ssp = w.ssp
  BY <1>3 DEF M68kCpus
<1> HIDE DEF c
<1>5. M68kApart(c, v2)
  BY <1>3, <1>4 DEF M68kApart
<1> QED
  BY <1>2, <1>4, <1>5, M68kKept

LEMMA M68kJsr == ASSUME M68kInv, NEW p \in M68kSpots, M68k!Jsr(p) PROVE M68kInv'
<1> DEFINE d == v1.a7.deep + 1
           m == [v1 EXCEPT !.a7.deep = d]
           t == [m EXCEPT !.pc = p]
           e == M68k!Call(v1.pc)
           st == M68k!Pushed(v1.a7, e)
<1>1. /\ v1 \in M68kCpus /\ v2 \in M68kStacks /\ v3 \in Seq(M68kSpots)
      /\ Len(v2.s) <= MaxDeep /\ Len(v2.u) <= MaxDeep /\ M68kApart(v1, v2)
  BY DEF M68kInv, M68kGood
<1>2. PICK h : M68kMarks(v2.s, v3, h)
  BY DEF M68kInv, M68kGood
<1>3. /\ v1.a7.deep < MaxDeep /\ v2' = st /\ v3' = v3
      /\ v1' = [v1 EXCEPT !.a7.deep = @ + 1, !.pc = p]
  BY DEF M68k!Jsr
<1>4. v1' = t
  BY <1>1, <1>3 DEF M68kCpus
<1>5. e \in M68kCalls /\ e \in M68kItems
  BY <1>1 DEF M68k!Call, M68kCalls, M68kItems, M68kCpus
<1> HIDE DEF e
<1>6. v2.s \in Seq(M68kItems) /\ v2.u \in Seq(M68kItems) /\ MaxDeep \in Nat
  BY <1>1, M68kFacts DEF M68kStacks
<1>7. v1.a7.deep \in Nat
  BY <1>1, <1>6 DEF M68kCpus, M68k!Pointers
<1>8. d \in 0..MaxDeep
  BY <1>3, <1>6, <1>7
<1> HIDE DEF d
<1>9. /\ m \in M68kCpus /\ m.a7 = Pointer(v1.a7.of, d) /\ m.s = v1.s
      /\ m.usp = v1.usp /\ m.ssp = v1.ssp
  BY <1>1, <1>8, M68kMoved
<1> HIDE DEF m
<1>10. /\ t \in M68kCpus /\ t.a7 = m.a7 /\ t.s = m.s /\ t.usp = m.usp /\ t.ssp = m.ssp
  BY <1>9 DEF M68kCpus
<1> HIDE DEF t
<1>11. CASE v1.s
  <2>1. v1.a7 = Pointer("s", Len(v2.s)) /\ v1.usp = Pointer("u", Len(v2.u))
    BY <1>1, <1>11 DEF M68kApart
  <2>2. v1.a7.of = "s" /\ d = Len(v2.s) + 1
    BY <2>1 DEF Pointer, d
  <2>3. st \in M68kStacks /\ st.s = <<e>> \o v2.s /\ st.u = v2.u
    BY <1>1, <1>5, <2>1, M68kPushes
  <2> HIDE DEF st
  <2>4. Len(st.s) = d
    BY <1>5, <1>6, <2>2, <2>3, Pushed
  <2>5. M68kMarks(st.s, v3, h)
    BY <1>1, <1>2, <1>5, <1>6, <2>3, M68kCalled
  <2>6. M68kApart(t, st)
    BY <1>9, <1>10, <1>11, <2>1, <2>2, <2>3, <2>4 DEF M68kApart
  <2>7. Len(st.s) <= MaxDeep /\ Len(st.u) <= MaxDeep
    BY <1>1, <1>6, <1>8, <2>3, <2>4
  <2>8. M68kGood(t, st, v3)
    BY <1>1, <1>10, <2>3, <2>5, <2>6, <2>7 DEF M68kGood
  <2> QED BY <1>3, <1>4, <2>8 DEF M68kInv
<1>12. CASE ~v1.s
  <2>1. v1.a7 = Pointer("u", Len(v2.u)) /\ v1.ssp = Pointer("s", Len(v2.s))
    BY <1>1, <1>12 DEF M68kApart
  <2>2. v1.a7.of = "u" /\ d = Len(v2.u) + 1
    BY <2>1 DEF Pointer, d
  <2>3. st \in M68kStacks /\ st.u = <<e>> \o v2.u /\ st.s = v2.s
    BY <1>1, <1>5, <2>1, M68kPushes
  <2> HIDE DEF st
  <2>4. Len(st.u) = d
    BY <1>5, <1>6, <2>2, <2>3, Pushed
  <2>5. M68kApart(t, st)
    BY <1>9, <1>10, <1>12, <2>1, <2>2, <2>3, <2>4 DEF M68kApart
  <2>6. Len(st.s) <= MaxDeep /\ Len(st.u) <= MaxDeep
    BY <1>1, <1>6, <1>8, <2>3, <2>4
  <2>7. M68kGood(t, st, v3)
    BY <1>1, <1>2, <1>10, <2>3, <2>5, <2>6 DEF M68kGood
  <2> QED BY <1>3, <1>4, <2>7 DEF M68kInv
<1> QED
  BY <1>11, <1>12

\* A pop takes what lies on top of A7's stack.
LEMMA M68kPops ==
  ASSUME v1 \in M68kCpus, v2 \in M68kStacks, Len(v2.s) <= MaxDeep, Len(v2.u) <= MaxDeep,
         M68kApart(v1, v2), NEW kind, M68k!Holds(kind)
  PROVE  /\ v1.a7.deep - 1 \in 0..MaxDeep
         /\ M68k!Popped \in M68kStacks
         /\ v1.s => /\ v2.s # << >> /\ M68k!Top = Head(v2.s) /\ Head(v2.s).kind = kind
                    /\ M68k!Popped.s = Tail(v2.s) /\ M68k!Popped.u = v2.u
                    /\ v1.a7.deep - 1 = Len(Tail(v2.s)) /\ v1.a7.of = "s"
         /\ ~v1.s => /\ v2.u # << >> /\ M68k!Top = Head(v2.u) /\ Head(v2.u).kind = kind
                     /\ M68k!Popped.u = Tail(v2.u) /\ M68k!Popped.s = v2.s
                     /\ v1.a7.deep - 1 = Len(Tail(v2.u)) /\ v1.a7.of = "u"
<1>1. v2.s \in Seq(M68kItems) /\ v2.u \in Seq(M68kItems) /\ MaxDeep \in Nat
  BY M68kFacts DEF M68kStacks
<1> DEFINE ts == Tail(v2.s)
           tu == Tail(v2.u)
<1>2. CASE v1.s
  <2>1. v1.a7.of = "s" /\ v1.a7.deep = Len(v2.s)
    BY <1>2 DEF M68kApart, Pointer
  <2>2. v2.s # << >> /\ M68k!Top = Head(v2.s) /\ Head(v2.s).kind = kind
    BY <2>1 DEF M68k!Holds, M68k!Top
  <2>3. ts \in Seq(M68kItems) /\ Len(v2.s) \in Nat \ {0} /\ Len(ts) = Len(v2.s) - 1
    BY <1>1, <2>2, Popped
  <2>4. M68k!Popped = [v2 EXCEPT !.s = ts]
    BY <2>1 DEF M68k!Popped
  <2> HIDE DEF ts
  <2>5. /\ [v2 EXCEPT !.s = ts] \in M68kStacks /\ [v2 EXCEPT !.s = ts].s = ts
        /\ [v2 EXCEPT !.s = ts].u = v2.u
    BY <2>3 DEF M68kStacks
  <2>6. v1.a7.deep - 1 \in 0..MaxDeep
    BY <1>1, <2>1, <2>3
  <2> QED BY <1>2, <2>1, <2>2, <2>3, <2>4, <2>5, <2>6 DEF ts
<1>3. CASE ~v1.s
  <2>1. v1.a7.of = "u" /\ v1.a7.deep = Len(v2.u)
    BY <1>3 DEF M68kApart, Pointer
  <2>2. v2.u # << >> /\ M68k!Top = Head(v2.u) /\ Head(v2.u).kind = kind
    BY <2>1 DEF M68k!Holds, M68k!Top
  <2>3. tu \in Seq(M68kItems) /\ Len(v2.u) \in Nat \ {0} /\ Len(tu) = Len(v2.u) - 1
    BY <1>1, <2>2, Popped
  <2>4. M68k!Popped = [v2 EXCEPT !.u = tu]
    BY <2>1 DEF M68k!Popped
  <2> HIDE DEF tu
  <2>5. /\ [v2 EXCEPT !.u = tu] \in M68kStacks /\ [v2 EXCEPT !.u = tu].u = tu
        /\ [v2 EXCEPT !.u = tu].s = v2.s
    BY <2>3 DEF M68kStacks
  <2>6. v1.a7.deep - 1 \in 0..MaxDeep
    BY <1>1, <2>1, <2>3
  <2> QED BY <1>3, <2>1, <2>2, <2>3, <2>4, <2>5, <2>6 DEF tu
<1> QED
  BY <1>2, <1>3

LEMMA M68kRts == ASSUME M68kInv, M68k!Rts PROVE M68kInv'
<1> DEFINE d == v1.a7.deep - 1
           m == [v1 EXCEPT !.a7.deep = d]
           pc == M68k!Top.pc
           t == [m EXCEPT !.pc = pc]
           st == M68k!Popped
<1>1. /\ v1 \in M68kCpus /\ v2 \in M68kStacks /\ v3 \in Seq(M68kSpots)
      /\ Len(v2.s) <= MaxDeep /\ Len(v2.u) <= MaxDeep /\ M68kApart(v1, v2)
  BY DEF M68kInv, M68kGood
<1>2. PICK h : M68kMarks(v2.s, v3, h)
  BY DEF M68kInv, M68kGood
<1>3. /\ M68k!Holds("call") /\ v2' = st /\ v3' = v3
      /\ v1' = [v1 EXCEPT !.a7.deep = @ - 1, !.pc = pc]
  BY DEF M68k!Rts
<1>4. v1' = t
  BY <1>1, <1>3 DEF M68kCpus
<1>5. /\ d \in 0..MaxDeep /\ st \in M68kStacks
      /\ v1.s => /\ v2.s # << >> /\ M68k!Top = Head(v2.s) /\ Head(v2.s).kind = "call"
                 /\ st.s = Tail(v2.s) /\ st.u = v2.u /\ d = Len(Tail(v2.s)) /\ v1.a7.of = "s"
      /\ ~v1.s => /\ v2.u # << >> /\ M68k!Top = Head(v2.u) /\ Head(v2.u).kind = "call"
                  /\ st.u = Tail(v2.u) /\ st.s = v2.s /\ d = Len(Tail(v2.u)) /\ v1.a7.of = "u"
  BY <1>1, <1>3, M68kPops
<1>6. v2.s \in Seq(M68kItems) /\ v2.u \in Seq(M68kItems) /\ MaxDeep \in Nat
  BY <1>1, M68kFacts DEF M68kStacks
<1>7. pc \in M68kSpots
  <2>1. M68k!Top \in M68kItems
    BY <1>5, <1>6, Popped
  <2> QED BY <2>1 DEF M68kItems, M68kCalls, M68kFrames
<1> HIDE DEF d, pc, st
<1>8. /\ m \in M68kCpus /\ m.a7 = Pointer(v1.a7.of, d) /\ m.s = v1.s
      /\ m.usp = v1.usp /\ m.ssp = v1.ssp
  BY <1>1, <1>5, M68kMoved
<1> HIDE DEF m
<1>9. /\ t \in M68kCpus /\ t.a7 = m.a7 /\ t.s = m.s /\ t.usp = m.usp /\ t.ssp = m.ssp
  BY <1>7, <1>8 DEF M68kCpus
<1> HIDE DEF t
<1>10. M68kApart(t, st)
  BY <1>1, <1>5, <1>8, <1>9 DEF M68kApart
<1>11. M68kMarks(st.s, v3, h)
  BY <1>1, <1>2, <1>5, <1>6, M68kReturned
<1>12. Len(st.s) <= MaxDeep /\ Len(st.u) <= MaxDeep
  <2>1. d <= MaxDeep
    BY <1>5, <1>6
  <2>2. CASE v1.s
    <3>1. Len(st.s) = d /\ st.u = v2.u
      BY <1>5, <2>2
    <3> QED BY <1>1, <2>1, <3>1
  <2>3. CASE ~v1.s
    <3>1. Len(st.u) = d /\ st.s = v2.s
      BY <1>5, <2>3
    <3> QED BY <1>1, <2>1, <3>1
  <2> QED BY <2>2, <2>3
<1>13. M68kGood(t, st, v3)
  BY <1>1, <1>5, <1>9, <1>10, <1>11, <1>12 DEF M68kGood
<1> QED
  BY <1>3, <1>4, <1>13 DEF M68kInv

LEMMA M68kRte == ASSUME M68kInv, M68k!Rte PROVE M68kInv' /\ v3 # << >> /\ v1'.pc = Head(v3)
<1> DEFINE d == v1.a7.deep - 1
           m == [v1 EXCEPT !.a7.deep = d]
           e == M68k!Top
           w == M68k!WrittenSr(m, e.s, e.t, e.ipl)
           t == [w EXCEPT !.pc = e.pc]
           st == M68k!Popped
           rest == Tail(v3)
<1>1. /\ v1 \in M68kCpus /\ v2 \in M68kStacks /\ v3 \in Seq(M68kSpots)
      /\ Len(v2.s) <= MaxDeep /\ Len(v2.u) <= MaxDeep /\ M68kApart(v1, v2)
  BY DEF M68kInv, M68kGood
<1>2. PICK h : M68kMarks(v2.s, v3, h)
  BY DEF M68kInv, M68kGood
<1>3. /\ M68k!Holds("frame") /\ v1.s /\ v2' = st
      /\ v3' = IF v3 # << >> THEN rest ELSE v3
      /\ v1' = t
  BY DEF M68k!Rte
<1>4. /\ d \in 0..MaxDeep /\ st \in M68kStacks
      /\ v2.s # << >> /\ e = Head(v2.s) /\ Head(v2.s).kind = "frame"
      /\ st.s = Tail(v2.s) /\ st.u = v2.u /\ d = Len(Tail(v2.s)) /\ v1.a7.of = "s"
  BY <1>1, <1>3, M68kPops
<1>5. v2.s \in Seq(M68kItems) /\ MaxDeep \in Nat
  BY <1>1, M68kFacts DEF M68kStacks
<1>6. e \in M68kFrames
  <2>1. e \in M68kItems
    BY <1>4, <1>5, Popped
  <2> QED BY <1>4, <2>1 DEF M68kItems, M68kCalls
<1> HIDE DEF d, e, st
<1>7. e.pc \in M68kSpots /\ e.s \in BOOLEAN /\ e.t \in BOOLEAN /\ e.ipl \in 0..7
  BY <1>6 DEF M68kFrames
<1>8. /\ m \in M68kCpus /\ m.a7 = Pointer("s", d) /\ m.s = v1.s /\ m.usp = v1.usp
  BY <1>1, <1>4, M68kMoved
<1> HIDE DEF m
<1>9. M68kApart(m, st)
  BY <1>1, <1>3, <1>4, <1>8 DEF M68kApart
<1>10. w \in M68kCpus /\ M68kApart(w, st)
  BY <1>3, <1>7, <1>8, <1>9, M68kWritten
<1> HIDE DEF w
<1>11. /\ t \in M68kCpus /\ t.a7 = w.a7 /\ t.s = w.s /\ t.usp = w.usp /\ t.ssp = w.ssp
       /\ t.pc = e.pc
  BY <1>7, <1>10 DEF M68kCpus
<1> HIDE DEF t
<1>12. M68kApart(t, st)
  BY <1>10, <1>11 DEF M68kApart
<1>13. v3 # << >> /\ e.pc = Head(v3) /\ \E g : M68kMarks(st.s, rest, g)
  BY <1>1, <1>2, <1>4, <1>5, M68kUnframed
<1>14. rest \in Seq(M68kSpots)
  BY <1>1, <1>13, Popped
<1> HIDE DEF rest
<1>15. Len(st.s) <= MaxDeep /\ Len(st.u) <= MaxDeep
  BY <1>1, <1>4, <1>5
<1>16. M68kGood(t, st, rest)
  BY <1>4, <1>11, <1>12, <1>13, <1>14, <1>15 DEF M68kGood
<1> QED
  BY <1>3, <1>11, <1>13, <1>16 DEF M68kInv

LEMMA M68kTaken ==
  ASSUME M68kInv, NEW v \in M68kSpots, M68k!Interrupt(v) \/ M68k!Trace(v)
  PROVE  M68kInv'
<1>1. v1.pc \in M68kSpots /\ v1.line \in 0..7 /\ 0 \in 0..7
  BY DEF M68kInv, M68kGood, M68kCpus
<1> QED
  BY <1>1, M68kException DEF M68k!Interrupt, M68k!Trace

LEMMA M68kIdle == ASSUME M68kInv, UNCHANGED <<v1, v2, v3>> PROVE M68kInv'
  BY DEF M68kInv

LEMMA M68kStep == ASSUME M68kInv, M68k!Next PROVE M68kInv'
<1>1. CASE M68k!Idle
  BY <1>1, M68kIdle DEF M68k!Idle, M68k!m68kvars
<1>2. CASE M68k!Rts \/ M68k!Rte \/ M68k!M68kReset
  BY <1>2, M68kRts, M68kRte, M68kAfterReset
<1>3. CASE \E p \in M68kSpots : \/ M68k!Interrupt(p) \/ M68k!Trace(p)
                                \/ M68k!Plain(p) \/ M68k!Jsr(p)
  BY <1>3, M68kTaken, M68kPlain, M68kJsr
<1>4. CASE \E p, v \in M68kSpots : M68k!Trap(p, v)
  <2>1. 0 \in 0..7
    OBVIOUS
  <2> QED BY <1>4, <2>1, M68kException DEF M68k!Trap
<1>5. CASE \E s, t \in BOOLEAN, i \in M68k!Ipls : M68k!WriteSr(s, t, i)
  BY <1>5, M68kWriteSr, M68kFacts
<1>6. CASE \E s \in BOOLEAN, i \in M68k!Ipls : M68k!Stop(s, i)
  BY <1>6, M68kStop, M68kFacts
<1>7. CASE \E level \in {0} \cup Levels : M68k!SetIrq(level)
  BY <1>7, M68kSetIrq, M68kFacts
<1> QED
  BY <1>1, <1>2, <1>3, <1>4, <1>5, <1>6, <1>7 DEF M68k!Next

LEMMA M68kInvImplies == ASSUME M68kInv PROVE M68k!TypeOK /\ M68k!StacksApart
<1>1. /\ v1 \in M68kCpus /\ v2 \in M68kStacks /\ M68kApart(v1, v2)
      /\ Len(v2.s) <= MaxDeep /\ Len(v2.u) <= MaxDeep
  BY DEF M68kInv, M68kGood
<1>2. M68k!TypeOK
  BY <1>1 DEF M68kCpus, M68k!TypeOK
<1>3. CASE v1.s
  BY <1>1, <1>2, <1>3 DEF M68kApart, Pointer, M68k!StacksApart
<1>4. CASE ~v1.s
  BY <1>1, <1>2, <1>4 DEF M68kApart, Pointer, M68k!StacksApart
<1> QED
  BY <1>2, <1>3, <1>4

LEMMA M68kResumes == ASSUME M68kInv PROVE M68k!ProgramResumes
  BY M68kRte DEF M68k!ProgramResumes

(***************************************************************************)
(* The processors together.                                                *)
(***************************************************************************)

ProcessorsInv ==
  /\ focus = "arm" => ArmInv
  /\ focus = "sh" => ShInv
  /\ focus = "nes" => NesInv
  /\ focus = "snes" => SnesInv
  /\ focus = "psx" => PsxInv
  /\ focus = "n64" => N64Inv
  /\ focus = "m68k" => M68kInv
  /\ focus = "bus" => BusInv

LEMMA ProcessorsInit == Init => ProcessorsInv
<1> SUFFICES ASSUME Init PROVE ProcessorsInv
  OBVIOUS
<1>1. focus = "arm" => ArmInv
  BY ArmInit DEF Init
<1>2. focus = "sh" => ShInv
  BY ShInit DEF Init
<1>3. focus = "nes" => NesInv
  BY NesInit DEF Init
<1>4. focus = "snes" => SnesInv
  BY SnesInit DEF Init
<1>5. focus = "psx" => PsxInv
  BY PsxInit DEF Init
<1>6. focus = "n64" => N64Inv
  BY N64Init DEF Init
<1>7. focus = "m68k" => M68kInv
  BY M68kInit DEF Init
<1>8. focus = "bus" => BusInv
  BY BusInit DEF Init
<1> QED
  BY <1>1, <1>2, <1>3, <1>4, <1>5, <1>6, <1>7, <1>8 DEF ProcessorsInv

LEMMA ProcessorsStep == ProcessorsInv /\ [Next]_vars => ProcessorsInv'
<1>1. ASSUME ProcessorsInv, Next PROVE ProcessorsInv'
  <2>0. focus' = focus
    BY <1>1 DEF Next
  <2>1. focus = "arm" => ArmInv'
    BY <1>1, ArmStep DEF Next, ProcessorsInv
  <2>2. focus = "sh" => ShInv'
    BY <1>1, ShStep DEF Next, ProcessorsInv
  <2>3. focus = "nes" => NesInv'
    BY <1>1, NesStep DEF Next, ProcessorsInv
  <2>4. focus = "snes" => SnesInv'
    BY <1>1, SnesStep DEF Next, ProcessorsInv
  <2>5. focus = "psx" => PsxInv'
    BY <1>1, PsxStep DEF Next, ProcessorsInv
  <2>6. focus = "n64" => N64Inv'
    BY <1>1, N64Step DEF Next, ProcessorsInv
  <2>7. focus = "m68k" => M68kInv'
    BY <1>1, M68kStep DEF Next, ProcessorsInv
  <2>8. focus = "bus" => BusInv'
    BY <1>1, BusStep DEF Next, ProcessorsInv
  <2> QED
    BY <2>0, <2>1, <2>2, <2>3, <2>4, <2>5, <2>6, <2>7, <2>8 DEF ProcessorsInv
<1>2. ASSUME ProcessorsInv, UNCHANGED vars PROVE ProcessorsInv'
  <2>0. UNCHANGED <<focus, v1, v2, v3, v4>>
    BY <1>2 DEF vars
  <2>1. focus = "arm" => ArmInv'
    BY <1>2, <2>0, ArmIdle DEF ProcessorsInv
  <2>2. focus = "sh" => ShInv'
    BY <1>2, <2>0, ShIdle DEF ProcessorsInv
  <2>3. focus = "nes" => NesInv'
    BY <1>2, <2>0, NesIdle DEF ProcessorsInv
  <2>4. focus = "snes" => SnesInv'
    BY <1>2, <2>0, SnesIdle DEF ProcessorsInv
  <2>5. focus = "psx" => PsxInv'
    BY <1>2, <2>0, PsxIdle DEF ProcessorsInv
  <2>6. focus = "n64" => N64Inv'
    BY <1>2, <2>0, N64Idle DEF ProcessorsInv
  <2>7. focus = "m68k" => M68kInv'
    BY <1>2, <2>0, M68kIdle DEF ProcessorsInv
  <2>8. focus = "bus" => BusInv'
    BY <1>2, <2>0, BusIdle DEF ProcessorsInv
  <2> QED
    BY <2>0, <2>1, <2>2, <2>3, <2>4, <2>5, <2>6, <2>7, <2>8 DEF ProcessorsInv
<1> QED
  BY <1>1, <1>2

LEMMA ProcessorsInvariant == Spec => []ProcessorsInv
BY ProcessorsInit, ProcessorsStep, PTL DEF Spec

\* The interrupt line that a processor polls agrees with what the devices
\* assert and the program has acknowledged (update_irq of the NES, the Z80's
\* lines in md.c).
THEOREM ConsolesLineFresh == Spec => []LineFresh
<1>1. ProcessorsInv => LineFresh
  BY NesInvImplies, BusInvImplies DEF ProcessorsInv, LineFresh
<1> QED
  BY <1>1, ProcessorsInvariant, PTL

\* What is banked or exchanged at a change of mode is where it belongs: saved
\* status and link registers (arm.c), R0-R7 (sh4.c), the two stack pointers
\* (m68k.c).
THEOREM ConsolesContextHeld == Spec => []ContextHeld
<1>1. ProcessorsInv => ContextHeld
  BY ArmInvImplies, ShInvImplies, M68kInvImplies DEF ProcessorsInv, ContextHeld
<1> QED
  BY <1>1, ProcessorsInvariant, PTL

\* Returning from an interrupt or an exception, however deep, gives back the
\* program that it interrupted; in the 65816, through changes of mode that move
\* the stack, as long as the frame is not written over (common/arm.c, sh4.c;
\* cpu.c of the NES, the SNES and the PSX, n64.c, m68k.c, z80.c).
THEOREM ConsolesProgramResumes == Spec => ProgramResumes
<1> DEFINE A == /\ focus = "arm" => Shared!ContextRestored
                /\ focus = "sh" => Sh!SrRestored
                /\ focus = "nes" => Nes!ProgramResumes
                /\ focus = "snes" => Snes!ProgramResumes
                /\ focus = "psx" => Psx!EnableRestored /\ Psx!TrapReplays
                /\ focus = "n64" => N64!Resumes
                /\ focus = "m68k" => M68k!ProgramResumes
                /\ focus = "bus" => Bus!ProgramResumes
<1>1. ProcessorsInv /\ [Next]_vars => [A]_vars
  <2> SUFFICES ASSUME ProcessorsInv PROVE A
    OBVIOUS
  <2>1. /\ focus = "arm" => Shared!ContextRestored
        /\ focus = "sh" => Sh!SrRestored
        /\ focus = "nes" => Nes!ProgramResumes
        /\ focus = "snes" => Snes!ProgramResumes
    BY ArmRestores, ShRestores, NesResumes, SnesResumes DEF ProcessorsInv
  <2>2. /\ focus = "psx" => Psx!EnableRestored /\ Psx!TrapReplays
        /\ focus = "n64" => N64!Resumes
        /\ focus = "m68k" => M68k!ProgramResumes
        /\ focus = "bus" => Bus!ProgramResumes
    BY PsxResumes, N64Resumes, M68kResumes, Z80Resumes DEF ProcessorsInv
  <2> QED
    BY <2>1, <2>2
<1> HIDE DEF A
<1>2. Spec => [][A]_vars
  BY <1>1, ProcessorsInvariant, PTL DEF Spec
<1> QED
  BY <1>2 DEF A, ProgramResumes

\* The registers, queues, tables and blobs of the part in focus hold what they
\* are made for, in every reachable state of every part.
THEOREM ConsolesTypeCorrect == Spec => []TypeOK
<1>1. DevicesInv /\ ProcessorsInv => TypeOK
  <2> SUFFICES ASSUME DevicesInv, ProcessorsInv PROVE TypeOK
    OBVIOUS
  <2>1. /\ focus = "timers" => Timers!TypeOK
        /\ focus = "dma" => Dma!TypeOK
        /\ focus = "sound" => Sound!TypeOK
        /\ focus = "hdma" => Hdma!TypeOK
        /\ focus = "api" => Api!TypeOK
    BY DEF DevicesInv, FifoInv
  <2>2. focus = "gpu" => Gpu!TypeOK
    BY GpuInvImplies DEF DevicesInv
  <2>3. focus = "cart" => Cart!TypeOK
    BY DEF DevicesInv, Cart!SerialInv, Cart!CounterInv, Cart!TypeOK
  <2>4. focus = "pad" => Pad!TypeOK
    BY PadInvImplies DEF DevicesInv
  <2>5. /\ focus = "arm" => Shared!TypeOK
        /\ focus = "sh" => Sh!TypeOK
        /\ focus = "nes" => Nes!TypeOK
        /\ focus = "snes" => Snes!TypeOK
    BY ArmInvImplies, ShInvImplies, NesInvImplies, SnesInvImplies DEF ProcessorsInv
  <2>6. /\ focus = "psx" => Psx!TypeOK
        /\ focus = "n64" => N64!TypeOK
        /\ focus = "m68k" => M68k!TypeOK
        /\ focus = "bus" => Bus!TypeOK
    BY PsxInvImplies, N64InvImplies, M68kInvImplies, BusInvImplies DEF ProcessorsInv
  <2> QED
    BY <2>1, <2>2, <2>3, <2>4, <2>5, <2>6 DEF TypeOK
<1> QED
  BY <1>1, DevicesInvariant, ProcessorsInvariant, PTL

(***************************************************************************)
(* The arithmetic of the two ARM interpreters: a register of as many       *)
(* values as the power of two of its width.                                *)
(***************************************************************************)

\* A chain of n numbers, each the next of the one before it, from x.
IsTwos(f, n) ==
  f \in [0..n -> Nat \ {0}] /\ f[0] = 1 /\ \A k \in 1..n : f[k] = 2 * f[k - 1]

LEMMA TwosExist ==
  ASSUME NEW n \in Nat
  PROVE  \E f : IsTwos(f, n)
<1> DEFINE X == Nat \ {0}
<1>1. PICK s \in X : s = 1
  OBVIOUS
<1>2. PICK T \in [1..n -> [X -> X]] : \A k \in 1..n, x \in X : T[k][x] = 2 * x
  <2> DEFINE double == [x \in X |-> 2 * x]
             U == [k \in 1..n |-> double]
  <2>1. double \in [X -> X] /\ \A x \in X : double[x] = 2 * x
    OBVIOUS
  <2> HIDE DEF double
  <2>2. U \in [1..n -> [X -> X]] /\ \A k \in 1..n, x \in X : U[k][x] = 2 * x
    BY <2>1
  <2> HIDE DEF U
  <2> QED BY <2>2
<1>3. n \in Nat /\ s \in X /\ T \in [1..n -> [X -> X]]
  OBVIOUS
<1> HIDE DEF X
<1>4. \E f \in [0..n -> X] : f[0] = s /\ \A k \in 1..n : f[k] = T[k][f[k - 1]]
  BY ONLY <1>3, Iterated
<1>5. PICK f \in [0..n -> X] : f[0] = s /\ \A k \in 1..n : f[k] = T[k][f[k - 1]]
  BY <1>4
<1>6. ASSUME NEW k \in 1..n PROVE f[k] = 2 * f[k - 1]
  <2>1. k - 1 \in 0..n
    OBVIOUS
  <2> QED BY <1>2, <1>5, <2>1
<1> QED
  BY <1>1, <1>5, <1>6 DEF IsTwos, X

LEMMA ArmTwos == ArmWidth \in Nat \ {0, 1} /\ IsTwos(ArmAlu!Two, ArmWidth)
<1> DEFINE n == ArmWidth
           Steps(f) == f = [k \in 0..n |-> IF k = 0 THEN 1 ELSE 2 * f[k - 1]]
           g == CHOOSE f : Steps(f)
<1>1. n \in Nat \ {0, 1}
  BY ProcessorsFit DEF ArmAlu!ArmDataAssumption
<1>2. ArmAlu!Two = g
  BY DEF ArmAlu!Two
<1> HIDE DEF n
<1>3. PICK h : IsTwos(h, n)
  BY <1>1, TwosExist
<1>4. Steps(h)
  <2>1. \A k \in 0..n : h[k] = IF k = 0 THEN 1 ELSE 2 * h[k - 1]
    BY <1>1, <1>3 DEF IsTwos
  <2>2. h = [k \in 0..n |-> h[k]]
    BY <1>3 DEF IsTwos
  <2> QED BY <2>1, <2>2
<1>5. Steps(g)
  <2> HIDE DEF Steps
  <2> QED BY <1>4
<1>6. \A k \in 0..n : g[k] = IF k = 0 THEN 1 ELSE 2 * g[k - 1]
  <2> HIDE DEF g
  <2> QED BY <1>5
<1>7. g = [k \in 0..n |-> g[k]]
  <2> HIDE DEF g
  <2> QED BY <1>5
<1> HIDE DEF g, Steps
<1>8. \A k \in 0..n : k \in {j \in 0..n : g[j] \in Nat \ {0}}
  <2> DEFINE B == {j \in 0..n : g[j] \in Nat \ {0}}
  <2>1. 0 \in B
    BY <1>1, <1>6
  <2>2. \A k \in 0..(n - 1) : k \in B => k + 1 \in B
    <3> SUFFICES ASSUME NEW k \in 0..(n - 1), k \in B PROVE k + 1 \in B
      OBVIOUS
    <3>1. k + 1 \in 0..n /\ k + 1 # 0 /\ (k + 1) - 1 = k
      BY <1>1
    <3>2. g[k + 1] = 2 * g[k]
      BY <1>6, <3>1
    <3> QED BY <3>1, <3>2
  <2> HIDE DEF B
  <2>3. \A k \in 0..n : k \in B
    BY <1>1, <2>1, <2>2, UpTo
  <2> QED BY <2>3 DEF B
<1>9. IsTwos(g, n)
  <2>1. g \in [0..n -> Nat \ {0}]
    BY <1>7, <1>8
  <2>2. \A k \in 1..n : g[k] = 2 * g[k - 1]
    BY <1>1, <1>6
  <2>3. g[0] = 1
    BY <1>1, <1>6
  <2> QED BY <2>1, <2>2, <2>3 DEF IsTwos
<1> QED
  BY <1>1, <1>2, <1>9 DEF n

\* A power is the product of two that add up to it.
LEMMA TwosMultiply ==
  ASSUME NEW n \in Nat, NEW f, IsTwos(f, n), NEW j \in 0..n
  PROVE  \A i \in 0..(n - j) : f[i] * f[j] = f[i + j]
<1> DEFINE B == {i \in 0..(n - j) : f[i] * f[j] = f[i + j]}
<1>1. f \in [0..n -> Nat \ {0}] /\ f[0] = 1 /\ \A k \in 1..n : f[k] = 2 * f[k - 1]
  BY DEF IsTwos
<1>2. 0 \in B
  BY <1>1
<1>3. \A k \in 0..((n - j) - 1) : k \in B => k + 1 \in B
  <2> SUFFICES ASSUME NEW k \in 0..((n - j) - 1), k \in B PROVE k + 1 \in B
    OBVIOUS
  <2>1. k + 1 \in 1..n /\ (k + 1) - 1 = k /\ (k + 1) + j \in 1..n /\ ((k + 1) + j) - 1 = k + j
        /\ k + 1 \in 0..(n - j) /\ k \in 0..n
    OBVIOUS
  <2>2. f[k + 1] = 2 * f[k] /\ f[(k + 1) + j] = 2 * f[k + j] /\ f[k] * f[j] = f[k + j]
    BY <1>1, <2>1
  <2>3. \A x, y \in Nat : (2 * x) * y = 2 * (x * y)
    OBVIOUS
  <2>4. f[k] \in Nat /\ f[j] \in Nat
    BY <1>1, <2>1
  <2>5. f[k + 1] * f[j] = f[(k + 1) + j]
    BY <2>2, <2>3, <2>4
  <2> QED BY <2>1, <2>5
<1> HIDE DEF B
<1>4. n - j \in Nat
  OBVIOUS
<1>5. \A i \in 0..(n - j) : i \in B
  BY <1>2, <1>3, <1>4, UpTo
<1> QED
  BY <1>5 DEF B

\* The values of a register, and half of them.
LEMMA ArmSize ==
  LET h == ArmAlu!Two[ArmWidth - 1] IN
  /\ h \in Nat \ {0} /\ ArmAlu!M = 2 * h /\ ArmAlu!M \div 2 = h
  /\ ArmAlu!Reg = 0..(2 * h - 1)
<1> DEFINE h == ArmAlu!Two[ArmWidth - 1]
<1>1. ArmWidth - 1 \in 0..ArmWidth /\ ArmWidth \in 1..ArmWidth
  BY ArmTwos
<1>2. h \in Nat \ {0} /\ ArmAlu!M = 2 * h
  BY <1>1, ArmTwos DEF IsTwos, ArmAlu!M
<1> HIDE DEF h
<1>3. ArmAlu!M \div 2 = h
  BY <1>2
<1>4. ArmAlu!Reg = 0..(2 * h - 1)
  BY <1>2 DEF ArmAlu!Reg
<1> QED
  BY <1>2, <1>3, <1>4 DEF h

\* What the interpreters' formulas say of a sum and of a difference.
ArmSumIs(a, b, c, r) ==
  /\ r = IF a + b + c >= ArmAlu!M THEN a + b + c - ArmAlu!M ELSE a + b + c
  /\ ArmAlu!AddV(a, b, r) <=> ~ArmAlu!Fits(ArmAlu!Signed(a) + ArmAlu!Signed(b) + c)

ArmDifferenceIs(a, b, d, r) ==
  /\ r = IF a >= b + d THEN a - b - d ELSE a - b - d + ArmAlu!M
  /\ ArmAlu!SubV(a, b, r) <=> ~ArmAlu!Fits(ArmAlu!Signed(a) - ArmAlu!Signed(b) - d)

LEMMA ArmSum ==
  ASSUME NEW a \in ArmAlu!Reg, NEW b \in ArmAlu!Reg, NEW c \in {0, 1}
  PROVE  ArmSumIs(a, b, c, ArmAlu!Wrap(a + b + c))
<1> DEFINE h == ArmAlu!Two[ArmWidth - 1]
           r == ArmAlu!Wrap(a + b + c)
<1>1. h \in Nat \ {0} /\ ArmAlu!M = 2 * h /\ ArmAlu!M \div 2 = h
      /\ ArmAlu!Reg = 0..(2 * h - 1)
  BY ArmSize
<1>2. a \in 0..(2 * h - 1) /\ b \in 0..(2 * h - 1)
  BY <1>1
<1>3. r = (a + b + c) % (2 * h)
  BY <1>1 DEF ArmAlu!Wrap
<1>4. (\A x : ArmAlu!Top(x) <=> x >= h) /\ (\A x : ArmAlu!Signed(x) = SignedBy(h, x))
      /\ (\A x : ArmAlu!Fits(x) <=> x \in -h..(h - 1))
  BY <1>1 DEF ArmAlu!Top, ArmAlu!Signed, SignedBy, ArmAlu!Fits
<1>5. IsSum(h, a, b, c, r)
  <2> HIDE DEF h, r
  <2>1. IsSum(h, a, b, c, (a + b + c) % (2 * h))
    BY <1>1, <1>2, SumWraps
  <2> QED BY <1>3, <2>1
<1>6. ArmAlu!AddV(a, b, r) <=> (a >= h <=> b >= h) /\ ~(a >= h <=> r >= h)
  BY <1>1 DEF ArmAlu!AddV, ArmAlu!Top
<1> HIDE DEF h, r
<1>7. r = (IF a + b + c >= 2 * h THEN a + b + c - 2 * h ELSE a + b + c)
      /\ ((a >= h <=> b >= h) /\ ~(a >= h <=> r >= h)
           <=> ~(SignedBy(h, a) + SignedBy(h, b) + c \in -h..(h - 1)))
  BY <1>5 DEF IsSum
<1>8. ArmSumIs(a, b, c, r)
  BY <1>1, <1>4, <1>6, <1>7 DEF ArmSumIs
<1> QED
  BY <1>8 DEF r

LEMMA ArmDifference ==
  ASSUME NEW a \in ArmAlu!Reg, NEW b \in ArmAlu!Reg, NEW d \in {0, 1}
  PROVE  ArmDifferenceIs(a, b, d, ArmAlu!Wrap(a - b - d))
<1> DEFINE h == ArmAlu!Two[ArmWidth - 1]
           r == ArmAlu!Wrap(a - b - d)
<1>1. h \in Nat \ {0} /\ ArmAlu!M = 2 * h /\ ArmAlu!M \div 2 = h
      /\ ArmAlu!Reg = 0..(2 * h - 1)
  BY ArmSize
<1>2. a \in 0..(2 * h - 1) /\ b \in 0..(2 * h - 1)
  BY <1>1
<1>3. r = (a - b - d) % (2 * h)
  BY <1>1 DEF ArmAlu!Wrap
<1>4. (\A x : ArmAlu!Top(x) <=> x >= h) /\ (\A x : ArmAlu!Signed(x) = SignedBy(h, x))
      /\ (\A x : ArmAlu!Fits(x) <=> x \in -h..(h - 1))
  BY <1>1 DEF ArmAlu!Top, ArmAlu!Signed, SignedBy, ArmAlu!Fits
<1>5. IsDifference(h, a, b, d, r)
  <2> HIDE DEF h, r
  <2>1. IsDifference(h, a, b, d, (a - b - d) % (2 * h))
    BY <1>1, <1>2, DifferenceWraps
  <2> QED BY <1>3, <2>1
<1>6. ArmAlu!SubV(a, b, r) <=> ~(a >= h <=> b >= h) /\ ~(a >= h <=> r >= h)
  BY <1>1 DEF ArmAlu!SubV, ArmAlu!Top
<1> HIDE DEF h, r
<1>7. r = (IF a >= b + d THEN a - b - d ELSE a - b - d + 2 * h)
      /\ (~(a >= h <=> b >= h) /\ ~(a >= h <=> r >= h)
           <=> ~(SignedBy(h, a) - SignedBy(h, b) - d \in -h..(h - 1)))
  BY <1>5 DEF IsDifference
<1>8. ArmDifferenceIs(a, b, d, r)
  BY <1>1, <1>4, <1>6, <1>7 DEF ArmDifferenceIs
<1> QED
  BY <1>8 DEF r

ArmSumLeft(a, b, c, res) ==
  /\ res.r = ArmAlu!Wrap(a + b + c)
  /\ res.c <=> a + b + c >= ArmAlu!M
  /\ res.v <=> ArmAlu!AddV(a, b, res.r)

LEMMA ArmSumFlags ==
  ASSUME NEW a \in ArmAlu!Reg, NEW b \in ArmAlu!Reg, NEW c \in {0, 1},
         NEW res, ArmSumLeft(a, b, c, res)
  PROVE  ArmAlu!SumExact(a, b, c, res)
<1>1. ArmSumIs(a, b, c, res.r)
  BY ArmSum DEF ArmSumLeft
<1>2. res.v <=> ~ArmAlu!Fits(ArmAlu!Signed(a) + ArmAlu!Signed(b) + c)
  BY <1>1 DEF ArmSumIs, ArmSumLeft
<1> QED
  BY <1>2 DEF ArmAlu!SumExact, ArmSumLeft

LEMMA ArmSumsExact ==
  ASSUME NEW a \in ArmAlu!Reg, NEW b \in ArmAlu!Reg, NEW c \in {0, 1}
  PROVE  /\ ArmAlu!SumExact(a, b, 0, ArmAlu!ArmAdd(a, b))
         /\ ArmAlu!SumExact(a, b, c, ArmAlu!ArmAdc(a, b, c))
         /\ ArmAlu!SumExact(a, b, c, ArmAlu!GbaAdd(a, b, c))
<1> DEFINE m == ArmAlu!M
<1>1. m \in Nat \ {0} /\ a \in 0..(m - 1) /\ b \in 0..(m - 1)
  BY ArmSize
<1>3. ArmAlu!SumExact(a, b, 0, ArmAlu!ArmAdd(a, b))
  <2> DEFINE r == ArmAlu!Wrap(a + b)
             k == r < a
             v == ArmAlu!AddV(a, b, r)
             res == ArmAlu!ArmAdd(a, b)
  <2>1. res = [r |-> r, c |-> k, v |-> v]
    BY DEF ArmAlu!ArmAdd
  <2>2. r = ArmAlu!Wrap(a + b + 0)
    <3>1. a + b + 0 = a + b
      BY <1>1
    <3> QED BY <3>1
  <2> HIDE DEF m
  <2>3. k <=> a + b + 0 >= m
    <3> HIDE DEF r
    <3>1. r = IF a + b + 0 >= m THEN a + b + 0 - m ELSE a + b + 0
      BY <2>2, ArmSum DEF ArmSumIs, m
    <3> QED BY <1>1, <3>1
  <2> HIDE DEF r, k, res, v
  <2>9. res.r = r /\ (res.c <=> k) /\ (res.v <=> v)
    BY ONLY <2>1
  <2>10. ArmSumLeft(a, b, 0, res)
    BY <2>2, <2>3, <2>9 DEF v, ArmSumLeft, m
  <2> QED BY <1>1, <2>10, ArmSumFlags DEF res
<1>4. a + b + c \in 0..(2 * m - 1)
  BY <1>1
<1>5. ArmAlu!SumExact(a, b, c, ArmAlu!ArmAdc(a, b, c))
  <2> DEFINE r == ArmAlu!Wrap(a + b + c)
             k == (a + b + c) \div m = 1
             v == ArmAlu!AddV(a, b, r)
             res == ArmAlu!ArmAdc(a, b, c)
             s == a + b + c
             q == s \div m
  <2>1. res = [r |-> r, c |-> k, v |-> v]
    BY DEF ArmAlu!ArmAdc
  <2>2. k <=> a + b + c >= m
    <3>1. s \in 0..(2 * m - 1) /\ s \in Nat
      BY <1>1, <1>4
    <3> HIDE DEF s, m
    <3>2. q = 1 <=> s >= m
      <4>1. CASE s >= m
        <5>1. s = m * 1 + (s - m) /\ s - m \in 0..(m - 1)
          BY <1>1, <3>1, <4>1
        <5>2. q = 1
          BY <1>1, <3>1, <5>1, DivUnique
        <5> QED BY <4>1, <5>2
      <4>2. CASE s < m
        <5>1. s = m * 0 + s /\ s \in 0..(m - 1)
          BY <1>1, <3>1, <4>2
        <5>2. q = 0
          BY <1>1, <3>1, <5>1, DivUnique
        <5> QED BY <1>1, <3>1, <4>2, <5>2
      <4> QED BY <1>1, <3>1, <4>1, <4>2
    <3> QED BY <3>2 DEF s
  <2> HIDE DEF r, k, res, m, v
  <2>9. res.r = r /\ (res.c <=> k) /\ (res.v <=> v)
    BY ONLY <2>1
  <2>10. ArmSumLeft(a, b, c, res)
    BY <2>2, <2>9 DEF r, v, ArmSumLeft, m
  <2> QED BY <1>1, <2>10, ArmSumFlags DEF res
<1>6. ArmAlu!SumExact(a, b, c, ArmAlu!GbaAdd(a, b, c))
  <2> DEFINE r == ArmAlu!Wrap(a + b + c)
             k == a + b + c > m - 1
             v == ArmAlu!AddV(a, b, r)
             res == ArmAlu!GbaAdd(a, b, c)
  <2>1. res = [r |-> r, c |-> k, v |-> v]
    BY DEF ArmAlu!GbaAdd
  <2> HIDE DEF m
  <2>2. k <=> a + b + c >= m
    BY <1>1
  <2> HIDE DEF r, k, res, v
  <2>9. res.r = r /\ (res.c <=> k) /\ (res.v <=> v)
    BY ONLY <2>1
  <2>10. ArmSumLeft(a, b, c, res)
    BY <2>2, <2>9 DEF r, v, ArmSumLeft, m
  <2> QED BY <1>1, <2>10, ArmSumFlags DEF res
<1> QED
  BY <1>3, <1>5, <1>6

ArmDifferenceLeft(a, b, c, res) ==
  /\ res.r = ArmAlu!Wrap(a - b - (1 - c))
  /\ res.c <=> a >= b + (1 - c)
  /\ res.v <=> ArmAlu!SubV(a, b, res.r)

LEMMA ArmDifferenceFlags ==
  ASSUME NEW a \in ArmAlu!Reg, NEW b \in ArmAlu!Reg, NEW c \in {0, 1},
         NEW res, ArmDifferenceLeft(a, b, c, res)
  PROVE  ArmAlu!DifferenceExact(a, b, c, res)
<1> DEFINE d == 1 - c
<1>1. d \in {0, 1} /\ a \in Nat /\ b \in Nat
  BY ArmSize
<1>2. res.r = ArmAlu!Wrap(a - b - d) /\ (res.c <=> a >= b + d)
      /\ (res.v <=> ArmAlu!SubV(a, b, res.r))
  BY DEF ArmDifferenceLeft
<1> HIDE DEF d
<1>3. ArmDifferenceIs(a, b, d, res.r)
  BY <1>1, <1>2, ArmDifference
<1>4. res.v <=> ~ArmAlu!Fits(ArmAlu!Signed(a) - ArmAlu!Signed(b) - d)
  BY <1>2, <1>3 DEF ArmDifferenceIs
<1>5. res.c <=> a - b - d >= 0
  BY <1>1, <1>2
<1> QED
  BY <1>2, <1>4, <1>5 DEF ArmAlu!DifferenceExact, d

LEMMA ArmDifferencesExact ==
  ASSUME NEW a \in ArmAlu!Reg, NEW b \in ArmAlu!Reg, NEW c \in {0, 1}
  PROVE  /\ ArmAlu!DifferenceExact(a, b, 1, ArmAlu!ArmSub(a, b))
         /\ ArmAlu!DifferenceExact(a, b, c, ArmAlu!ArmSbc(a, b, c))
         /\ ArmAlu!DifferenceExact(0, b, 1, ArmAlu!ArmNeg(b))
         /\ ArmAlu!DifferenceExact(a, b, 1, ArmAlu!GbaSub(a, b, 0))
         /\ ArmAlu!DifferenceExact(a, b, c, ArmAlu!GbaSub(a, b, 1 - c))
<1> DEFINE m == ArmAlu!M
<1>1. m \in Nat \ {0} /\ a \in 0..(m - 1) /\ b \in 0..(m - 1) /\ 0 \in ArmAlu!Reg
  BY ArmSize
<1>3. /\ a - b - (1 - 1) = a - b /\ b + (1 - 1) = b /\ 0 - b - (1 - 1) = -b
      /\ a - b - 0 = a - b /\ b + 0 = b
  BY <1>1
<1>4. ArmAlu!DifferenceExact(a, b, 1, ArmAlu!ArmSub(a, b))
  <2> DEFINE r == ArmAlu!Wrap(a - b)
             k == a >= b
             v == ArmAlu!SubV(a, b, r)
             res == ArmAlu!ArmSub(a, b)
  <2>1. res = [r |-> r, c |-> k, v |-> v]
    BY DEF ArmAlu!ArmSub
  <2>2. r = ArmAlu!Wrap(a - b - (1 - 1)) /\ (k <=> a >= b + (1 - 1))
    BY <1>3
  <2> HIDE DEF r, k, res, m, v
  <2>9. res.r = r /\ (res.c <=> k) /\ (res.v <=> v)
    BY ONLY <2>1
  <2>10. ArmDifferenceLeft(a, b, 1, res)
    BY <2>2, <2>9 DEF v, ArmDifferenceLeft
  <2> QED BY <1>1, <2>10, ArmDifferenceFlags DEF res
<1>5. ArmAlu!DifferenceExact(a, b, c, ArmAlu!ArmSbc(a, b, c))
  <2> DEFINE r == ArmAlu!Wrap(a - b - (1 - c))
             k == IF c = 0 THEN a > b ELSE a >= b
             v == ArmAlu!SubV(a, b, r)
             res == ArmAlu!ArmSbc(a, b, c)
  <2>1. res = [r |-> r, c |-> k, v |-> v]
    BY DEF ArmAlu!ArmSbc
  <2>2. k <=> a >= b + (1 - c)
    BY <1>1
  <2> HIDE DEF r, k, res, m, v
  <2>9. res.r = r /\ (res.c <=> k) /\ (res.v <=> v)
    BY ONLY <2>1
  <2>10. ArmDifferenceLeft(a, b, c, res)
    BY <2>2, <2>9 DEF r, v, ArmDifferenceLeft
  <2> QED BY <1>1, <2>10, ArmDifferenceFlags DEF res
<1>6. ArmAlu!DifferenceExact(0, b, 1, ArmAlu!ArmNeg(b))
  <2> DEFINE r == ArmAlu!Wrap(-b)
             k == b = 0
             v == ArmAlu!Top(b) /\ ArmAlu!Top(r)
             res == ArmAlu!ArmNeg(b)
  <2>1. res = [r |-> r, c |-> k, v |-> v]
    BY DEF ArmAlu!ArmNeg
  <2>2. r = ArmAlu!Wrap(0 - b - (1 - 1)) /\ (k <=> 0 >= b + (1 - 1))
    BY <1>1, <1>3
  <2>3. v <=> ArmAlu!SubV(0, b, r)
    <3>1. ~ArmAlu!Top(0)
      BY ArmSize DEF ArmAlu!Top
    <3>2. ArmAlu!SubV(0, b, r)
            <=> ~(ArmAlu!Top(0) <=> ArmAlu!Top(b)) /\ ~(ArmAlu!Top(0) <=> ArmAlu!Top(r))
      BY DEF ArmAlu!SubV, ArmAlu!Top
    <3> QED BY <3>1, <3>2
  <2> HIDE DEF r, k, v, res, m
  <2>9. res.r = r /\ (res.c <=> k) /\ (res.v <=> v)
    BY ONLY <2>1
  <2>10. ArmDifferenceLeft(0, b, 1, res)
    BY <2>2, <2>3, <2>9 DEF ArmDifferenceLeft
  <2> QED BY <1>1, <2>10, ArmDifferenceFlags DEF res
<1>7. ArmAlu!DifferenceExact(a, b, 1, ArmAlu!GbaSub(a, b, 0))
  <2> DEFINE r == ArmAlu!Wrap(a - b - 0)
             k == a >= b + 0
             v == ArmAlu!SubV(a, b, r)
             res == ArmAlu!GbaSub(a, b, 0)
  <2>1. res = [r |-> r, c |-> k, v |-> v]
    BY DEF ArmAlu!GbaSub
  <2>2. r = ArmAlu!Wrap(a - b - (1 - 1)) /\ (k <=> a >= b + (1 - 1))
    BY <1>3
  <2> HIDE DEF r, k, res, m, v
  <2>9. res.r = r /\ (res.c <=> k) /\ (res.v <=> v)
    BY ONLY <2>1
  <2>10. ArmDifferenceLeft(a, b, 1, res)
    BY <2>2, <2>9 DEF v, ArmDifferenceLeft
  <2> QED BY <1>1, <2>10, ArmDifferenceFlags DEF res
<1>8. ArmAlu!DifferenceExact(a, b, c, ArmAlu!GbaSub(a, b, 1 - c))
  <2> DEFINE r == ArmAlu!Wrap(a - b - (1 - c))
             k == a >= b + (1 - c)
             v == ArmAlu!SubV(a, b, r)
             res == ArmAlu!GbaSub(a, b, 1 - c)
  <2>1. res = [r |-> r, c |-> k, v |-> v]
    BY DEF ArmAlu!GbaSub
  <2> HIDE DEF r, k, res, m, v
  <2>9. res.r = r /\ (res.c <=> k) /\ (res.v <=> v)
    BY ONLY <2>1
  <2>10. ArmDifferenceLeft(a, b, c, res)
    BY <2>9 DEF r, k, v, ArmDifferenceLeft
  <2> QED BY <1>1, <2>10, ArmDifferenceFlags DEF res
<1> QED
  BY <1>4, <1>5, <1>6, <1>7, <1>8

\* The operand and the carry an operation works with.
Operand(op, a) == IF op = "arm neg" THEN 0 ELSE a

ArmResultExact(op, x, b, d, res) ==
  /\ op \in ArmAlu!Adds => ArmAlu!SumExact(x, b, d, res)
  /\ op \in ArmAlu!Subs => ArmAlu!DifferenceExact(x, b, d, res)

LEMMA ArmResultsExact ==
  ASSUME NEW op \in ArmAlu!Adds \cup ArmAlu!Subs,
         NEW a \in ArmAlu!Reg, NEW b \in ArmAlu!Reg, NEW c \in {0, 1}
  PROVE  ArmResultExact(op, Operand(op, a), b, ArmAlu!CarryIn(op, c),
                        ArmAlu!Result(op, a, b, c))
<1> DEFINE x == Operand(op, a)
           d == ArmAlu!CarryIn(op, c)
           res == ArmAlu!Result(op, a, b, c)
<1>1. CASE op = "arm add"
  <2>1. x = a /\ d = 0 /\ res = ArmAlu!ArmAdd(a, b) /\ op \notin ArmAlu!Subs
    BY <1>1 DEF Operand, ArmAlu!CarryIn, ArmAlu!Result, ArmAlu!Adds, ArmAlu!Subs
  <2> HIDE DEF x, d, res
  <2>9. ArmResultExact(op, x, b, d, res)
    BY <2>1, ArmSumsExact DEF ArmResultExact
  <2> QED BY <2>9 DEF x, d, res
<1>2. CASE op = "arm adc"
  <2>1. x = a /\ d = c /\ res = ArmAlu!ArmAdc(a, b, c) /\ op \notin ArmAlu!Subs
    BY <1>2 DEF Operand, ArmAlu!CarryIn, ArmAlu!Result, ArmAlu!Adds, ArmAlu!Subs
  <2> HIDE DEF x, d, res
  <2>9. ArmResultExact(op, x, b, d, res)
    BY <2>1, ArmSumsExact DEF ArmResultExact
  <2> QED BY <2>9 DEF x, d, res
<1>3. CASE op = "gba add"
  <2>1. x = a /\ d = 0 /\ res = ArmAlu!GbaAdd(a, b, d) /\ op \notin ArmAlu!Subs
    BY <1>3 DEF Operand, ArmAlu!CarryIn, ArmAlu!Result, ArmAlu!Adds, ArmAlu!Subs
  <2> HIDE DEF x, d, res
  <2>9. ArmResultExact(op, x, b, d, res)
    BY <2>1, ArmSumsExact DEF ArmResultExact
  <2> QED BY <2>9 DEF x, d, res
<1>4. CASE op = "gba adc"
  <2>1. x = a /\ d = c /\ res = ArmAlu!GbaAdd(a, b, d) /\ op \notin ArmAlu!Subs
    BY <1>4 DEF Operand, ArmAlu!CarryIn, ArmAlu!Result, ArmAlu!Adds, ArmAlu!Subs
  <2> HIDE DEF x, d, res
  <2>9. ArmResultExact(op, x, b, d, res)
    BY <2>1, ArmSumsExact DEF ArmResultExact
  <2> QED BY <2>9 DEF x, d, res
<1>5. CASE op = "arm sub"
  <2>1. x = a /\ d = 1 /\ res = ArmAlu!ArmSub(a, b) /\ op \notin ArmAlu!Adds
    BY <1>5 DEF Operand, ArmAlu!CarryIn, ArmAlu!Result, ArmAlu!Adds, ArmAlu!Subs
  <2> HIDE DEF x, d, res
  <2>9. ArmResultExact(op, x, b, d, res)
    BY <2>1, ArmDifferencesExact DEF ArmResultExact
  <2> QED BY <2>9 DEF x, d, res
<1>6. CASE op = "arm sbc"
  <2>1. x = a /\ d = c /\ res = ArmAlu!ArmSbc(a, b, c) /\ op \notin ArmAlu!Adds
    BY <1>6 DEF Operand, ArmAlu!CarryIn, ArmAlu!Result, ArmAlu!Adds, ArmAlu!Subs
  <2> HIDE DEF x, d, res
  <2>9. ArmResultExact(op, x, b, d, res)
    BY <2>1, ArmDifferencesExact DEF ArmResultExact
  <2> QED BY <2>9 DEF x, d, res
<1>7. CASE op = "arm neg"
  <2>1. x = 0 /\ d = 1 /\ res = ArmAlu!ArmNeg(b) /\ op \notin ArmAlu!Adds
    BY <1>7 DEF Operand, ArmAlu!CarryIn, ArmAlu!Result, ArmAlu!Adds, ArmAlu!Subs
  <2> HIDE DEF x, d, res
  <2>9. ArmResultExact(op, x, b, d, res)
    BY <2>1, ArmDifferencesExact DEF ArmResultExact
  <2> QED BY <2>9 DEF x, d, res
<1>8. CASE op = "gba sub"
  <2>1. x = a /\ d = 1 /\ res = ArmAlu!GbaSub(a, b, 1 - d) /\ op \notin ArmAlu!Adds
    BY <1>8 DEF Operand, ArmAlu!CarryIn, ArmAlu!Result, ArmAlu!Adds, ArmAlu!Subs
  <2>2. 1 - d = 0
    BY <2>1
  <2> HIDE DEF x, d, res
  <2>3. res = ArmAlu!GbaSub(a, b, 0)
    BY <2>1, <2>2
  <2>9. ArmResultExact(op, x, b, d, res)
    BY <2>1, <2>3, ArmDifferencesExact DEF ArmResultExact
  <2> QED BY <2>9 DEF x, d, res
<1>9. CASE op = "gba sbc"
  <2>1. x = a /\ d = c /\ res = ArmAlu!GbaSub(a, b, 1 - c) /\ op \notin ArmAlu!Adds
    BY <1>9 DEF Operand, ArmAlu!CarryIn, ArmAlu!Result, ArmAlu!Adds, ArmAlu!Subs
  <2> HIDE DEF x, d, res
  <2>9. ArmResultExact(op, x, b, d, res)
    BY <2>1, ArmDifferencesExact DEF ArmResultExact
  <2> QED BY <2>9 DEF x, d, res
<1> QED
  BY <1>1, <1>2, <1>3, <1>4, <1>5, <1>6, <1>7, <1>8, <1>9 DEF ArmAlu!Adds, ArmAlu!Subs

(***************************************************************************)
(* Shifts: a register is cut at bit k.                                     *)
(***************************************************************************)

Upper(x, k) == x \div ArmAlu!Two[k]
Lower(x, k) == x % ArmAlu!Two[k]

\* Only one way to divide, of negative numbers too.
LEMMA DivFloor ==
  ASSUME NEW a \in Int, NEW n \in Nat \ {0}, NEW k \in Int, NEW r \in 0..(n - 1),
         a = n * k + r
  PROVE  a % n = r /\ a \div n = k
<1> DEFINE q == a \div n
           s == a % n
<1>1. q \in Int /\ s \in 0..(n - 1) /\ a = n * q + s
  OBVIOUS
<1> HIDE DEF q, s
<1>2. n * q \in Int /\ n * k \in Int
  BY <1>1
<1>3. ~(q < k)
  <2> SUFFICES ASSUME q < k PROVE FALSE
    OBVIOUS
  <2>1. n * q + n <= n * k
    BY <1>1, MultStep
  <2> QED BY <1>1, <1>2, <2>1
<1>4. ~(k < q)
  <2> SUFFICES ASSUME k < q PROVE FALSE
    OBVIOUS
  <2>1. n * k + n <= n * q
    BY <1>1, MultStep
  <2> QED BY <1>1, <1>2, <2>1
<1>5. q = k
  BY <1>1, <1>3, <1>4
<1>6. s = r
  BY <1>1, <1>2, <1>5
<1> QED
  BY <1>5, <1>6 DEF q, s

\* The powers of two that the cuts are made with.
LEMMA Powers ==
  ASSUME NEW k \in 0..ArmWidth
  PROVE  /\ ArmAlu!Two[k] \in Nat \ {0} /\ ArmAlu!Two[ArmWidth - k] \in Nat \ {0}
         /\ ArmAlu!Two[k] * ArmAlu!Two[ArmWidth - k] = ArmAlu!M
         /\ ArmAlu!Two[0] = 1 /\ ArmAlu!Two[ArmWidth] = ArmAlu!M
         /\ k < ArmWidth => /\ ArmAlu!Two[k + 1] = 2 * ArmAlu!Two[k]
                            /\ ArmAlu!Two[ArmWidth - k] = 2 * ArmAlu!Two[ArmWidth - (k + 1)]
<1> DEFINE n == ArmWidth
           f == ArmAlu!Two
<1>1. n \in Nat \ {0, 1} /\ IsTwos(f, n)
  BY ArmTwos
<1>2. ArmAlu!M = f[n]
  BY DEF ArmAlu!M
<1>3. k \in 0..n
  OBVIOUS
<1> HIDE DEF n, f
<1>4. n - k \in 0..n /\ k \in 0..(n - (n - k)) /\ k + (n - k) = n /\ 0 \in 0..n
  BY <1>1, <1>3
<1>5. f[k] * f[n - k] = f[n]
  BY <1>1, <1>4, TwosMultiply
<1>6. f \in [0..n -> Nat \ {0}] /\ f[0] = 1 /\ \A i \in 1..n : f[i] = 2 * f[i - 1]
  BY <1>1 DEF IsTwos
<1>7. ASSUME k < n PROVE f[k + 1] = 2 * f[k] /\ f[n - k] = 2 * f[n - (k + 1)]
  <2>1. k + 1 \in 1..n /\ (k + 1) - 1 = k /\ n - k \in 1..n /\ (n - k) - 1 = n - (k + 1)
    BY <1>1, <1>3, <1>7
  <2> QED BY <1>6, <2>1
<1>8. f[k] \in Nat \ {0} /\ f[n - k] \in Nat \ {0}
  BY <1>3, <1>4, <1>6
<1> QED
  BY <1>2, <1>5, <1>6, <1>7, <1>8 DEF n, f

LEMMA CutParts ==
  ASSUME NEW x \in ArmAlu!Reg, NEW k \in 0..ArmWidth
  PROVE  /\ Upper(x, k) \in 0..(ArmAlu!Two[ArmWidth - k] - 1)
         /\ Lower(x, k) \in 0..(ArmAlu!Two[k] - 1)
         /\ x = ArmAlu!Two[k] * Upper(x, k) + Lower(x, k)
<1> DEFINE t == ArmAlu!Two[k]
           u == ArmAlu!Two[ArmWidth - k]
           hi == Upper(x, k)
           lo == Lower(x, k)
<1>1. t \in Nat \ {0} /\ u \in Nat \ {0} /\ t * u = ArmAlu!M
  BY Powers
<1>2. x \in Nat /\ x < ArmAlu!M
  BY ArmSize
<1> HIDE DEF t, u
<1>3. hi \in Nat /\ lo \in 0..(t - 1) /\ x = t * hi + lo
  <2>1. x \div t \in Nat /\ x % t \in 0..(t - 1) /\ x = t * (x \div t) + (x % t)
    BY ONLY <1>1, <1>2, DivParts
  <2> QED BY <2>1 DEF Upper, Lower, t
<1> HIDE DEF hi, lo
<1>4. hi < u
  <2> SUFFICES ASSUME ~(hi < u) PROVE FALSE
    OBVIOUS
  <2>1. t * u <= t * hi
    <3>1. CASE hi = u
      BY <1>1, <3>1
    <3>2. CASE u < hi
      <4>1. t * u + t <= t * hi
        BY <1>1, <1>3, <3>2, MultStep
      <4>2. t * u \in Int /\ t * hi \in Int
        BY <1>1, <1>3
      <4> QED BY <1>1, <4>1, <4>2
    <3> QED BY <1>1, <1>3, <3>1, <3>2
  <2>2. t * u \in Int /\ t * hi \in Int
    BY <1>1, <1>3
  <2> QED BY <1>1, <1>2, <1>3, <2>1, <2>2
<1> QED
  BY <1>1, <1>3, <1>4 DEF t, u, hi, lo

\* One bit further up.
LEMMA CutMoves ==
  ASSUME NEW x \in ArmAlu!Reg, NEW k \in 0..ArmWidth, k < ArmWidth
  PROVE  LET b == Upper(x, k) % 2 IN
         /\ b \in {0, 1}
         /\ Upper(x, k) = 2 * Upper(x, k + 1) + b
         /\ Upper(x, k + 1) = Upper(x, k) \div 2
         /\ Lower(x, k + 1) = Lower(x, k) + b * ArmAlu!Two[k]
<1> DEFINE t == ArmAlu!Two[k]
           hi == Upper(x, k)
           lo == Lower(x, k)
           b == hi % 2
           q == hi \div 2
           l == lo + b * t
<1>1. t \in Nat \ {0} /\ ArmAlu!Two[k + 1] = 2 * t
  BY Powers
<1>2. hi \in Nat /\ lo \in 0..(t - 1) /\ x = t * hi + lo
  <2>1. ArmAlu!Two[ArmWidth - k] \in Nat
    BY Powers
  <2> QED BY <2>1, CutParts
<1>3. x \in Nat
  BY ArmSize
<1> HIDE DEF t, hi, lo
<1>4. q \in Nat /\ b \in {0, 1} /\ hi = 2 * q + b
  BY <1>2
<1> HIDE DEF b, q
<1>5. l \in 0..((2 * t) - 1) /\ l = (IF b = 0 THEN lo ELSE lo + t)
  <2>1. CASE b = 0
    BY <1>1, <1>2, <2>1
  <2>2. CASE b = 1
    BY <1>1, <1>2, <2>2
  <2> QED BY <1>4, <2>1, <2>2
<1>6. x = (2 * t) * q + l
  <2>1. t * hi = 2 * (t * q) + b * t
    BY <1>1, <1>2, <1>4
  <2>2. (2 * t) * q = 2 * (t * q)
    BY <1>1, <1>4
  <2>3. t * q \in Int /\ t * hi \in Int /\ b * t \in Int
    BY <1>1, <1>2, <1>4
  <2> QED BY <1>1, <1>2, <2>1, <2>2, <2>3
<1>7. Upper(x, k + 1) = q /\ Lower(x, k + 1) = l
  <2> DEFINE m == 2 * t
  <2>1. m \in Nat \ {0} /\ x = m * q + l /\ l \in 0..(m - 1) /\ q \in Int
    BY <1>1, <1>4, <1>5, <1>6
  <2> HIDE DEF m, l
  <2>2. x % m = l /\ x \div m = q
    BY <1>3, <2>1, DivUnique
  <2> QED BY <1>1, <2>2 DEF Upper, Lower, m
<1> QED
  BY <1>4, <1>7 DEF t, hi, lo, b, q

\* What k shifts by one leave of x, and the bit the last of them moved out.
ShiftedBy(type, x, k) ==
  CASE type = "lsl" -> Lower(x, ArmWidth - k) * ArmAlu!Two[k]
    [] type = "lsr" -> Upper(x, k)
    [] type = "asr" -> Upper(x, k) + (IF ArmAlu!Top(x)
                                      THEN ArmAlu!M - ArmAlu!Two[ArmWidth - k] ELSE 0)
    [] type = "ror" -> Upper(x, k) + Lower(x, k) * ArmAlu!Two[ArmWidth - k]

OutOf(type, x, k) ==
  IF type = "lsl" THEN Upper(x, ArmWidth - k) % 2 ELSE Upper(x, k - 1) % 2

\* The cut at bit k, where there is another one above it.
IsCut(x, k, t, v, h, u, n, b, l) ==
  /\ t \in Nat \ {0} /\ v \in Nat \ {0} /\ h \in Nat \ {0}
  /\ u \in Nat /\ n \in Nat /\ b \in {0, 1} /\ l \in 0..(t - 1)
  /\ t * v = h /\ u = 2 * n + b /\ u < 2 * v /\ x = t * u + l /\ v <= h
  /\ x >= h <=> u >= v

LEMMA Cut ==
  ASSUME NEW x \in ArmAlu!Reg, NEW k \in 0..ArmWidth, k < ArmWidth
  PROVE  IsCut(x, k, ArmAlu!Two[k], ArmAlu!Two[ArmWidth - (k + 1)],
               ArmAlu!Two[ArmWidth - 1], Upper(x, k), Upper(x, k + 1), Upper(x, k) % 2,
               Lower(x, k))
<1> DEFINE t == ArmAlu!Two[k]
           v == ArmAlu!Two[ArmWidth - (k + 1)]
           h == ArmAlu!Two[ArmWidth - 1]
           u == Upper(x, k)
           n == Upper(x, k + 1)
           b == Upper(x, k) % 2
           l == Lower(x, k)
           w == ArmAlu!Two[ArmWidth - k]
<1>0. k + 1 \in 0..ArmWidth
  BY ArmTwos
<1>1. t \in Nat \ {0} /\ v \in Nat \ {0} /\ w = 2 * v /\ t * w = ArmAlu!M
  BY <1>0, Powers
<1>2. h \in Nat \ {0} /\ ArmAlu!M = 2 * h
  BY ArmSize
<1>3. u \in 0..(w - 1) /\ l \in 0..(t - 1) /\ x = t * u + l
  BY CutParts
<1>4. b \in {0, 1} /\ u = 2 * n + b
  BY CutMoves
<1>5. n \in Nat
  <2>1. ArmAlu!Two[ArmWidth - (k + 1)] \in Nat
    BY <1>1
  <2> QED BY <1>0, <2>1, CutParts
<1> HIDE DEF t, v, h, u, n, b, l, w
<1>6. t * v = h
  <2>1. t * (2 * v) = 2 * (t * v) /\ t * v \in Int
    BY <1>1
  <2> QED BY <1>1, <1>2, <2>1
<1>7. v <= h
  <2>1. \A i, j \in Nat \ {0} : j <= i * j
    OBVIOUS
  <2> QED BY <1>1, <1>6, <2>1
<1>8. x >= h <=> u >= v
  <2>0. t * u \in Int /\ t * v \in Int /\ u \in Int /\ v \in Int
    BY <1>1, <1>3
  <2>1. ASSUME u < v PROVE x < h
    <3>1. t * u + t <= t * v
      BY <1>1, <2>0, <2>1, MultStep
    <3> QED BY <1>1, <1>3, <1>6, <2>0, <3>1
  <2>2. ASSUME u >= v PROVE x >= h
    <3>1. t * u >= t * v
      <4>1. CASE u = v
        BY <2>0, <4>1
      <4>2. CASE v < u
        <5>1. t * v + t <= t * u
          BY <1>1, <2>0, <4>2, MultStep
        <5> QED BY <1>1, <2>0, <5>1
      <4> QED BY <2>0, <2>2, <4>1, <4>2
    <3> QED BY <1>1, <1>3, <1>6, <2>0, <3>1
  <2>3. x \in Nat
    BY ArmSize
  <2> QED BY <1>2, <2>0, <2>1, <2>2, <2>3
<1>9. u < 2 * v /\ u \in Nat
  BY <1>1, <1>3
<1>10. IsCut(x, k, t, v, h, u, n, b, l)
  BY <1>1, <1>2, <1>3, <1>4, <1>5, <1>6, <1>7, <1>8, <1>9 DEF IsCut
<1> QED
  BY <1>10 DEF t, v, h, u, n, b, l

LEMMA LslOneMore ==
  ASSUME NEW x \in ArmAlu!Reg, NEW k \in 0..ArmWidth, k < ArmWidth
  PROVE  ArmAlu!One("lsl", ShiftedBy("lsl", x, k))
           = [r |-> ShiftedBy("lsl", x, k + 1), c |-> OutOf("lsl", x, k + 1)]
<1> DEFINE j == ArmWidth - (k + 1)
           p == ArmAlu!Two[k]
           t == ArmAlu!Two[j]
           h == ArmAlu!Two[ArmWidth - 1]
           l == Lower(x, j)
           b == Upper(x, j) % 2
           r == ShiftedBy("lsl", x, k)
           e == l * p
<1>1. j \in 0..ArmWidth /\ j < ArmWidth /\ j + 1 = ArmWidth - k /\ ArmWidth - (j + 1) = k
  BY ArmTwos
<1> HIDE DEF j
<1>2. IsCut(x, j, t, ArmAlu!Two[ArmWidth - (j + 1)], h, Upper(x, j), Upper(x, j + 1), b, l)
  BY <1>1, Cut
<1>3. t \in Nat \ {0} /\ p \in Nat \ {0} /\ h \in Nat \ {0} /\ b \in {0, 1} /\ l \in 0..(t - 1)
      /\ t * p = h
  BY <1>1, <1>2 DEF IsCut
<1>4. Lower(x, j + 1) = l + b * t
  BY <1>1, CutMoves
<1>5. r = (l + b * t) * p
  BY <1>1, <1>4 DEF ShiftedBy
<1>6. ShiftedBy("lsl", x, k + 1) = l * ArmAlu!Two[k + 1] /\ ArmAlu!Two[k + 1] = 2 * p
      /\ OutOf("lsl", x, k + 1) = b
  BY Powers DEF ShiftedBy, OutOf, j
<1>7. ArmAlu!M = 2 * h /\ ArmAlu!M \div 2 = h
  BY ArmSize
<1>8. ArmAlu!One("lsl", r) = [r |-> ArmAlu!Wrap(2 * r), c |-> ArmAlu!Bit(ArmAlu!Top(r))]
  BY DEF ArmAlu!One
<1> HIDE DEF p, t, h, l, b, r
<1>9. e \in 0..(h - 1)
  <2>1. p * l + p <= p * t
    BY <1>3, MultStep
  <2>2. p * l = e /\ p * t = h /\ e \in Int
    BY <1>3
  <2>3. \A y, z \in Nat : y * z >= 0
    OBVIOUS
  <2>4. e >= 0
    BY <1>3, <2>3
  <2> HIDE DEF e
  <2> QED BY <1>3, <2>1, <2>2, <2>4
<1>10. r = IF b = 1 THEN e + h ELSE e
  <2>1. (l + t) * p = l * p + t * p
    BY <1>3
  <2>2. b = 0 => l + b * t = l
    BY <1>3
  <2>3. b = 1 => l + b * t = l + t
    BY <1>3
  <2> QED BY <1>3, <1>5, <2>1, <2>2, <2>3
<1>11. l * (2 * p) = 2 * e
  BY <1>3
<1> HIDE DEF e
<1>12. ArmAlu!Wrap(2 * r) = 2 * e
  <2> DEFINE m == 2 * h
             y == 2 * r
  <2>1. m \in Nat \ {0} /\ y \in Nat /\ y < 2 * m /\ -m <= y /\ 2 * e \in 0..(m - 1)
        /\ y = (IF b = 1 THEN 2 * e + m ELSE 2 * e)
    BY <1>3, <1>9, <1>10
  <2> HIDE DEF m, y
  <2>0. m \in Nat \ {0} /\ y \in Int /\ -m <= y /\ y < 2 * m
    BY <2>1
  <2>2. y % m = IF y < 0 THEN y + m ELSE IF y < m THEN y ELSE y - m
    BY ONLY <2>0, WrapOnce
  <2>3. y % m = 2 * e
    BY <1>3, <1>9, <2>1, <2>2
  <2> QED BY <1>7, <2>3 DEF ArmAlu!Wrap, m, y
<1>13. ArmAlu!Bit(ArmAlu!Top(r)) = b
  BY <1>3, <1>7, <1>9, <1>10 DEF ArmAlu!Bit, ArmAlu!Top
<1> QED
  BY <1>6, <1>8, <1>11, <1>12, <1>13 DEF r

LEMMA RightOneMore ==
  ASSUME NEW x \in ArmAlu!Reg, NEW k \in 0..ArmWidth, k < ArmWidth
  PROVE  /\ ArmAlu!One("lsr", ShiftedBy("lsr", x, k))
              = [r |-> ShiftedBy("lsr", x, k + 1), c |-> OutOf("lsr", x, k + 1)]
         /\ ArmAlu!One("asr", ShiftedBy("asr", x, k))
              = [r |-> ShiftedBy("asr", x, k + 1), c |-> OutOf("asr", x, k + 1)]
         /\ ArmAlu!One("ror", ShiftedBy("ror", x, k))
              = [r |-> ShiftedBy("ror", x, k + 1), c |-> OutOf("ror", x, k + 1)]
<1> DEFINE t == ArmAlu!Two[k]
           v == ArmAlu!Two[ArmWidth - (k + 1)]
           h == ArmAlu!Two[ArmWidth - 1]
           u == Upper(x, k)
           n == Upper(x, k + 1)
           b == Upper(x, k) % 2
           l == Lower(x, k)
           top == ArmAlu!Top(x)
<1>1. IsCut(x, k, t, v, h, u, n, b, l)
  BY Cut
<1>2. (k + 1) - 1 = k
  OBVIOUS
<1>3. OutOf("lsr", x, k + 1) = b /\ OutOf("asr", x, k + 1) = b /\ OutOf("ror", x, k + 1) = b
  BY <1>2 DEF OutOf
<1>4. n = u \div 2 /\ Lower(x, k + 1) = l + b * t
  BY CutMoves
<1>5. ArmAlu!M = 2 * h /\ ArmAlu!M \div 2 = h
  BY ArmSize
<1>6. ArmAlu!Two[ArmWidth - k] = 2 * v
  BY Powers
<1>7. ArmAlu!One("lsr", ShiftedBy("lsr", x, k))
        = [r |-> ShiftedBy("lsr", x, k + 1), c |-> OutOf("lsr", x, k + 1)]
  BY <1>3, <1>4 DEF ArmAlu!One, ShiftedBy
<1>8. top <=> u >= v
  BY <1>1, <1>5 DEF ArmAlu!Top, IsCut
<1>9. ArmAlu!One("asr", ShiftedBy("asr", x, k))
        = [r |-> ShiftedBy("asr", x, k + 1), c |-> OutOf("asr", x, k + 1)]
  <2> DEFINE r == ShiftedBy("asr", x, k)
             q == r \div 2 + (IF ArmAlu!Top(r) THEN ArmAlu!M \div 2 ELSE 0)
  <2>1. r = u + (IF top THEN 2 * h - 2 * v ELSE 0)
    BY <1>5, <1>6 DEF ShiftedBy
  <2>2. ShiftedBy("asr", x, k + 1) = n + (IF top THEN 2 * h - v ELSE 0)
    BY <1>5 DEF ShiftedBy
  <2>3. ArmAlu!One("asr", r) = [r |-> q, c |-> r % 2]
    BY DEF ArmAlu!One
  <2> HIDE DEF t, v, h, u, n, b, l, top, r
  <2>4. ArmAlu!Top(r) <=> top
    BY <1>1, <1>5, <1>8, <2>1 DEF ArmAlu!Top, IsCut
  <2>5. r \div 2 = n + (IF top THEN h - v ELSE 0) /\ r % 2 = b
    <3> DEFINE y == n + (IF top THEN h - v ELSE 0)
    <3>1. r = 2 * y + b /\ y \in Nat /\ b \in 0..(2 - 1) /\ r \in Nat
      BY <1>1, <2>1 DEF IsCut
    <3> HIDE DEF y
    <3>2. r \div 2 = y /\ r % 2 = b
      BY ONLY <3>1, DivUnique
    <3> QED BY <3>2 DEF y
  <2>6. q = n + (IF top THEN 2 * h - v ELSE 0)
    BY <1>1, <1>5, <2>4, <2>5 DEF IsCut
  <2> HIDE DEF q
  <2> QED BY <1>3, <2>2, <2>3, <2>5, <2>6 DEF r
<1>10. ArmAlu!One("ror", ShiftedBy("ror", x, k))
        = [r |-> ShiftedBy("ror", x, k + 1), c |-> OutOf("ror", x, k + 1)]
  <2> DEFINE r == ShiftedBy("ror", x, k)
             q == r \div 2 + (r % 2) * (ArmAlu!M \div 2)
             y == n + l * v
  <2>1. r = u + l * (2 * v)
    BY <1>6 DEF ShiftedBy
  <2>2. ShiftedBy("ror", x, k + 1) = n + (l + b * t) * v
    BY <1>4 DEF ShiftedBy
  <2>3. ArmAlu!One("ror", r) = [r |-> q, c |-> r % 2]
    BY DEF ArmAlu!One
  <2> HIDE DEF t, v, h, u, n, b, l, r
  <2>4. l \in Nat /\ v \in Nat /\ t \in Nat /\ n \in Nat /\ b \in {0, 1} /\ u = 2 * n + b
        /\ t * v = h /\ h \in Nat
    BY <1>1 DEF IsCut
  <2>5. l * v \in Nat /\ l * (2 * v) = 2 * (l * v)
    BY <2>4
  <2>6. r \div 2 = y /\ r % 2 = b
    <3>1. r = 2 * y + b /\ y \in Nat /\ b \in 0..(2 - 1) /\ r \in Nat
      BY <2>1, <2>4, <2>5
    <3> HIDE DEF y
    <3> QED BY ONLY <3>1, DivUnique
  <2>7. q = y + b * h
    BY <1>5, <2>6
  <2>8. (l + b * t) * v = l * v + b * h
    <3>1. CASE b = 0
      <4>1. l + b * t = l /\ b * h = 0
        BY <2>4, <3>1
      <4> QED BY <2>4, <2>5, <4>1
    <3>2. CASE b = 1
      <4>1. l + b * t = l + t /\ b * h = h
        BY <2>4, <3>2
      <4>2. (l + t) * v = l * v + t * v
        BY <2>4
      <4> QED BY <2>4, <4>1, <4>2
    <3> QED BY <2>4, <3>1, <3>2
  <2>9. q = n + (l + b * t) * v
    <3>1. b * h \in Int
      BY <2>4
    <3> QED BY <2>4, <2>5, <2>7, <2>8, <3>1
  <2> HIDE DEF q, y
  <2> QED BY <1>3, <2>2, <2>3, <2>6, <2>9 DEF r
<1> QED
  BY <1>7, <1>9, <1>10

LEMMA OneMore ==
  ASSUME NEW type \in ArmAlu!Shifts, NEW x \in ArmAlu!Reg, NEW k \in 0..ArmWidth, k < ArmWidth
  PROVE  ArmAlu!One(type, ShiftedBy(type, x, k))
           = [r |-> ShiftedBy(type, x, k + 1), c |-> OutOf(type, x, k + 1)]
  BY LslOneMore, RightOneMore DEF ArmAlu!Shifts

\* At the ends: before the first shift, and when the whole width is out.
LEMMA CutEnds ==
  ASSUME NEW x \in ArmAlu!Reg
  PROVE  /\ Upper(x, 0) = x /\ Lower(x, 0) = 0
         /\ Upper(x, ArmWidth) = 0 /\ Lower(x, ArmWidth) = x
         /\ Upper(x, ArmWidth - 1) % 2 = ArmAlu!Bit(ArmAlu!Top(x))
<1> DEFINE w == ArmWidth
<1>1. w \in Nat \ {0, 1} /\ 0 \in 0..w /\ w \in 0..w /\ w - 0 = w /\ w - w = 0
      /\ w - 1 \in 0..w /\ w - (w - 1) = 1 /\ w - 1 < w /\ (w - 1) + 1 = w
  BY ArmTwos
<1>2. ArmAlu!Two[0] = 1 /\ ArmAlu!Two[w] = ArmAlu!M /\ x \in Nat
  BY <1>1, Powers, ArmSize
<1> HIDE DEF w
<1>3. Upper(x, 0) = x /\ Lower(x, 0) = 0
  <2>1. Upper(x, 0) \in 0..(ArmAlu!Two[w] - 1) /\ Lower(x, 0) \in 0..(1 - 1)
        /\ x = 1 * Upper(x, 0) + Lower(x, 0) /\ ArmAlu!Two[w] \in Nat
    BY <1>1, <1>2, CutParts, Powers DEF w
  <2> QED BY <2>1
<1>4. Upper(x, w) = 0 /\ Lower(x, w) = x
  <2>1. Upper(x, w) \in 0..(1 - 1) /\ Lower(x, w) \in 0..(ArmAlu!Two[w] - 1)
        /\ x = ArmAlu!Two[w] * Upper(x, w) + Lower(x, w) /\ ArmAlu!Two[w] \in Nat
    BY <1>1, <1>2, CutParts, Powers DEF w
  <2> QED BY <2>1
<1>5. Upper(x, w - 1) % 2 = ArmAlu!Bit(ArmAlu!Top(x))
  <2> DEFINE t == ArmAlu!Two[w - 1]
             v == ArmAlu!Two[w - ((w - 1) + 1)]
             u == Upper(x, w - 1)
             n == Upper(x, (w - 1) + 1)
             b == Upper(x, w - 1) % 2
             l == Lower(x, w - 1)
  <2>1. IsCut(x, w - 1, t, v, t, u, n, b, l)
    BY <1>1, Cut DEF w
  <2>2. v = 1
    BY <1>1, <1>2
  <2>3. ArmAlu!Top(x) <=> x >= t
    BY ArmSize DEF ArmAlu!Top, w
  <2> HIDE DEF t, v, u, n, b, l
  <2>4. b = IF x >= t THEN 1 ELSE 0
    BY <2>1, <2>2 DEF IsCut
  <2> QED BY <2>3, <2>4 DEF ArmAlu!Bit, b
<1> QED
  BY <1>3, <1>4, <1>5 DEF w

LEMMA ShiftEnds ==
  ASSUME NEW x \in ArmAlu!Reg
  PROVE  LET top == ArmAlu!Top(x)  w == ArmWidth IN
         /\ \A type \in ArmAlu!Shifts : ShiftedBy(type, x, 0) = x
         /\ ShiftedBy("lsl", x, w) = 0 /\ ShiftedBy("lsr", x, w) = 0
         /\ ShiftedBy("asr", x, w) = (IF top THEN ArmAlu!M - 1 ELSE 0)
         /\ ShiftedBy("ror", x, w) = x
         /\ OutOf("lsl", x, w) = x % 2 /\ OutOf("lsr", x, w) = ArmAlu!Bit(top)
         /\ OutOf("asr", x, w) = ArmAlu!Bit(top) /\ OutOf("ror", x, w) = ArmAlu!Bit(top)
         /\ ArmAlu!One("lsl", 0) = [r |-> 0, c |-> 0]
         /\ ArmAlu!One("lsr", 0) = [r |-> 0, c |-> 0]
         /\ ArmAlu!One("asr", ShiftedBy("asr", x, w))
              = [r |-> ShiftedBy("asr", x, w), c |-> ArmAlu!Bit(top)]
<1> DEFINE top == ArmAlu!Top(x)
           w == ArmWidth
           m == ArmAlu!M
           h == ArmAlu!Two[ArmWidth - 1]
<1>1. w \in Nat \ {0, 1} /\ w - 0 = w /\ w - w = 0 /\ w \in 0..w /\ 0 \in 0..w
  BY ArmTwos
<1>2. ArmAlu!Two[0] = 1 /\ ArmAlu!Two[w] = m
  BY <1>1, Powers
<1>3. h \in Nat \ {0} /\ m = 2 * h /\ m \div 2 = h /\ x \in Nat
  BY ArmSize
<1>4. /\ Upper(x, 0) = x /\ Lower(x, 0) = 0 /\ Upper(x, w) = 0 /\ Lower(x, w) = x
      /\ Upper(x, w - 1) % 2 = ArmAlu!Bit(top)
  BY CutEnds
<1>5. ArmAlu!Top(0) <=> FALSE
  BY <1>3 DEF ArmAlu!Top
<1>6. ArmAlu!Wrap(2 * 0) = 0
  BY <1>3 DEF ArmAlu!Wrap
<1>7. ArmAlu!One("lsl", 0) = [r |-> 0, c |-> 0] /\ ArmAlu!One("lsr", 0) = [r |-> 0, c |-> 0]
  BY <1>5, <1>6 DEF ArmAlu!One, ArmAlu!Bit
<1>8. /\ OutOf("lsl", x, w) = x % 2 /\ OutOf("lsr", x, w) = ArmAlu!Bit(top)
      /\ OutOf("asr", x, w) = ArmAlu!Bit(top) /\ OutOf("ror", x, w) = ArmAlu!Bit(top)
  BY <1>1, <1>4 DEF OutOf
<1> HIDE DEF m, h, w, top
<1>9. /\ ShiftedBy("lsl", x, w) = 0 /\ ShiftedBy("lsr", x, w) = 0
      /\ ShiftedBy("asr", x, w) = (IF top THEN m - 1 ELSE 0)
      /\ ShiftedBy("ror", x, w) = x
  <2>1. 0 * m = 0 /\ 0 + x * 1 = x /\ 0 + (m - 1) = m - 1
    BY <1>3
  <2> QED BY <1>1, <1>2, <1>4, <2>1 DEF ShiftedBy, w, m, top
<1>10. \A type \in ArmAlu!Shifts : ShiftedBy(type, x, 0) = x
  <2>1. x * 1 = x /\ x + 0 = x /\ m - m = 0 /\ x + 0 * m = x
    BY <1>3
  <2>2. ShiftedBy("lsl", x, 0) = x /\ ShiftedBy("lsr", x, 0) = x
        /\ ShiftedBy("asr", x, 0) = x /\ ShiftedBy("ror", x, 0) = x
    BY <1>1, <1>2, <1>4, <2>1 DEF ShiftedBy, w, m, top
  <2> QED BY <2>2 DEF ArmAlu!Shifts
<1>11. ArmAlu!One("asr", ShiftedBy("asr", x, w))
         = [r |-> ShiftedBy("asr", x, w), c |-> ArmAlu!Bit(top)]
  <2> DEFINE r == IF top THEN m - 1 ELSE 0
             q == r \div 2 + (IF ArmAlu!Top(r) THEN m \div 2 ELSE 0)
  <2>1. ArmAlu!One("asr", r) = [r |-> q, c |-> r % 2]
    BY DEF ArmAlu!One, m
  <2> HIDE DEF r
  <2>2. r = IF top THEN 2 * h - 1 ELSE 0
    BY <1>3 DEF r
  <2>3. ArmAlu!Top(r) <=> top
    BY <1>3, <2>2 DEF ArmAlu!Top, m
  <2>4. r \div 2 = (IF top THEN h - 1 ELSE 0) /\ r % 2 = (IF top THEN 1 ELSE 0)
    BY <1>3, <2>2
  <2>5. q = r /\ r % 2 = ArmAlu!Bit(top)
    BY <1>3, <2>2, <2>3, <2>4 DEF ArmAlu!Bit
  <2> HIDE DEF q
  <2> QED BY <1>9, <2>1, <2>5 DEF r
<1> QED
  BY <1>7, <1>8, <1>9, <1>10, <1>11 DEF m, w, top

\* A remainder goes up by one, or back to 0.
LEMMA ModNext ==
  ASSUME NEW n \in Nat, NEW w \in Nat \ {0}
  PROVE  /\ (n + 1) % w = IF n % w = w - 1 THEN 0 ELSE (n % w) + 1
         /\ n % w \in 0..(w - 1) /\ (n < w => n % w = n)
<1> DEFINE q == n \div w
           r == n % w
<1>1. q \in Nat /\ r \in 0..(w - 1) /\ n = w * q + r
  BY DivParts
<1>2. w * q \in Int
  BY <1>1
<1> HIDE DEF q, r
<1>3. CASE r = w - 1
  <2> DEFINE p == q + 1
  <2>1. w * p = w * q + w
    BY <1>1
  <2>2. n + 1 = w * p + 0 /\ p \in Int /\ n + 1 \in Nat /\ 0 \in 0..(w - 1)
    BY <1>1, <1>2, <1>3, <2>1
  <2> HIDE DEF p
  <2>3. (n + 1) % w = 0
    BY <2>2, DivUnique
  <2> QED BY <1>3, <2>3 DEF r
<1>4. CASE r # w - 1
  <2>1. n + 1 = w * q + (r + 1) /\ q \in Int /\ n + 1 \in Nat /\ r + 1 \in 0..(w - 1)
    BY <1>1, <1>2, <1>4
  <2>2. (n + 1) % w = r + 1
    BY <2>1, DivUnique
  <2> QED BY <1>4, <2>2 DEF r
<1>5. n < w => r = n
  <2>1. ASSUME n < w PROVE n % w = n
    <3>1. n = w * 0 + n /\ n \in 0..(w - 1)
      BY <2>1
    <3> QED BY <3>1, DivUnique
  <2> QED BY <2>1 DEF r
<1> QED
  BY <1>1, <1>3, <1>4, <1>5 DEF r

\* What n shifts by one leave, whatever n is.
Turned(n) == ((n - 1) % ArmWidth) + 1

Shifted(type, x, n) ==
  CASE n = 0 -> [r |-> x, c |-> 0]
    [] n # 0 /\ type = "ror" -> [r |-> ShiftedBy("ror", x, Turned(n)),
                                 c |-> OutOf("ror", x, Turned(n))]
    [] n # 0 /\ type # "ror" /\ n <= ArmWidth ->
         [r |-> ShiftedBy(type, x, n), c |-> OutOf(type, x, n)]
    [] n # 0 /\ type # "ror" /\ n > ArmWidth ->
         [r |-> ShiftedBy(type, x, ArmWidth),
          c |-> IF type = "asr" THEN ArmAlu!Bit(ArmAlu!Top(x)) ELSE 0]

LEMMA ShiftedNext ==
  ASSUME NEW type \in ArmAlu!Shifts, NEW x \in ArmAlu!Reg, NEW n \in Nat
  PROVE  Shifted(type, x, n + 1) = ArmAlu!One(type, Shifted(type, x, n).r)
<1> DEFINE w == ArmWidth
           now == Shifted(type, x, n)
           next == Shifted(type, x, n + 1)
<1>1. w \in Nat \ {0, 1} /\ n + 1 # 0 /\ (n + 1) - 1 = n
  BY ArmTwos
<1>2. ShiftedBy(type, x, 0) = x
  BY ShiftEnds
<1>3. CASE type # "ror" /\ n < w
  <2>1. next = [r |-> ShiftedBy(type, x, n + 1), c |-> OutOf(type, x, n + 1)]
    BY <1>1, <1>3 DEF Shifted
  <2>2. now.r = ShiftedBy(type, x, n)
    <3>1. CASE n = 0
      <4>1. now = [r |-> x, c |-> 0]
        BY <3>1 DEF Shifted
      <4> HIDE DEF now
      <4> QED BY <1>2, <3>1, <4>1
    <3>2. CASE n # 0
      <4>1. now = [r |-> ShiftedBy(type, x, n), c |-> OutOf(type, x, n)]
        BY <1>1, <1>3, <3>2 DEF Shifted
      <4> HIDE DEF now
      <4> QED BY <4>1
    <3> QED BY <3>1, <3>2
  <2>3. n \in 0..w
    BY <1>1, <1>3
  <2> HIDE DEF now, next
  <2>4. ArmAlu!One(type, ShiftedBy(type, x, n)) = next
    BY <1>3, <2>1, <2>3, OneMore DEF w
  <2> QED BY <2>2, <2>4 DEF now, next
<1>4. CASE type # "ror" /\ ~(n < w)
  <2> DEFINE c == IF type = "asr" THEN ArmAlu!Bit(ArmAlu!Top(x)) ELSE 0
  <2>1. next = [r |-> ShiftedBy(type, x, w), c |-> c]
    BY <1>1, <1>4 DEF Shifted
  <2>2. now.r = ShiftedBy(type, x, w)
    <3>1. CASE n = w
      <4>1. now = [r |-> ShiftedBy(type, x, n), c |-> OutOf(type, x, n)]
        BY <1>1, <1>4, <3>1 DEF Shifted
      <4> HIDE DEF now
      <4> QED BY <3>1, <4>1
    <3>2. CASE n # w
      <4>1. now = [r |-> ShiftedBy(type, x, w), c |-> c]
        BY <1>1, <1>4, <3>2 DEF Shifted
      <4> HIDE DEF now
      <4> QED BY <4>1
    <3> QED BY <3>1, <3>2
  <2>3. ArmAlu!One(type, ShiftedBy(type, x, w)) = [r |-> ShiftedBy(type, x, w), c |-> c]
    <3>1. CASE type = "lsl"
      <4>1. ArmAlu!One("lsl", 0) = [r |-> 0, c |-> 0] /\ ShiftedBy("lsl", x, w) = 0
        BY ShiftEnds
      <4>2. c = 0
        BY <3>1
      <4> QED BY <3>1, <4>1, <4>2
    <3>2. CASE type = "lsr"
      <4>1. ArmAlu!One("lsr", 0) = [r |-> 0, c |-> 0] /\ ShiftedBy("lsr", x, w) = 0
        BY ShiftEnds
      <4>2. c = 0
        BY <3>2
      <4> QED BY <3>2, <4>1, <4>2
    <3>3. CASE type = "asr"
      BY <3>3, ShiftEnds
    <3> QED BY <1>4, <3>1, <3>2, <3>3 DEF ArmAlu!Shifts
  <2> HIDE DEF now, next
  <2> QED BY <2>1, <2>2, <2>3 DEF now, next
<1>5. CASE type = "ror"
  <2> DEFINE j == Turned(n + 1)
  <2>1. next = [r |-> ShiftedBy("ror", x, j), c |-> OutOf("ror", x, j)]
    BY <1>1, <1>5 DEF Shifted
  <2>2. ASSUME NEW k \in 0..w, k < w, j = k + 1, now.r = ShiftedBy("ror", x, k)
        PROVE  next = ArmAlu!One(type, now.r)
    <3>1. ArmAlu!One("ror", ShiftedBy("ror", x, k))
            = [r |-> ShiftedBy("ror", x, k + 1), c |-> OutOf("ror", x, k + 1)]
      BY <2>2, RightOneMore
    <3> HIDE DEF now, next, j
    <3> QED BY <1>5, <2>1, <2>2, <3>1
  <2>3. j = (n % w) + 1
    BY <1>1 DEF Turned
  <2>4. CASE n = 0
    <3>1. now = [r |-> x, c |-> 0]
      BY <2>4 DEF Shifted
    <3>2. j = 0 + 1 /\ 0 \in 0..w /\ 0 < w
      BY <1>1, <2>3, <2>4, ModNext
    <3> HIDE DEF now, next, j
    <3>3. now.r = ShiftedBy("ror", x, 0)
      BY <1>2, <1>5, <3>1
    <3> QED BY <2>2, <3>2, <3>3 DEF next, now
  <2>5. CASE n # 0
    <3> DEFINE i == Turned(n)
               p == (n - 1) % w
    <3>1. now = [r |-> ShiftedBy("ror", x, i), c |-> OutOf("ror", x, i)]
      BY <1>5, <2>5 DEF Shifted
    <3>2. now.r = ShiftedBy("ror", x, i)
      <4> HIDE DEF now, i
      <4> QED BY <3>1
    <3>3. p \in 0..(w - 1) /\ n % w = (IF p = w - 1 THEN 0 ELSE p + 1)
      <4>1. n - 1 \in Nat /\ (n - 1) + 1 = n /\ w \in Nat \ {0}
        BY <1>1, <2>5
      <4> QED BY <4>1, ModNext
    <3>4. i = p + 1
      BY DEF Turned
    <3> HIDE DEF p, i, now, next, j, w
    <3>5. CASE p = w - 1
      <4>1. i = w /\ j = 0 + 1 /\ 0 \in 0..w /\ 0 < w
        BY <1>1, <2>3, <3>3, <3>4, <3>5
      <4>2. ShiftedBy("ror", x, w) = x
        BY ShiftEnds DEF w
      <4>3. now.r = ShiftedBy("ror", x, 0)
        BY <1>2, <1>5, <3>2, <4>1, <4>2
      <4> QED BY <2>2, <4>1, <4>3 DEF now, next
    <3>6. CASE p # w - 1
      <4>1. i \in 0..w /\ i < w /\ j = i + 1
        BY <1>1, <2>3, <3>3, <3>4, <3>6
      <4> QED BY <2>2, <3>2, <4>1 DEF now, next
    <3> QED BY <3>5, <3>6
  <2> QED BY <2>4, <2>5
<1> QED
  BY <1>3, <1>4, <1>5

LEMMA ManyShifted ==
  ASSUME NEW type \in ArmAlu!Shifts, NEW x \in ArmAlu!Reg, NEW n \in Nat
  PROVE  ArmAlu!Many(type, x, n) = Shifted(type, x, n)
<1> DEFINE Steps(f) == f = [k \in 0..n |-> IF k = 0 THEN [r |-> x, c |-> 0]
                                           ELSE ArmAlu!One(type, f[k - 1].r)]
           g == CHOOSE f : Steps(f)
           h == [k \in 0..n |-> Shifted(type, x, k)]
           B == {k \in 0..n : g[k] = Shifted(type, x, k)}
<1>1. Shifted(type, x, 0) = [r |-> x, c |-> 0]
  BY DEF Shifted
<1>2. ASSUME NEW k \in 0..n
      PROVE  h[k] = IF k = 0 THEN [r |-> x, c |-> 0] ELSE ArmAlu!One(type, h[k - 1].r)
  <2>1. CASE k = 0
    BY <1>1, <2>1
  <2>2. CASE k # 0
    <3>1. k - 1 \in Nat /\ k - 1 \in 0..n /\ (k - 1) + 1 = k
      BY <2>2
    <3>2. Shifted(type, x, k) = ArmAlu!One(type, Shifted(type, x, k - 1).r)
      BY <3>1, ShiftedNext
    <3>3. h[k] = Shifted(type, x, k) /\ h[k - 1] = Shifted(type, x, k - 1)
      BY <3>1
    <3> HIDE DEF h
    <3> QED BY <2>2, <3>2, <3>3
  <2> QED BY <2>1, <2>2
<1>3. Steps(h)
  <2>1. h = [k \in 0..n |-> h[k]]
    OBVIOUS
  <2> HIDE DEF h
  <2> QED BY <1>2, <2>1
<1>4. Steps(g)
  <2> HIDE DEF Steps, h
  <2> QED BY <1>3
<1>5. ArmAlu!Many(type, x, n) = g[n]
  BY DEF ArmAlu!Many
<1>6. \A k \in 0..n : g[k] = IF k = 0 THEN [r |-> x, c |-> 0]
                             ELSE ArmAlu!One(type, g[k - 1].r)
  <2> HIDE DEF g
  <2> QED BY <1>4
<1> HIDE DEF g, Steps, h
<1>7. 0 \in B
  BY <1>1, <1>6
<1>8. ASSUME NEW k \in 0..(n - 1), k \in B PROVE k + 1 \in B
  <2>1. k + 1 \in 0..n /\ k + 1 # 0 /\ (k + 1) - 1 = k /\ k \in Nat
    OBVIOUS
  <2>2. g[k + 1] = ArmAlu!One(type, g[k].r)
    BY <1>6, <2>1
  <2>3. g[k] = Shifted(type, x, k)
    BY <1>8
  <2>4. Shifted(type, x, k + 1) = ArmAlu!One(type, Shifted(type, x, k).r)
    BY <2>1, ShiftedNext
  <2> QED BY <2>1, <2>2, <2>3, <2>4
<1>9. n \in B
  <2> HIDE DEF B
  <2>1. n \in 0..n
    OBVIOUS
  <2> QED BY <1>7, <1>8, <2>1, UpTo
<1> QED
  BY <1>5, <1>9

\* The multiple that a shift left wraps.
LEMMA WrapShifted ==
  ASSUME NEW x \in ArmAlu!Reg, NEW k \in 0..ArmWidth
  PROVE  ArmAlu!Wrap(x * ArmAlu!Two[k]) = Lower(x, ArmWidth - k) * ArmAlu!Two[k]
<1> DEFINE j == ArmWidth - k
           p == ArmAlu!Two[k]
           t == ArmAlu!Two[j]
           m == ArmAlu!M
           u == Upper(x, j)
           l == Lower(x, j)
           e == l * p
           y == x * p
<1>1. j \in 0..ArmWidth /\ ArmWidth - j = k
  BY ArmTwos
<1>2. p \in Nat \ {0} /\ t \in Nat \ {0} /\ p * t = m
  BY Powers
<1>3. u \in Nat /\ l \in 0..(t - 1) /\ x = t * u + l
  <2>1. u \in 0..(p - 1) /\ l \in 0..(t - 1) /\ x = t * u + l
    BY <1>1, CutParts
  <2> QED BY <1>2, <2>1
<1>4. m \in Nat \ {0} /\ x \in Nat
  BY ArmSize
<1> HIDE DEF j, p, t, m, u, l
<1>5. e \in 0..(m - 1)
  <2>1. p * l + p <= p * t
    BY <1>2, <1>3, MultStep
  <2>2. p * l = e /\ e \in Int
    BY <1>2, <1>3
  <2>3. \A i, k1 \in Nat : i * k1 >= 0
    OBVIOUS
  <2>4. e >= 0
    BY <1>2, <1>3, <2>3
  <2> HIDE DEF e
  <2> QED BY <1>2, <1>4, <2>1, <2>2, <2>4
<1>6. y = m * u + e
  <2>1. (t * u + l) * p = (t * u) * p + l * p
    BY <1>2, <1>3
  <2>2. (t * u) * p = (p * t) * u
    BY <1>2, <1>3
  <2> QED BY <1>2, <1>3, <2>1, <2>2
<1>7. y \in Int /\ u \in Int
  BY <1>2, <1>3, <1>4
<1> HIDE DEF y, e
<1>8. y % m = e
  BY <1>4, <1>5, <1>6, <1>7, DivFloor
<1> QED
  BY <1>8 DEF ArmAlu!Wrap, y, e, m, j, p, l

LEMMA SarShifted ==
  ASSUME NEW x \in ArmAlu!Reg, NEW k \in 0..ArmWidth
  PROVE  ArmAlu!Sar(x, k) = ShiftedBy("asr", x, k)
<1> DEFINE t == ArmAlu!Two[k]
           w == ArmAlu!Two[ArmWidth - k]
           m == ArmAlu!M
           u == Upper(x, k)
           l == Lower(x, k)
           top == ArmAlu!Top(x)
           s == ArmAlu!Signed(x)
           q == s \div t
<1>1. t \in Nat \ {0} /\ w \in Nat \ {0} /\ t * w = m
  BY Powers
<1>2. u \in 0..(w - 1) /\ l \in 0..(t - 1) /\ x = t * u + l
  BY CutParts
<1>3. m \in Nat \ {0} /\ x \in Nat
  BY ArmSize
<1>4. s = IF top THEN x - m ELSE x
  BY DEF ArmAlu!Signed
<1>5. ShiftedBy("asr", x, k) = u + (IF top THEN m - w ELSE 0)
  BY DEF ShiftedBy
<1>6. ArmAlu!Sar(x, k) = ArmAlu!Wrap(q)
  BY DEF ArmAlu!Sar
<1> HIDE DEF t, w, m, u, l, top, s
<1>7. w <= m
  <2>1. \A i, j \in Nat \ {0} : j <= i * j
    OBVIOUS
  <2> QED BY <1>1, <2>1
<1>8. q = IF top THEN u - w ELSE u
  <2> DEFINE y == IF top THEN u - w ELSE u
  <2>1. s = t * y + l
    <3>1. CASE top
      <4>1. t * (u - w) = t * u - t * w
        BY <1>1, <1>2
      <4>2. t * u \in Int /\ t * w \in Int
        BY <1>1, <1>2
      <4> QED BY <1>1, <1>2, <1>3, <1>4, <3>1, <4>1, <4>2
    <3>2. CASE ~top
      BY <1>2, <1>4, <3>2
    <3> QED BY <3>1, <3>2
  <2>2. y \in Int /\ s \in Int
    BY <1>1, <1>2, <1>3, <1>4
  <2> HIDE DEF y
  <2>3. s \div t = y
    BY <1>1, <1>2, <2>1, <2>2, DivFloor
  <2> QED BY <2>3 DEF y
<1> HIDE DEF q
<1>9. ArmAlu!Wrap(q) = IF top THEN u - w + m ELSE u
  <2>1. q \in Int /\ -m <= q /\ q < 2 * m /\ q < m /\ (q < 0 <=> top)
    BY <1>1, <1>2, <1>3, <1>7, <1>8
  <2>2. q % m = IF q < 0 THEN q + m ELSE IF q < m THEN q ELSE q - m
    BY <1>3, <2>1, WrapOnce
  <2> QED BY <1>8, <2>1, <2>2 DEF ArmAlu!Wrap, m
<1>10. u + (IF top THEN m - w ELSE 0) = IF top THEN u - w + m ELSE u
  BY <1>1, <1>2, <1>3
<1> QED
  BY <1>5, <1>6, <1>9, <1>10

\* The shifter of arm.c is as many shifts by one, but past the width.
LEMMA ArmShiftIs ==
  ASSUME NEW type \in ArmAlu!Shifts, NEW x \in ArmAlu!Reg, NEW n \in Nat \ {0},
         ~(type = "lsr" /\ n > ArmWidth)
  PROVE  ArmAlu!ArmShift(type, x, n) = Shifted(type, x, n)
<1> DEFINE w == ArmWidth
           res == ArmAlu!ArmShift(type, x, n)
           top == ArmAlu!Top(x)
<1>1. w \in Nat \ {0, 1}
  BY ArmTwos
<1>2. \A k : ArmAlu!Out(x, k) = Upper(x, k - 1) % 2
  BY DEF ArmAlu!Out, Upper
<1>3. CASE type # "ror" /\ n < w
  <2>1. n \in 0..w /\ (w - n + 1) - 1 = w - n
    BY <1>1, <1>3
  <2>2. Shifted(type, x, n) = [r |-> ShiftedBy(type, x, n), c |-> OutOf(type, x, n)]
    BY <1>1, <1>3 DEF Shifted
  <2>3. CASE type = "lsl"
    <3>1. res = [r |-> ArmAlu!Wrap(x * ArmAlu!Two[n]), c |-> ArmAlu!Out(x, w - n + 1)]
      BY <1>3, <2>3 DEF ArmAlu!ArmShift
    <3>2. ArmAlu!Wrap(x * ArmAlu!Two[n]) = ShiftedBy("lsl", x, n)
      BY <2>1, WrapShifted DEF ShiftedBy
    <3>3. ArmAlu!Out(x, w - n + 1) = OutOf("lsl", x, n)
      BY <1>2, <2>1 DEF OutOf
    <3> HIDE DEF res
    <3> QED BY <2>2, <2>3, <3>1, <3>2, <3>3 DEF res
  <2>4. CASE type = "lsr"
    <3>1. res = [r |-> x \div ArmAlu!Two[n], c |-> ArmAlu!Out(x, n)]
      BY <1>3, <2>4 DEF ArmAlu!ArmShift
    <3>2. x \div ArmAlu!Two[n] = ShiftedBy("lsr", x, n)
      BY DEF ShiftedBy, Upper
    <3>3. ArmAlu!Out(x, n) = OutOf("lsr", x, n)
      BY <1>2 DEF OutOf
    <3> HIDE DEF res
    <3> QED BY <2>2, <2>4, <3>1, <3>2, <3>3 DEF res
  <2>5. CASE type = "asr"
    <3>1. res = [r |-> ArmAlu!Sar(x, n), c |-> ArmAlu!Out(x, n)]
      BY <1>3, <2>5 DEF ArmAlu!ArmShift
    <3>2. ArmAlu!Sar(x, n) = ShiftedBy("asr", x, n)
      BY <2>1, SarShifted
    <3>3. ArmAlu!Out(x, n) = OutOf("asr", x, n)
      BY <1>2 DEF OutOf
    <3> HIDE DEF res
    <3> QED BY <2>2, <2>5, <3>1, <3>2, <3>3 DEF res
  <2> QED BY <1>3, <2>3, <2>4, <2>5 DEF ArmAlu!Shifts
<1>4. CASE type # "ror" /\ n = w
  <2>1. Shifted(type, x, n) = [r |-> ShiftedBy(type, x, w), c |-> OutOf(type, x, w)]
    BY <1>1, <1>4 DEF Shifted
  <2>2. CASE type = "lsl"
    <3>1. res = [r |-> 0, c |-> x % 2]
      BY <1>1, <1>4, <2>2 DEF ArmAlu!ArmShift
    <3> QED BY <2>1, <2>2, <3>1, ShiftEnds
  <2>3. CASE type = "lsr"
    <3>1. res = [r |-> 0, c |-> ArmAlu!Bit(top)]
      BY <1>1, <1>4, <2>3 DEF ArmAlu!ArmShift
    <3> QED BY <2>1, <2>3, <3>1, ShiftEnds
  <2>4. CASE type = "asr"
    <3>1. res = [r |-> IF top THEN ArmAlu!M - 1 ELSE 0, c |-> ArmAlu!Bit(top)]
      BY <1>1, <1>4, <2>4 DEF ArmAlu!ArmShift
    <3> QED BY <2>1, <2>4, <3>1, ShiftEnds
  <2> QED BY <1>4, <2>2, <2>3, <2>4 DEF ArmAlu!Shifts
<1>5. CASE type # "ror" /\ n > w
  <2>1. Shifted(type, x, n) = [r |-> ShiftedBy(type, x, w),
                               c |-> IF type = "asr" THEN ArmAlu!Bit(top) ELSE 0]
    BY <1>1, <1>5 DEF Shifted
  <2>2. CASE type = "lsl"
    <3>1. res = [r |-> 0, c |-> 0]
      BY <1>1, <1>5, <2>2 DEF ArmAlu!ArmShift
    <3>2. Shifted(type, x, n) = [r |-> ShiftedBy("lsl", x, w), c |-> 0]
      BY <2>1, <2>2
    <3> QED BY <3>1, <3>2, ShiftEnds
  <2>3. CASE type = "asr"
    <3>1. res = [r |-> IF top THEN ArmAlu!M - 1 ELSE 0, c |-> ArmAlu!Bit(top)]
      BY <1>1, <1>5, <2>3 DEF ArmAlu!ArmShift
    <3> QED BY <2>1, <2>3, <3>1, ShiftEnds
  <2> QED BY <1>5, <2>2, <2>3 DEF ArmAlu!Shifts
<1>6. CASE type = "ror"
  <2> DEFINE k == n % w
             p == (n - 1) % w
             i == Turned(n)
  <2>1. Shifted(type, x, n) = [r |-> ShiftedBy("ror", x, i), c |-> OutOf("ror", x, i)]
    BY <1>6 DEF Shifted
  <2>2. p \in 0..(w - 1) /\ k = (IF p = w - 1 THEN 0 ELSE p + 1)
    <3>1. n - 1 \in Nat /\ (n - 1) + 1 = n /\ w \in Nat \ {0}
      BY <1>1
    <3> QED BY <3>1, ModNext
  <2>3. i = p + 1
    BY DEF Turned
  <2>4. CASE k = 0
    <3>1. res = [r |-> x, c |-> ArmAlu!Bit(top)]
      BY <1>6, <2>4 DEF ArmAlu!ArmShift
    <3> HIDE DEF k, p, i
    <3>2. i = w
      BY <1>1, <2>2, <2>3, <2>4
    <3> QED BY <2>1, <3>1, <3>2, ShiftEnds
  <2>5. CASE k # 0
    <3>1. res = [r |-> x \div ArmAlu!Two[k] + ArmAlu!Wrap(x * ArmAlu!Two[w - k]),
                 c |-> ArmAlu!Out(x, k)]
      BY <1>6, <2>5 DEF ArmAlu!ArmShift
    <3> HIDE DEF k, p, i, res
    <3>2. i = k /\ k \in 0..w /\ w - k \in 0..w /\ w - (w - k) = k
      BY <1>1, <2>2, <2>3, <2>5
    <3>3. ArmAlu!Wrap(x * ArmAlu!Two[w - k]) = Lower(x, k) * ArmAlu!Two[w - k]
      <4> DEFINE j == w - k
      <4>1. j \in 0..ArmWidth /\ ArmWidth - j = k
        BY <3>2
      <4> HIDE DEF j
      <4>2. ArmAlu!Wrap(x * ArmAlu!Two[j]) = Lower(x, k) * ArmAlu!Two[j]
        BY <4>1, WrapShifted
      <4> QED BY <4>2 DEF j
    <3>4. x \div ArmAlu!Two[k] + ArmAlu!Wrap(x * ArmAlu!Two[w - k]) = ShiftedBy("ror", x, k)
      BY <3>3 DEF ShiftedBy, Upper
    <3>5. ArmAlu!Out(x, k) = OutOf("ror", x, k)
      BY <1>2 DEF OutOf
    <3> QED BY <2>1, <3>1, <3>2, <3>4, <3>5 DEF res
  <2> QED BY <2>4, <2>5
<1> QED
  BY <1>1, <1>3, <1>4, <1>5, <1>6

LEMMA ArmShiftsExact ==
  ASSUME NEW type \in ArmAlu!Shifts, NEW x \in ArmAlu!Reg, NEW n \in Nat \ {0}
  PROVE  /\ ArmAlu!ShiftExact(type, x, n, ArmAlu!ArmShift(type, x, n))
         /\ ArmAlu!ShiftExact(type, x, n, ArmAlu!GbaShift(type, x, n))
<1>1. ArmWidth \in Nat \ {0, 1} /\ n # 0
  BY ArmTwos
<1>2. ArmAlu!Many(type, x, n) = Shifted(type, x, n)
  BY ManyShifted
<1>3. CASE type = "lsr" /\ n > ArmWidth
  <2>1. ArmAlu!ArmShift(type, x, n) = [r |-> 0, c |-> ArmAlu!Bit(ArmAlu!Top(x))]
    BY <1>1, <1>3 DEF ArmAlu!ArmShift
  <2>2. ArmAlu!GbaShift(type, x, n) = [r |-> 0, c |-> 0]
    BY <1>3 DEF ArmAlu!GbaShift
  <2>3. Shifted(type, x, n) = [r |-> ShiftedBy(type, x, ArmWidth), c |-> 0]
    BY <1>1, <1>3 DEF Shifted
  <2>4. ShiftedBy(type, x, ArmWidth) = 0
    BY <1>3, ShiftEnds
  <2> QED BY <1>2, <1>3, <2>1, <2>2, <2>3, <2>4 DEF ArmAlu!ShiftExact
<1>4. CASE ~(type = "lsr" /\ n > ArmWidth)
  <2>1. ArmAlu!ArmShift(type, x, n) = Shifted(type, x, n)
    BY <1>4, ArmShiftIs
  <2>2. ArmAlu!GbaShift(type, x, n) = ArmAlu!ArmShift(type, x, n)
    BY <1>4 DEF ArmAlu!GbaShift
  <2> QED BY <1>2, <2>1, <2>2 DEF ArmAlu!ShiftExact
<1> QED
  BY <1>3, <1>4

(***************************************************************************)
(* The square root of the BIOS.                                            *)
(***************************************************************************)

\* What a step with a bit leaves, and what the steps have found: a root of
\* which the bits below p are still to come.
RootStep(s, bit) ==
  IF s.v >= s.r + bit THEN [v |-> s.v - (s.r + bit), r |-> s.r \div 2 + bit]
                      ELSE [s EXCEPT !.r = @ \div 2]

RootStates == [v : Int, r : Nat]

IsPartialRoot(x, s, p) ==
  \E rho \in Nat : /\ s.r = rho * p /\ s.v = x - rho * rho
                   /\ rho * rho <= x /\ x < (rho + p) * (rho + p)

LEMMA RootStepTyped ==
  ASSUME NEW s \in RootStates, NEW bit \in Nat
  PROVE  RootStep(s, bit) \in RootStates
<1>1. s.v \in Int /\ s.r \in Nat /\ s = [v |-> s.v, r |-> s.r]
  BY DEF RootStates
<1>2. s.r \div 2 \in Nat
  BY <1>1
<1>3. CASE s.v >= s.r + bit
  <2>1. RootStep(s, bit) = [v |-> s.v - (s.r + bit), r |-> s.r \div 2 + bit]
    BY <1>3 DEF RootStep
  <2>2. s.v - (s.r + bit) \in Int /\ s.r \div 2 + bit \in Nat
    BY <1>1, <1>2
  <2> QED BY <2>1, <2>2 DEF RootStates
<1>4. CASE ~(s.v >= s.r + bit)
  <2>1. RootStep(s, bit) = [s EXCEPT !.r = @ \div 2]
    BY <1>4 DEF RootStep
  <2> QED BY <1>1, <1>2, <2>1 DEF RootStates
<1> QED
  BY <1>3, <1>4

\* One more bit of the root: whether the square with it is still not above x.
LEMMA RootStepFinds ==
  ASSUME NEW x \in Nat, NEW s \in RootStates, NEW q \in Nat \ {0},
         IsPartialRoot(x, s, 2 * q)
  PROVE  IsPartialRoot(x, RootStep(s, q * q), q)
<1>1. PICK rho \in Nat : /\ s.r = rho * (2 * q) /\ s.v = x - rho * rho
                         /\ rho * rho <= x /\ x < (rho + 2 * q) * (rho + 2 * q)
  BY DEF IsPartialRoot
<1> DEFINE g == rho * q
           d == q * q
           e == rho * rho
           res == RootStep(s, d)
<1>2. g \in Nat /\ d \in Nat /\ e \in Nat
  <2>1. \A i, j \in Nat : i * j \in Nat
    OBVIOUS
  <2> QED BY <2>1
<1>3. s.r = 2 * g /\ s.v = x - e /\ e <= x
  <2>1. rho * (2 * q) = 2 * (rho * q)
    OBVIOUS
  <2> QED BY <1>1, <2>1
<1>4. (rho + q) * (rho + q) = e + 2 * g + d
  OBVIOUS
<1>5. (rho + 2 * q) * (rho + 2 * q) = (rho + q + q) * (rho + q + q)
  <2>1. rho + 2 * q = rho + q + q
    OBVIOUS
  <2> QED BY <2>1
<1>6. (rho + q) * q = g + d
  OBVIOUS
<1>7. s.r \div 2 = g
  <2> HIDE DEF g
  <2> QED BY <1>2, <1>3
<1>8. CASE x - e >= 2 * g + d
  <2>1. res = [v |-> s.v - (s.r + d), r |-> s.r \div 2 + d]
    <3>1. s.v >= s.r + d
      BY <1>3, <1>8
    <3> QED BY <3>1 DEF RootStep
  <2>2. res.v = s.v - (s.r + d) /\ res.r = s.r \div 2 + d
    <3> HIDE DEF res
    <3> QED BY <2>1
  <2> DEFINE n == rho + q
  <2>3. n \in Nat
    OBVIOUS
  <2>4. res.r = n * q /\ n * n = e + 2 * g + d
    BY <1>4, <1>6, <1>7, <2>2
  <2>5. x < (n + q) * (n + q)
    BY <1>1, <1>5
  <2> HIDE DEF n, res, e, g, d
  <2>6. res.v = x - n * n /\ n * n <= x
    BY <1>2, <1>3, <1>8, <2>2, <2>4
  <2> QED BY <2>3, <2>4, <2>5, <2>6 DEF IsPartialRoot, res, d
<1>9. CASE ~(x - e >= 2 * g + d)
  <2>1. res = [s EXCEPT !.r = @ \div 2]
    <3>1. ~(s.v >= s.r + d)
      BY <1>3, <1>9
    <3> QED BY <3>1 DEF RootStep
  <2>2. res.v = s.v /\ res.r = s.r \div 2
    <3> HIDE DEF res
    <3> QED BY <2>1 DEF RootStates
  <2>3. x < (rho + q) * (rho + q)
    <3> HIDE DEF e, g, d
    <3> QED BY <1>2, <1>3, <1>4, <1>9
  <2>4. res.r = rho * q /\ res.v = x - rho * rho /\ rho * rho <= x
    BY <1>1, <1>7, <2>2
  <2> HIDE DEF res
  <2> QED BY <2>3, <2>4 DEF IsPartialRoot, res, d
<1> QED
  BY <1>8, <1>9 DEF d

\* The power to begin with.
LEMMA RootBegins ==
  ASSUME NEW x \in ArmAlu!Reg
  PROVE  \E k \in 0..ArmWidth :
           ArmAlu!Four(k) > x /\ (k = 0 \/ ArmAlu!Four(k - 1) <= x)
<1> DEFINE w == ArmWidth
           B == {k \in 0..w : ArmAlu!Four(k) <= x}
<1>1. w \in Nat /\ x \in Nat /\ x < ArmAlu!M /\ ArmAlu!M \in Nat \ {0}
  BY ArmTwos, ArmSize
<1>2. \A k \in 0..w : ArmAlu!Four(k) \in Nat
  <2>1. \A k \in 0..w : ArmAlu!Two[k] \in Nat
    BY Powers
  <2>2. \A i \in Nat : i * i \in Nat
    OBVIOUS
  <2> QED BY <2>1, <2>2 DEF ArmAlu!Four
<1>3. ArmAlu!Four(w) > x
  <2>1. ArmAlu!Four(w) = ArmAlu!M * ArmAlu!M
    BY DEF ArmAlu!Four, ArmAlu!M
  <2>2. \A i \in Nat \ {0} : i <= i * i
    OBVIOUS
  <2>3. ArmAlu!M * ArmAlu!M \in Int
    BY <1>1
  <2> HIDE DEF w
  <2> QED BY <1>1, <2>1, <2>2, <2>3
<1>4. SUFFICES ASSUME \A k \in 0..w : ~(ArmAlu!Four(k) > x /\ (k = 0 \/ ArmAlu!Four(k - 1) <= x))
               PROVE  FALSE
  OBVIOUS
<1> HIDE DEF w
<1>5. 0 \in B
  BY <1>1, <1>2, <1>4
<1>6. \A k \in 0..(w - 1) : k \in B => k + 1 \in B
  <2> SUFFICES ASSUME NEW k \in 0..(w - 1), k \in B PROVE k + 1 \in B
    OBVIOUS
  <2>1. k + 1 \in 0..w /\ (k + 1) - 1 = k
    BY <1>1
  <2>2. ArmAlu!Four(k) <= x
    OBVIOUS
  <2>3. ~(ArmAlu!Four(k + 1) > x)
    BY <1>4, <2>1, <2>2
  <2> QED BY <1>1, <1>2, <2>1, <2>3
<1>7. w \in B
  <2> HIDE DEF B
  <2>1. w \in 0..w
    BY <1>1
  <2> QED BY <1>1, <1>5, <1>6, <2>1, UpTo
<1> QED
  BY <1>1, <1>2, <1>3, <1>7

\* The chain of the steps.
IsRootChain(f, n, T) ==
  f \in [0..n -> RootStates] /\ \A k \in 1..n : f[k] = T[k][f[k - 1]]

LEMMA RootsExist ==
  ASSUME NEW n \in Nat, NEW s \in RootStates, NEW T \in [1..n -> [RootStates -> RootStates]]
  PROVE  \E f : IsRootChain(f, n, T) /\ f[0] = s
<1>1. \E f \in [0..n -> RootStates] : f[0] = s /\ \A k \in 1..n : f[k] = T[k][f[k - 1]]
  BY Iterated
<1> QED
  BY <1>1 DEF IsRootChain

LEMMA RootExact ==
  ASSUME NEW x \in ArmAlu!Reg
  PROVE  ArmAlu!IsRoot(ArmAlu!SquareRoot(x), x)
<1> DEFINE first == CHOOSE k \in 0..ArmWidth :
                      ArmAlu!Four(k) > x /\ (k = 0 \/ ArmAlu!Four(k - 1) <= x)
           Steps(f) == f = [n \in 0..first |->
                              IF n = 0 THEN [v |-> x, r |-> 0]
                              ELSE RootStep(f[n - 1], ArmAlu!Four(first - n))]
           g == CHOOSE f : Steps(f)
           s0 == [v |-> x, r |-> 0]
           B == {n \in 0..first : /\ g[n] \in RootStates
                                  /\ IsPartialRoot(x, g[n], ArmAlu!Two[first - n])}
<1>1. first \in 0..ArmWidth /\ ArmAlu!Four(first) > x
  BY RootBegins
<1>2. ArmAlu!SquareRoot(x) = g[first].r
  BY DEF ArmAlu!SquareRoot, RootStep
<1> HIDE DEF first
<1>3. first \in Nat /\ x \in Nat /\ s0 \in RootStates /\ s0.v = x /\ s0.r = 0
  BY <1>1, ArmSize DEF RootStates
<1>4. ASSUME NEW n \in 1..first
      PROVE  /\ first - n \in 0..ArmWidth /\ ArmAlu!Two[first - n] \in Nat \ {0}
             /\ ArmAlu!Four(first - n) = ArmAlu!Two[first - n] * ArmAlu!Two[first - n]
             /\ ArmAlu!Two[first - (n - 1)] = 2 * ArmAlu!Two[first - n]
             /\ ArmAlu!Four(first - n) \in Nat
  <2> DEFINE k == first - n
  <2>1. k \in 0..ArmWidth /\ k < ArmWidth /\ first - (n - 1) = k + 1
    BY <1>1, ArmTwos
  <2> HIDE DEF k
  <2>2. ArmAlu!Two[k] \in Nat \ {0} /\ ArmAlu!Two[k + 1] = 2 * ArmAlu!Two[k]
    BY <2>1, Powers
  <2>3. \A i \in Nat : i * i \in Nat
    OBVIOUS
  <2>4. ArmAlu!Four(k) = ArmAlu!Two[k] * ArmAlu!Two[k] /\ ArmAlu!Four(k) \in Nat
    BY <2>2, <2>3 DEF ArmAlu!Four
  <2> QED BY <2>1, <2>2, <2>4 DEF k
<1>5. PICK T \in [1..first -> [RootStates -> RootStates]] :
        \A n \in 1..first, s \in RootStates : T[n][s] = RootStep(s, ArmAlu!Four(first - n))
  <2> DEFINE U == [n \in 1..first |-> [s \in RootStates |-> RootStep(s, ArmAlu!Four(first - n))]]
  <2>1. U \in [1..first -> [RootStates -> RootStates]]
    BY <1>4, RootStepTyped
  <2>2. \A n \in 1..first, s \in RootStates : U[n][s] = RootStep(s, ArmAlu!Four(first - n))
    OBVIOUS
  <2> HIDE DEF U
  <2> QED BY <2>1, <2>2
<1>6. PICK h : IsRootChain(h, first, T) /\ h[0] = s0
  <2> HIDE DEF Steps, g, s0, B
  <2> QED BY <1>3, <1>5, RootsExist
<1>7. Steps(h)
  <2>1. ASSUME NEW n \in 0..first
        PROVE  h[n] = IF n = 0 THEN s0 ELSE RootStep(h[n - 1], ArmAlu!Four(first - n))
    <3>1. CASE n = 0
      BY <1>6, <3>1
    <3>2. CASE n # 0
      <4>1. n \in 1..first /\ n - 1 \in 0..first
        BY <1>3, <3>2
      <4>2. h[n] = T[n][h[n - 1]] /\ h[n - 1] \in RootStates
        BY <1>6, <4>1 DEF IsRootChain
      <4> QED BY <1>5, <3>2, <4>1, <4>2
    <3> QED BY <3>1, <3>2
  <2>2. h = [n \in 0..first |-> h[n]]
    BY <1>6 DEF IsRootChain
  <2> QED BY <2>1, <2>2
<1>8. Steps(g)
  <2> HIDE DEF Steps
  <2> QED BY <1>7
<1>9. \A n \in 0..first : g[n] = IF n = 0 THEN s0 ELSE RootStep(g[n - 1], ArmAlu!Four(first - n))
  <2> HIDE DEF g
  <2> QED BY <1>8
<1> HIDE DEF g, Steps, s0
<1>10. 0 \in B
  <2> DEFINE p == ArmAlu!Two[first]
  <2>1. g[0] = s0 /\ first - 0 = first /\ 0 \in 0..first
    BY <1>3, <1>9
  <2>2. p \in Nat /\ x < p * p
    <3>1. ArmAlu!Four(first) = p * p /\ p \in Nat
      BY <1>1, Powers DEF ArmAlu!Four
    <3>2. p * p \in Int
      BY <3>1
    <3> HIDE DEF p
    <3> QED BY <1>1, <1>3, <3>1, <3>2
  <2> HIDE DEF p
  <2>3. s0.r = 0 * p /\ s0.v = x - 0 * 0 /\ 0 * 0 <= x /\ x < (0 + p) * (0 + p)
    BY <1>3, <2>2
  <2>4. IsPartialRoot(x, s0, p)
    BY <2>3 DEF IsPartialRoot
  <2> QED BY <1>3, <2>1, <2>4 DEF p
<1>11. ASSUME NEW n \in 0..(first - 1), n \in B PROVE n + 1 \in B
  <2> DEFINE q == ArmAlu!Two[first - (n + 1)]
  <2>1. n + 1 \in 1..first /\ n + 1 \in 0..first /\ (n + 1) - 1 = n /\ n + 1 # 0
    BY <1>3
  <2>2. q \in Nat \ {0} /\ ArmAlu!Four(first - (n + 1)) = q * q
        /\ ArmAlu!Two[first - n] = 2 * q /\ q * q \in Nat
    BY <1>4, <2>1
  <2>3. g[n + 1] = RootStep(g[n], q * q)
    BY <1>9, <2>1, <2>2
  <2>4. g[n] \in RootStates /\ IsPartialRoot(x, g[n], 2 * q)
    BY <1>11, <2>2
  <2> HIDE DEF q
  <2>5. RootStep(g[n], q * q) \in RootStates /\ IsPartialRoot(x, RootStep(g[n], q * q), q)
    BY <1>3, <2>2, <2>4, RootStepTyped, RootStepFinds
  <2> QED BY <2>1, <2>3, <2>5 DEF q
<1>12. first \in B
  <2> HIDE DEF B
  <2>1. first \in 0..first
    BY <1>3
  <2> QED BY <1>3, <1>10, <1>11, <2>1, UpTo
<1>13. IsPartialRoot(x, g[first], 1)
  <2>1. first - first = 0 /\ ArmAlu!Two[0] = 1
    BY <1>1, <1>3, Powers
  <2> QED BY <1>12, <2>1
<1>14. PICK rho \in Nat : g[first].r = rho * 1 /\ rho * rho <= x /\ x < (rho + 1) * (rho + 1)
  BY <1>13 DEF IsPartialRoot
<1>15. g[first].r = rho
  BY <1>14
<1>16. (rho + 1) * (rho + 1) > x
  <2>1. (rho + 1) * (rho + 1) \in Int
    OBVIOUS
  <2> QED BY <1>3, <1>14, <2>1
<1> QED
  BY <1>2, <1>14, <1>15, <1>16 DEF ArmAlu!IsRoot

(***************************************************************************)
(* The steps of the ARM interpreters' arithmetic.                          *)
(***************************************************************************)

LEMMA RrxExact ==
  ASSUME NEW a \in ArmAlu!Reg, NEW c \in {0, 1}
  PROVE  2 * ArmAlu!Rrx(a, c).r + ArmAlu!Rrx(a, c).c = a + c * ArmAlu!M
<1> DEFINE h == ArmAlu!Two[ArmWidth - 1]
           q == a \div 2
           b == a % 2
           res == ArmAlu!Rrx(a, c)
<1>1. h \in Nat \ {0} /\ ArmAlu!M = 2 * h /\ a \in Nat
  BY ArmSize
<1>2. q \in Nat /\ b \in {0, 1} /\ a = 2 * q + b
  BY <1>1
<1>3. res = [r |-> q + c * h, c |-> b]
  BY DEF ArmAlu!Rrx
<1> HIDE DEF h, q, b, res
<1>4. res.r = q + c * h /\ res.c = b
  BY ONLY <1>3
<1>5. 2 * (q + c * h) + b = a + c * (2 * h)
  <2>1. CASE c = 0
    BY <1>1, <1>2, <2>1
  <2>2. CASE c = 1
    BY <1>1, <1>2, <2>2
  <2> QED BY <2>1, <2>2
<1> QED
  BY <1>1, <1>4, <1>5 DEF res

LEMMA BlocksExact ==
  ASSUME NEW gbax \in BOOLEAN, NEW p \in BOOLEAN, NEW u \in BOOLEAN,
         NEW n \in 0..ArmWidth, ArmAlu!StoreAndLoad(gbax, p, u, ArmWidth, n)
  PROVE  ArmAlu!BlocksBalanced' /\ v1'.op = "block"
<1> DEFINE Block(before, up, at) == IF gbax THEN ArmAlu!GbaBlock(before, up, at, n)
                                    ELSE ArmAlu!ArmBlock(before, up, at, n)
           base == ArmWidth
           store == Block(p, u, base)
           load == Block(~p, ~u, store.back)
<1>1. base \in Nat /\ n \in Nat
  BY ArmTwos
<1>2. v1' = [op |-> "block", a |-> base, b |-> n, c |-> 0, res |-> [stm |-> store, ldm |-> load]]
  BY DEF ArmAlu!StoreAndLoad
<1>3. store.back = IF u THEN base + n ELSE base - n
  BY DEF ArmAlu!GbaBlock, ArmAlu!ArmBlock
<1>4. store.first = IF u THEN IF p THEN base + 1 ELSE base
                    ELSE IF p THEN base - n ELSE base - n + 1
  BY <1>1 DEF ArmAlu!GbaBlock, ArmAlu!ArmBlock
<1>5. \A at \in Int : /\ Block(~p, ~u, at).back = IF u THEN at - n ELSE at + n
                      /\ Block(~p, ~u, at).first =
                           IF u THEN IF p THEN at - n + 1 ELSE at - n
                           ELSE IF p THEN at ELSE at + 1
  BY <1>1 DEF ArmAlu!GbaBlock, ArmAlu!ArmBlock
<1>6. store.back \in Int
  BY <1>1, <1>3
<1>7. load.back = (IF u THEN store.back - n ELSE store.back + n)
      /\ load.first = IF u THEN IF p THEN store.back - n + 1 ELSE store.back - n
                      ELSE IF p THEN store.back ELSE store.back + 1
  BY <1>5, <1>6
<1> HIDE DEF store, load, base, Block
<1>8. load.back = base /\ load.first = store.first
  BY <1>1, <1>3, <1>4, <1>7
<1>9. v1'.op = "block" /\ v1'.a = base /\ v1'.res.ldm = load /\ v1'.res.stm = store
  BY ONLY <1>2
<1> QED
  BY <1>8, <1>9 DEF ArmAlu!BlocksBalanced

\* What an operation of a kind leaves, and nothing else is asked of it.
LEMMA ArmLeft ==
  ASSUME NEW op, NEW a, NEW b, NEW c, NEW res,
         v1' = [op |-> op, a |-> a, b |-> b, c |-> c, res |-> res],
         op # "block",
         op \in ArmAlu!Adds => ArmAlu!SumExact(a, b, c, res),
         op \in ArmAlu!Subs => ArmAlu!DifferenceExact(a, b, c, res),
         op \in ArmAlu!Shifts => ArmAlu!ShiftExact(op, a, b, res),
         op = "rrx" => 2 * res.r + res.c = a + c * ArmAlu!M,
         op = "sqrt" => ArmAlu!IsRoot(res.r, a)
  PROVE  ArmAlu!ArithmeticExact' /\ ArmAlu!BlocksBalanced'
<1>1. v1'.op = op /\ v1'.a = a /\ v1'.b = b /\ v1'.c = c /\ v1'.res = res
  BY ONLY v1' = [op |-> op, a |-> a, b |-> b, c |-> c, res |-> res]
<1>2. ArmAlu!BlocksBalanced'
  BY <1>1 DEF ArmAlu!BlocksBalanced
<1>3. ArmAlu!ArithmeticExact'
  BY <1>1 DEF ArmAlu!ArithmeticExact
<1> QED
  BY <1>2, <1>3

LEMMA ArmKinds ==
  /\ "block" \notin ArmAlu!Adds \cup ArmAlu!Subs \cup ArmAlu!Shifts
  /\ "rrx" \notin ArmAlu!Adds \cup ArmAlu!Subs \cup ArmAlu!Shifts
  /\ "sqrt" \notin ArmAlu!Adds \cup ArmAlu!Subs \cup ArmAlu!Shifts
  /\ (ArmAlu!Adds \cup ArmAlu!Subs) \cap ArmAlu!Shifts = {}
  BY DEF ArmAlu!Adds, ArmAlu!Subs, ArmAlu!Shifts

\* An operation leaves its exact result.
LEMMA ArmAluStep ==
  ASSUME ArmAlu!Next
  PROVE  ArmAlu!ArithmeticExact' /\ ArmAlu!BlocksBalanced'
<1> DEFINE Goal == ArmAlu!ArithmeticExact' /\ ArmAlu!BlocksBalanced'
<1>1. ASSUME NEW op \in ArmAlu!Adds \cup ArmAlu!Subs, NEW a \in ArmAlu!Reg,
             NEW b \in ArmAlu!Reg, NEW c \in {0, 1}, ArmAlu!Arithmetic(op, a, b, c)
      PROVE  Goal
  <2> DEFINE x == Operand(op, a)
             d == ArmAlu!CarryIn(op, c)
             res == ArmAlu!Result(op, a, b, c)
  <2>1. v1' = [op |-> op, a |-> x, b |-> b, c |-> d, res |-> res]
    BY <1>1 DEF ArmAlu!Arithmetic, Operand
  <2>2. ArmResultExact(op, x, b, d, res)
    BY ArmResultsExact
  <2>3. op # "block" /\ op # "rrx" /\ op # "sqrt" /\ op \notin ArmAlu!Shifts
    BY ArmKinds
  <2> HIDE DEF x, d, res
  <2>4. /\ op \in ArmAlu!Adds => ArmAlu!SumExact(x, b, d, res)
        /\ op \in ArmAlu!Subs => ArmAlu!DifferenceExact(x, b, d, res)
    BY <2>2 DEF ArmResultExact
  <2> QED BY <2>1, <2>3, <2>4, ArmLeft
<1>2. ASSUME NEW gbax \in BOOLEAN, NEW type \in ArmAlu!Shifts, NEW a \in ArmAlu!Reg,
             NEW n \in 1..(2 * ArmWidth + 1), ArmAlu!ShiftBy(gbax, type, a, n)
      PROVE  Goal
  <2> DEFINE res == IF gbax THEN ArmAlu!GbaShift(type, a, n) ELSE ArmAlu!ArmShift(type, a, n)
  <2>1. v1' = [op |-> type, a |-> a, b |-> n, c |-> 0, res |-> res]
    BY <1>2 DEF ArmAlu!ShiftBy
  <2>2. n \in Nat \ {0}
    BY ArmTwos
  <2>3. ArmAlu!ShiftExact(type, a, n, res)
    BY <2>2, ArmShiftsExact
  <2>4. type # "block" /\ type # "rrx" /\ type # "sqrt"
        /\ type \notin ArmAlu!Adds /\ type \notin ArmAlu!Subs
    BY ArmKinds
  <2> HIDE DEF res
  <2> QED BY <2>1, <2>3, <2>4, ArmLeft
<1>3. ASSUME NEW a \in ArmAlu!Reg, NEW c \in {0, 1}, ArmAlu!RotateExtended(a, c)
      PROVE  Goal
  <2> DEFINE res == ArmAlu!Rrx(a, c)
  <2>1. v1' = [op |-> "rrx", a |-> a, b |-> 0, c |-> c, res |-> res]
    BY <1>3 DEF ArmAlu!RotateExtended
  <2>2. 2 * res.r + res.c = a + c * ArmAlu!M
    BY RrxExact
  <2> HIDE DEF res
  <2> QED BY <2>1, <2>2, ArmKinds, ArmLeft
<1>4. ASSUME NEW gbax \in BOOLEAN, NEW p \in BOOLEAN, NEW u \in BOOLEAN, NEW n \in 0..ArmWidth,
             ArmAlu!StoreAndLoad(gbax, p, u, ArmWidth, n)
      PROVE  Goal
  <2>1. ArmAlu!BlocksBalanced' /\ v1'.op = "block"
    BY <1>4, BlocksExact
  <2>2. ArmAlu!ArithmeticExact'
    BY <2>1, ArmKinds DEF ArmAlu!ArithmeticExact
  <2> QED BY <2>1, <2>2
<1>5. ASSUME NEW a \in ArmAlu!Reg, ArmAlu!TakeRoot(a)
      PROVE  Goal
  <2> DEFINE root == ArmAlu!SquareRoot(a)
             res == [r |-> root]
  <2>1. v1' = [op |-> "sqrt", a |-> a, b |-> 0, c |-> 0, res |-> res]
    BY <1>5 DEF ArmAlu!TakeRoot
  <2>2. ArmAlu!IsRoot(root, a)
    BY RootExact
  <2> HIDE DEF root
  <2>3. res.r = root
    OBVIOUS
  <2> HIDE DEF res
  <2>4. ArmAlu!IsRoot(res.r, a)
    BY <2>2, <2>3
  <2> QED BY <2>1, <2>4, ArmKinds, ArmLeft
<1>6. CASE v1' = ArmAlu!None
  <2>1. v1'.op = "none"
    BY <1>6 DEF ArmAlu!None
  <2> QED BY <2>1 DEF ArmAlu!ArithmeticExact, ArmAlu!BlocksBalanced, ArmAlu!Adds,
                      ArmAlu!Subs, ArmAlu!Shifts
<1> HIDE DEF Goal
<1>7. ASSUME ArmAlu!Execute PROVE Goal
  BY <1>1, <1>2, <1>3, <1>4, <1>5, <1>7 DEF ArmAlu!Execute
<1>8. Goal
  <2>1. CASE v1' = ArmAlu!None
    BY <1>6, <2>1 DEF Goal
  <2> QED BY <1>7, <2>1 DEF ArmAlu!Next
<1> QED
  BY <1>8 DEF Goal

(***************************************************************************)
(* The arithmetic of all of them.                                          *)
(***************************************************************************)

\* Of every operation of the arithmetic units the result and the flags are
\* those of the numbers, and a load with the mirrored mode undoes a store: the
\* ARM interpreters (arm.c, cpu.c, swi.c), the bytes of the 6502, the 65816,
\* the Z80 and the 68000 (cpu6502.c, cpu65816.c, z80.c, m68k.c), the SH-2 and
\* the SH-4 (sh2.c, sh4.c).
THEOREM ConsolesArithmeticExact == Spec => []ArithmeticExact
<1>1. Init => ArithmeticExact
  <2> SUFFICES ASSUME Init PROVE ArithmeticExact
    OBVIOUS
  <2>1. ASSUME focus = "arm_alu" PROVE ArmAlu!ArithmeticExact /\ ArmAlu!BlocksBalanced
    <3>1. v1 = ArmAlu!None
      BY <2>1 DEF Init, ArmAlu!Init
    <3>2. v1.op = "none"
      BY <3>1 DEF ArmAlu!None
    <3> QED
      BY <3>2 DEF ArmAlu!ArithmeticExact, ArmAlu!BlocksBalanced, ArmAlu!Adds,
                  ArmAlu!Subs, ArmAlu!Shifts
  <2>2. ASSUME focus = "bytes" PROVE Digits!ArithmeticExact
    <3>1. v1 = Digits!None
      BY <2>2 DEF Init, Digits!Init
    <3>2. v1.op = "none"
      BY <3>1 DEF Digits!None
    <3> QED
      BY <3>2 DEF Digits!ArithmeticExact, Digits!Sums, Digits!Differences,
                  Digits!DecimalSums, Digits!DecimalDifferences
  <2>3. ASSUME focus = "sh_alu" PROVE ShAlu!ArithmeticExact
    <3>1. v1 = ShAlu!None
      BY <2>3 DEF Init, ShAlu!Init
    <3>2. v1.op = "none"
      BY <3>1 DEF ShAlu!None
    <3> QED
      BY <3>2 DEF ShAlu!ArithmeticExact, ShAlu!Exact, ShAlu!Shifts
  <2> QED
    BY <2>1, <2>2, <2>3 DEF ArithmeticExact
<1>2. ASSUME Next PROVE ArithmeticExact'
  <2>1. focus' = focus
    BY <1>2 DEF Next
  <2>2. focus = "arm_alu" => ArmAlu!ArithmeticExact' /\ ArmAlu!BlocksBalanced'
    BY <1>2, ArmAluStep DEF Next
  <2>3. focus = "bytes" => Digits!ArithmeticExact'
    BY <1>2, BytesStep DEF Next
  <2>4. focus = "sh_alu" => ShAlu!ArithmeticExact'
    BY <1>2, ShAluStep DEF Next
  <2> QED
    BY <2>1, <2>2, <2>3, <2>4 DEF ArithmeticExact
<1>3. ASSUME ArithmeticExact, UNCHANGED vars PROVE ArithmeticExact'
  <2>1. focus' = focus /\ v1' = v1
    BY <1>3 DEF vars
  <2>2. ArmAlu!ArithmeticExact' = ArmAlu!ArithmeticExact
    BY <2>1 DEF ArmAlu!ArithmeticExact
  <2>3. ArmAlu!BlocksBalanced' = ArmAlu!BlocksBalanced
    BY <2>1 DEF ArmAlu!BlocksBalanced
  <2>4. Digits!ArithmeticExact' = Digits!ArithmeticExact
    BY <2>1 DEF Digits!ArithmeticExact
  <2>5. ShAlu!ArithmeticExact' = ShAlu!ArithmeticExact
    BY <2>1 DEF ShAlu!ArithmeticExact
  <2> QED
    BY <1>3, <2>1, <2>2, <2>3, <2>4, <2>5 DEF ArithmeticExact
<1> QED
  BY <1>1, <1>2, <1>3, PTL DEF Spec
==============================================================================
