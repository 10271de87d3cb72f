--------------------------- MODULE StateIoProofs ---------------------------
(***************************************************************************)
(* Saving and loading are exact for every layout of the fields and every   *)
(* buffer: what a core writes with sw_* it reads back with sr_*.           *)
(***************************************************************************)
EXTENDS StateIo, TLAPS

\* While a save runs, the machine stands still and what has been written of
\* it, as long as it fitted, is in the buffer; only the blob of a whole save
\* is loaded.
Saving ==
  phase = "save" =>
    /\ image = machine /\ ~whole
    /\ ~overflow => \A f \in 1..done : blob[f] = image[f]
LoadsWhole == phase = "load" => whole

IInv == /\ TypeOK /\ OverflowExact /\ BadExact /\ SavedWhole /\ RoundTrip
        /\ Saving /\ LoadsWhole

LEMMA InitIInv == Init => IInv
<1> SUFFICES ASSUME Init PROVE IInv
  OBVIOUS
<1>1. 0 \in 0..N
  BY IoAssumption
<1>2. TypeOK
  <2>1. at \in Nat /\ size \in Nat /\ at <= size
    BY DEF Init
  <2>2. /\ machine \in [Fields -> Vals \cup {Torn}]
        /\ image \in [Fields -> Vals \cup {Torn}]
        /\ blob \in [Fields -> Vals \cup {Torn}]
    BY DEF Init
  <2>3. pos \in Nat /\ cap \in Nat
    BY DEF Init
  <2>4. /\ phase \in {"idle", "count", "save", "load"} /\ done \in 0..N
        /\ overflow \in BOOLEAN /\ bad \in BOOLEAN /\ whole \in BOOLEAN
    BY <1>1 DEF Init
  <2> QED
    BY <2>1, <2>2, <2>3, <2>4 DEF TypeOK
<1> QED
  BY <1>2 DEF Init, IInv, OverflowExact, BadExact, SavedWhole, RoundTrip,
              Saving, LoadsWhole

\* The next field, and where it lies.
LEMMA NextField ==
  ASSUME TypeOK, done < N
  PROVE  LET f == done + 1 IN
         /\ f \in Fields /\ f \in 0..N
         /\ Off[done] \in Nat /\ Off[f] \in Nat
         /\ Size(f) = Off[f] - Off[done] /\ Off[done] <= Off[f]
         /\ f \in Single => Off[f] = Off[done] + 1
<1> DEFINE f == done + 1
<1>1. done \in 0..N /\ f \in 1..N /\ f \in 0..N /\ f - 1 = done
  BY IoAssumption DEF TypeOK
<1>2. Off[done] \in Nat /\ Off[f] \in Nat
  BY <1>1, IoAssumption
<1>3. Size(f) = Off[f] - Off[done] /\ Off[done] <= Off[f]
  BY <1>1, IoAssumption DEF Size, Fields
<1>4. f \in Single => Off[f] = Off[done] + 1
  BY <1>1, <1>2, <1>3, IoAssumption
<1> QED
  BY <1>1, <1>2, <1>3, <1>4 DEF Fields

LEMMA WriteIInv == IInv /\ Write => IInv'
<1> SUFFICES ASSUME IInv, Write PROVE IInv'
  OBVIOUS
<1> DEFINE f == done + 1
<1>1. /\ phase = "save" /\ done < N /\ done' = f
      /\ pos' = pos + Size(f)
      /\ blob' = IF Fits(f) THEN [blob EXCEPT ![f] = machine[f]] ELSE blob
      /\ overflow' = (overflow \/ ~Fits(f))
      /\ UNCHANGED <<machine, phase, cap, at, size, bad, whole, image>>
  BY DEF Write, reader
<1>2. /\ f \in Fields /\ f \in 0..N
      /\ Off[done] \in Nat /\ Off[f] \in Nat
      /\ Size(f) = Off[f] - Off[done] /\ Off[done] <= Off[f]
      /\ f \in Single => Off[f] = Off[done] + 1
  BY <1>1, NextField DEF IInv
<1>3. pos = Off[done] /\ (overflow <=> pos > cap) /\ cap \in Nat
  BY <1>1 DEF IInv, OverflowExact, TypeOK
<1>4. pos' = Off[f]
  BY <1>1, <1>2, <1>3
<1>5. Fits(f) <=> Off[f] <= cap
  BY <1>2, <1>3 DEF Fits
<1>6. overflow' \in BOOLEAN /\ (overflow' <=> Off[f] > cap)
  <2>1. overflow' <=> overflow \/ ~Fits(f)
    BY <1>1
  <2>2. overflow \/ ~Fits(f) <=> Off[f] > cap
    BY <1>2, <1>3, <1>5
  <2>3. overflow' \in BOOLEAN
    BY <1>1
  <2> QED
    BY <2>1, <2>2, <2>3
<1>7. OverflowExact'
  BY <1>1, <1>4, <1>6 DEF OverflowExact
<1>8. blob' \in [Fields -> Vals \cup {Torn}]
  <2>1. machine[f] \in Vals \cup {Torn} /\ blob \in [Fields -> Vals \cup {Torn}]
    BY <1>2 DEF IInv, TypeOK
  <2> QED
    BY <1>1, <1>2, <2>1
<1>9. TypeOK'
  BY <1>1, <1>2, <1>4, <1>6, <1>8 DEF IInv, TypeOK
<1>10. ~whole'
  BY <1>1 DEF IInv, Saving
<1>11. Saving'
  <2> SUFFICES ASSUME ~overflow', NEW g \in 1..done' PROVE blob'[g] = image'[g]
    BY <1>1, <1>10 DEF Saving, IInv
  <2>1. ~overflow /\ Fits(f)
    BY <1>1
  <2>2. g \in Fields /\ (g = f \/ g \in 1..done)
    <3>1. done \in Nat /\ g \in 1..(done + 1) /\ done < N /\ N \in Nat
      BY <1>1, IoAssumption DEF IInv, TypeOK
    <3> QED
      BY <3>1 DEF Fields
  <2>3. blob' = [blob EXCEPT ![f] = machine[f]] /\ image' = machine
    BY <1>1, <2>1 DEF IInv, Saving
  <2>4. CASE g = f
    BY <1>2, <2>3, <2>4 DEF IInv, TypeOK
  <2>5. CASE g # f
    BY <1>1, <2>1, <2>2, <2>3, <2>5 DEF IInv, TypeOK, Saving
  <2> QED
    BY <2>4, <2>5
<1> QED
  BY <1>1, <1>7, <1>9, <1>10, <1>11
     DEF IInv, BadExact, SavedWhole, RoundTrip, LoadsWhole

LEMMA ReadIInv == IInv /\ Read => IInv'
<1> SUFFICES ASSUME IInv, Read PROVE IInv'
  OBVIOUS
<1> DEFINE f == done + 1
<1>1. /\ phase = "load" /\ done < N /\ done' = f
      /\ UNCHANGED <<phase, pos, cap, overflow, blob, size, whole, image>>
  BY DEF Read, writer
<1>2. \/ /\ Has(f)
         /\ machine' = [machine EXCEPT ![f] = blob[f]]
         /\ at' = at + Size(f)
         /\ bad' = bad
      \/ /\ ~Has(f)
         /\ machine' = [machine EXCEPT ![f] = Torn]
         /\ at' = IF f \in Single THEN at ELSE size
         /\ bad' = TRUE
  BY DEF Read
<1>3. /\ f \in Fields /\ f \in 0..N
      /\ Off[done] \in Nat /\ Off[f] \in Nat
      /\ Size(f) = Off[f] - Off[done] /\ Off[done] <= Off[f]
      /\ f \in Single => Off[f] = Off[done] + 1
  BY <1>1, NextField DEF IInv
<1>4. /\ at \in Nat /\ size \in Nat /\ bad \in BOOLEAN
      /\ bad <=> Off[done] > size
      /\ at = IF bad THEN size ELSE Off[done]
  BY <1>1 DEF IInv, TypeOK, BadExact
<1>5. /\ bad' \in BOOLEAN /\ (bad' <=> Off[f] > size)
      /\ at' = IF bad' THEN size ELSE Off[f]
  <2>1. CASE bad
    <3>1. at = size /\ Off[f] > size
      BY <1>3, <1>4, <2>1
    <3>2. Has(f) => Size(f) = 0
      BY <1>3, <1>4, <3>1 DEF Has
    <3>3. bad' = TRUE
      BY <1>2, <1>4, <2>1
    <3>4. at' = size
      BY <1>2, <1>4, <3>1, <3>2
    <3> QED
      BY <3>1, <3>3, <3>4
  <2>2. CASE ~bad
    <3>1. at = Off[done] /\ Off[done] <= size
      BY <1>3, <1>4, <2>2
    <3>2. Has(f) <=> Off[f] <= size
      BY <1>3, <1>4, <3>1 DEF Has
    <3>3. ~Has(f) /\ f \in Single => at = size
      BY <1>3, <1>4, <3>1 DEF Has
    <3>4. CASE Has(f)
      <4>1. bad' = FALSE /\ at' = at + Size(f)
        BY <1>2, <2>2, <3>4, <1>4
      <4>2. at' = Off[f]
        BY <4>1, <1>3, <3>1
      <4>3. ~(Off[f] > size)
        BY <1>3, <1>4, <3>2, <3>4
      <4> QED
        BY <4>1, <4>2, <4>3
    <3>5. CASE ~Has(f)
      <4>1. bad' = TRUE /\ at' = size
        BY <1>2, <3>3, <3>5
      <4> QED
        BY <4>1, <1>3, <1>4, <3>2, <3>5
    <3> QED
      BY <3>4, <3>5
  <2> QED
    BY <1>4, <2>1, <2>2
<1>6. BadExact'
  BY <1>1, <1>5 DEF BadExact
<1>7. machine' \in [Fields -> Vals \cup {Torn}]
  <2>1. /\ blob[f] \in Vals \cup {Torn}
        /\ machine \in [Fields -> Vals \cup {Torn}]
    BY <1>3 DEF IInv, TypeOK
  <2> QED
    BY <1>2, <1>3, <2>1
<1>8. at' \in Nat
  BY <1>3, <1>4, <1>5
<1>9. TypeOK'
  BY <1>1, <1>3, <1>5, <1>7, <1>8 DEF IInv, TypeOK
<1>10. RoundTrip'
  <2> SUFFICES ASSUME ~bad', NEW g \in 1..done' PROVE machine'[g] = image'[g]
    BY <1>1 DEF RoundTrip
  <2>1. /\ machine' = [machine EXCEPT ![f] = blob[f]] /\ image' = image
        /\ bad' = bad
    BY <1>1, <1>2
  <2>2. g \in Fields /\ (g = f \/ g \in 1..done)
    <3>1. done \in Nat /\ g \in 1..(done + 1) /\ done < N /\ N \in Nat
      BY <1>1, IoAssumption DEF IInv, TypeOK
    <3> QED
      BY <3>1 DEF Fields
  <2>3. blob = image /\ machine \in [Fields -> Vals \cup {Torn}]
    BY <1>1 DEF IInv, LoadsWhole, SavedWhole, TypeOK
  <2>4. CASE g = f
    BY <1>3, <2>1, <2>3, <2>4
  <2>5. CASE g # f
    BY <1>1, <2>1, <2>2, <2>3, <2>5 DEF IInv, RoundTrip
  <2> QED
    BY <2>4, <2>5
<1> QED
  BY <1>1, <1>6, <1>9, <1>10
     DEF IInv, OverflowExact, SavedWhole, Saving, LoadsWhole

LEMMA CountIInv == IInv /\ Count => IInv'
<1> SUFFICES ASSUME IInv, Count PROVE IInv'
  OBVIOUS
<1> DEFINE f == done + 1
<1>1. /\ phase = "count" /\ done < N /\ done' = f
      /\ pos' = pos + Size(f)
      /\ UNCHANGED <<machine, phase, cap, overflow, blob, at, size, bad,
                     whole, image>>
  BY DEF Count, reader
<1>2. /\ f \in 0..N /\ Off[done] \in Nat /\ Off[f] \in Nat
      /\ Size(f) = Off[f] - Off[done]
  BY <1>1, NextField DEF IInv
<1>3. pos' = Off[f]
  BY <1>1, <1>2 DEF IInv, OverflowExact
<1>4. TypeOK'
  BY <1>1, <1>2, <1>3 DEF IInv, TypeOK
<1> QED
  BY <1>1, <1>3, <1>4
     DEF IInv, OverflowExact, BadExact, SavedWhole, RoundTrip, Saving, LoadsWhole

\* The beginning and the end of each of the three operations.
LEMMA EndsIInv ==
  ASSUME IInv, \/ Emulate \/ BeginCount \/ EndCount \/ EndSave \/ EndLoad
               \/ \E c \in Caps : BeginSave(c) \/ BeginLoad(c)
  PROVE  IInv'
<1>1. 0 \in 0..N /\ Off[0] = 0 /\ Caps \subseteq Nat
  BY IoAssumption
<1> USE DEF IInv, OverflowExact, BadExact, SavedWhole, RoundTrip, Saving,
            LoadsWhole, writer, reader
<1>2. CASE Emulate
  <2>1. machine' \in [Fields -> Vals \cup {Torn}]
    BY <1>2 DEF Emulate
  <2>2. TypeOK'
    BY <1>2, <2>1 DEF Emulate, TypeOK
  <2> QED
    BY <1>2, <2>2 DEF Emulate
<1>3. CASE BeginCount
  <2>1. TypeOK'
    BY <1>1, <1>3 DEF BeginCount, TypeOK
  <2> QED
    BY <1>1, <1>3, <2>1 DEF BeginCount
<1>4. CASE EndCount
  <2>1. TypeOK'
    BY <1>4 DEF EndCount, TypeOK
  <2> QED
    BY <1>4, <2>1 DEF EndCount
<1>5. CASE EndSave
  <2>1. TypeOK'
    BY <1>5 DEF EndSave, TypeOK
  <2>2. ~overflow => blob = image
    <3>1. /\ phase = "save" /\ done = N
      BY <1>5 DEF EndSave
    <3>2. ~overflow => \A g \in Fields : blob[g] = image[g]
      BY <3>1 DEF Fields
    <3> QED
      BY <3>2 DEF TypeOK
  <2> QED
    BY <1>5, <2>1, <2>2 DEF EndSave
<1>6. CASE EndLoad
  <2>1. TypeOK'
    BY <1>6 DEF EndLoad, TypeOK
  <2> QED
    BY <1>6, <2>1 DEF EndLoad
<1>7. ASSUME NEW c \in Caps, BeginSave(c) PROVE IInv'
  <2>1. [g \in Fields |-> Torn] \in [Fields -> Vals \cup {Torn}]
    OBVIOUS
  <2>2. TypeOK'
    BY <1>1, <1>7, <2>1 DEF BeginSave, TypeOK
  <2>3. 0 > c <=> FALSE
    BY <1>1, <1>7
  <2> QED
    BY <1>1, <1>7, <2>2, <2>3 DEF BeginSave
<1>8. ASSUME NEW c \in Caps, BeginLoad(c) PROVE IInv'
  <2>1. at' \in Nat /\ size' \in Nat /\ at' <= size'
    <3>1. at' = 0 /\ size' = c /\ c \in Nat
      BY <1>1, <1>8 DEF BeginLoad
    <3> QED
      BY <3>1
  <2>2. /\ phase' = "load" /\ done' \in 0..N
        /\ bad' \in BOOLEAN
        /\ UNCHANGED <<machine, image, blob, pos, cap, overflow, whole>>
    BY <1>1, <1>8 DEF BeginLoad
  <2>3. TypeOK'
    BY <2>1, <2>2 DEF TypeOK
  <2>4. 0 > c <=> FALSE
    BY <1>1, <1>8
  <2> QED
    BY <1>1, <1>8, <2>3, <2>4 DEF BeginLoad
<1> QED
  BY <1>2, <1>3, <1>4, <1>5, <1>6, <1>7, <1>8

LEMMA NextIInv == IInv /\ [Next]_vars => IInv'
<1>1. ASSUME IInv, UNCHANGED vars PROVE IInv'
  BY <1>1 DEF vars, IInv, TypeOK, OverflowExact, BadExact, SavedWhole,
              RoundTrip, Saving, LoadsWhole
<1> QED
  BY <1>1, EndsIInv, CountIInv, WriteIInv, ReadIInv DEF Next

LEMMA InductiveInvariant == Spec => []IInv
  BY InitIInv, NextIInv, PTL DEF Spec

\* The fields, cursors and flags keep their ranges.
THEOREM IoTypeCorrect == Spec => []TypeOK
<1>1. IInv => TypeOK
  BY DEF IInv
<1> QED
  BY InductiveInvariant, <1>1, PTL

\* EMU_ENOSPACE is reported for exactly the buffers that are too small, and
\* state_size is the size of the save.
THEOREM IoOverflowExact == Spec => []OverflowExact
<1>1. IInv => OverflowExact
  BY DEF IInv
<1> QED
  BY InductiveInvariant, <1>1, PTL

\* EMU_EBADSTATE is reported for exactly the truncated blobs.
THEOREM IoBadExact == Spec => []BadExact
<1>1. IInv => BadExact
  BY DEF IInv
<1> QED
  BY InductiveInvariant, <1>1, PTL

\* A successful save holds the whole machine.
THEOREM IoSavedWhole == Spec => []SavedWhole
<1>1. IInv => SavedWhole
  BY DEF IInv
<1> QED
  BY InductiveInvariant, <1>1, PTL

\* A successful load gives back the machine that was saved.
THEOREM IoRoundTrip == Spec => []RoundTrip
<1>1. IInv => RoundTrip
  BY DEF IInv
<1> QED
  BY InductiveInvariant, <1>1, PTL
=============================================================================
