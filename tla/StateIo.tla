------------------------------ MODULE StateIo ------------------------------
(***************************************************************************)
(* The writer and the reader every core serializes its machine with        *)
(* (src/common/util.c): state_size counts with a writer that has no        *)
(* buffer, save_state writes as many fields as the buffer takes,           *)
(* load_state reads them back from a blob that may have been cut short.    *)
(*                                                                         *)
(* A machine is N fields, each a byte (sw_u8; the wider integers are       *)
(* several of them) or a block of memory (sw_mem).  Both directions run    *)
(* through the same fields in the same order, as the serialize and         *)
(* deserialize functions of the cores do.                                  *)
(***************************************************************************)
EXTENDS Integers

CONSTANTS
  N,       \* number of fields
  Off,     \* Off[f]: bytes of the first f fields
  Single,  \* the fields that are one byte
  Vals,    \* contents of a field
  Caps,    \* buffer and blob sizes the host offers
  Torn     \* a field the reader could not fill

Fields == 1..N
Size(f) == Off[f] - Off[f - 1]

ASSUME IoAssumption ==
  /\ N \in Nat
  /\ Off \in [0..N -> Nat] /\ Off[0] = 0
  /\ \A f \in Fields : Off[f - 1] <= Off[f]
  /\ Single \subseteq Fields /\ \A f \in Single : Size(f) = 1
  /\ Caps \subseteq Nat
  /\ Torn \notin Vals

VARIABLES
  machine,
  phase,   \* idle, or inside state_size, save_state or load_state
  done,    \* fields gone through
  pos, cap, overflow,  \* the writer
  blob,    \* the buffer: its fields are Torn until written
  at, size, bad,  \* the reader
  whole,   \* history: the last save reported success
  image    \* history: the machine when the last save began

vars == <<machine, phase, done, pos, cap, overflow, blob, at, size, bad,
          whole, image>>
writer == <<pos, cap, overflow, blob>>
reader == <<at, size, bad>>

Init ==
  /\ machine \in [Fields -> Vals]
  /\ phase = "idle" /\ done = 0
  /\ pos = 0 /\ cap = 0 /\ overflow = FALSE
  /\ blob = [f \in Fields |-> Torn]
  /\ at = 0 /\ size = 0 /\ bad = FALSE
  /\ whole = FALSE /\ image = machine

-----------------------------------------------------------------------------

\* A frame is emulated: the machine becomes another one.
Emulate ==
  /\ phase = "idle"
  /\ machine' \in [Fields -> Vals]
  /\ UNCHANGED <<phase, done, writer, reader, whole, image>>

\* state_size
BeginCount ==
  /\ phase = "idle"
  /\ phase' = "count" /\ done' = 0 /\ pos' = 0
  /\ cap' = 0 /\ overflow' = FALSE
  /\ UNCHANGED <<machine, blob, reader, whole, image>>

Count ==
  /\ phase = "count" /\ done < N
  /\ done' = done + 1
  /\ pos' = pos + Size(done + 1)
  /\ UNCHANGED <<machine, phase, cap, overflow, blob, reader, whole, image>>

EndCount ==
  /\ phase = "count" /\ done = N
  /\ phase' = "idle"
  /\ UNCHANGED <<machine, done, writer, reader, whole, image>>

\* save_state, into a fresh buffer of c bytes
BeginSave(c) ==
  /\ phase = "idle"
  /\ phase' = "save" /\ done' = 0 /\ pos' = 0
  /\ cap' = c /\ overflow' = FALSE
  /\ blob' = [f \in Fields |-> Torn]
  /\ whole' = FALSE /\ image' = machine
  /\ UNCHANGED <<machine, reader>>

\* sw_u8 and sw_mem decide each in its own way whether a field fits.
FitsLate(f) == pos <= cap   \* mutant: a block only has to begin inside the buffer
Fits(f) ==
  \/ f \in Single /\ pos < cap
  \/ f \notin Single /\ pos <= cap /\ Size(f) <= cap - pos

Write ==
  LET f == done + 1 IN
  /\ phase = "save" /\ done < N
  /\ done' = f
  /\ pos' = pos + Size(f)
  /\ blob' = IF Fits(f) THEN [blob EXCEPT ![f] = machine[f]] ELSE blob
  /\ overflow' = (overflow \/ ~Fits(f))
  /\ UNCHANGED <<machine, phase, cap, reader, whole, image>>

EndSaveTrusting ==   \* mutant: the overflow flag is not looked at
  /\ phase = "save" /\ done = N
  /\ phase' = "idle"
  /\ whole' = TRUE
  /\ UNCHANGED <<machine, done, writer, reader, image>>

EndSave ==
  /\ phase = "save" /\ done = N
  /\ phase' = "idle"
  /\ whole' = ~overflow
  /\ UNCHANGED <<machine, done, writer, reader, image>>

\* load_state, of the blob of a successful save or of its first s bytes.
BeginLoad(s) ==
  /\ phase = "idle" /\ whole
  /\ phase' = "load" /\ done' = 0
  /\ at' = 0 /\ size' = s /\ bad' = FALSE
  /\ UNCHANGED <<machine, writer, whole, image>>

\* sr_u8 and sr_mem
HasAtEnd(f) == at <= size   \* mutant: reads up to and including the end
Has(f) ==
  \/ f \in Single /\ at < size
  \/ f \notin Single /\ at <= size /\ Size(f) <= size - at

Read ==
  LET f == done + 1 IN
  /\ phase = "load" /\ done < N
  /\ done' = f
  /\ IF Has(f)
       THEN /\ machine' = [machine EXCEPT ![f] = blob[f]]
            /\ at' = at + Size(f)
            /\ UNCHANGED bad
       ELSE /\ machine' = [machine EXCEPT ![f] = Torn]
            /\ at' = IF f \in Single THEN at ELSE size
            /\ bad' = TRUE
  /\ UNCHANGED <<phase, writer, size, whole, image>>

\* EMU_OK without, EMU_EBADSTATE with `bad'; either way the machine goes on
\* with what was read.
EndLoad ==
  /\ phase = "load" /\ done = N
  /\ phase' = "idle"
  /\ UNCHANGED <<machine, done, writer, reader, whole, image>>

Next ==
  \/ Emulate
  \/ BeginCount \/ Count \/ EndCount
  \/ \E c \in Caps : BeginSave(c) \/ BeginLoad(c)
  \/ Write \/ EndSave
  \/ Read \/ EndLoad

Spec == Init /\ [][Next]_vars

-----------------------------------------------------------------------------

\* The reader's position stays inside the blob.
TypeOK ==
  /\ machine \in [Fields -> Vals \cup {Torn}]
  /\ image \in [Fields -> Vals \cup {Torn}]
  /\ blob \in [Fields -> Vals \cup {Torn}]
  /\ phase \in {"idle", "count", "save", "load"} /\ done \in 0..N
  /\ pos \in Nat /\ cap \in Nat /\ overflow \in BOOLEAN
  /\ at \in Nat /\ size \in Nat /\ at <= size /\ bad \in BOOLEAN
  /\ whole \in BOOLEAN

\* The writer notices that the buffer is too small exactly when it is, in
\* whichever field it runs out, and counts the same bytes with and without a
\* buffer: state_size is the size of the save (emu.h:100).
OverflowExact ==
  phase \in {"count", "save"} =>
    pos = Off[done] /\ (phase = "save" => (overflow <=> pos > cap))

\* The reader notices a truncated blob exactly when it is, and is never found
\* past the end of it.
BadExact ==
  phase = "load" =>
    /\ bad <=> Off[done] > size
    /\ at = IF bad THEN size ELSE Off[done]

\* A save that reports success holds the whole machine it was called on.
SavedWhole == whole => blob = image

\* A load that will report success has put back, field by field, the machine
\* that was saved, whatever ran in between: the round trip of
\* tests/common/state.c.
RoundTrip ==
  phase = "load" /\ ~bad => \A f \in 1..done : machine[f] = image[f]
=============================================================================
