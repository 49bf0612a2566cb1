-------------------------- MODULE GpuCommandsProofs --------------------------
(***************************************************************************)
(* Theorems about GpuCommands, for every buffer and every size of it.      *)
(*                                                                         *)
(* AcceptsWellFormed says of a running walk only where it is.  What the    *)
(* verdict rests on is the command behind each header that was passed      *)
(* (Walked): whatever the walk stops at then shows that no number of NOPs  *)
(* makes up the buffer.                                                    *)
(***************************************************************************)
EXTENDS GpuCommands, TLAPS

TypeOK ==
  /\ buffer \in [1 .. Words -> Headers] /\ bytes \in Nat
  /\ pc \in {"check", "loop", "done"}
  /\ offset \in Nat /\ count \in Nat
  /\ result \in {"none", "ok", "invalid", "unsupported"}

\* All that was walked over is NOPs, and the walk is within the buffer.
Walked ==
  /\ pc = "check" => count = 0
  /\ pc = "loop" => bytes <= MaxBytes
  /\ \A i \in 1 .. count : IsNop(buffer[i])

Inductive == TypeOK /\ AcceptsWellFormed /\ Walked

------------------------------------------------------------------------------
\* The buffer is a whole number of words.
LEMMA BufferIs ==
  /\ MaxBytes \in Nat \ {0} /\ Words \in Nat /\ MaxBytes = 8 * Words
<1>1. MaxBytes \in Nat \ {0} /\ MaxBytes % 8 = 0
  BY CommandsAssumption DEF HeaderBytes
<1>2. \A m \in Nat : m % 8 = 0 => m \div 8 \in Nat /\ m = 8 * (m \div 8)
  OBVIOUS
<1> QED  BY <1>1, <1>2 DEF Words, HeaderBytes

\* The header the walk reads is the next one.
LEMMA HeaderIs ==
  ASSUME TypeOK, AcceptsWellFormed, bytes <= MaxBytes, bytes - offset >= 8
  PROVE  /\ Header = buffer[count + 1] /\ count + 1 \in 1 .. Words
         /\ Header \in Headers
<1>1. offset = count * 8 /\ count \in Nat /\ offset \in Nat /\ bytes \in Nat
  BY DEF TypeOK, AcceptsWellFormed, HeaderBytes
<1>2. offset \div 8 = count
  BY <1>1
<1>3. Header = buffer[count + 1]
  BY <1>2 DEF Header, HeaderBytes
<1>4. count + 1 \in 1 .. Words
  BY <1>1, BufferIs
<1> QED  BY <1>3, <1>4 DEF TypeOK

\* A buffer that is well formed is made up of the commands behind the walk and
\* of those before it.
LEMMA NotWellFormed ==
  ASSUME TypeOK, AcceptsWellFormed, bytes <= MaxBytes,
         \/ bytes = 0
         \/ offset < bytes /\ bytes - offset < 8
         \/ bytes - offset >= 8 /\ ~IsNop(Header)
  PROVE  \A n \in 1 .. Words : ~WellFormed(n)
<1> SUFFICES ASSUME NEW n \in 1 .. Words, WellFormed(n)  PROVE FALSE
  OBVIOUS
<1>1. /\ offset = count * 8 /\ count \in Nat /\ offset \in Nat /\ bytes \in Nat
      /\ n \in Nat /\ n >= 1 /\ bytes = n * 8
  BY BufferIs DEF TypeOK, AcceptsWellFormed, HeaderBytes, WellFormed
<1>2. bytes - offset >= 8
  BY <1>1
<1>3. count + 1 \in 1 .. n
  BY <1>1, <1>2
<1>4. IsNop(Header)
  BY <1>2, <1>3, HeaderIs DEF WellFormed
<1> QED  BY <1>1, <1>2, <1>4

\* A step keeps the invariant.
LEMMA StepInductive ==
  ASSUME Inductive, [Next]_vars
  PROVE  Inductive'
<1>0. /\ TypeOK /\ AcceptsWellFormed /\ Walked
      /\ offset = count * 8 /\ count \in Nat /\ offset \in Nat
      /\ bytes \in Nat /\ offset <= bytes
      /\ buffer \in [1 .. Words -> Headers]
  BY DEF Inductive, TypeOK, AcceptsWellFormed, HeaderBytes
\* The walk ends with a refusal.
<1>1. ASSUME NEW value \in {"invalid", "unsupported"}, Finish(value),
             UNCHANGED <<buffer, bytes>>, pc # "done",
             \A n \in 1 .. Words : ~WellFormed(n),
             ~(count >= 1 /\ WellFormed(count))
      PROVE  Inductive'
  <2>1. /\ pc' = "done" /\ result' = value /\ result' # "ok"
        /\ UNCHANGED <<buffer, bytes, offset, count>>
    BY <1>1 DEF Finish
  <2>2. TypeOK' /\ Walked'
    BY <1>0, <1>1, <2>1 DEF TypeOK, Walked
  <2>3. AcceptsWellFormed'
    BY <1>0, <1>1, <2>1 DEF AcceptsWellFormed, WellFormed
  <2> QED  BY <2>2, <2>3 DEF Inductive
\* A walk that is not at its end is at a header or at less than one.
<1>2. ASSUME pc = "loop"
      PROVE  /\ bytes <= MaxBytes
             /\ offset < bytes => ~(count >= 1 /\ WellFormed(count))
  BY <1>0, <1>2 DEF Walked, WellFormed, HeaderBytes
<1>3. ASSUME Reading
      PROVE  pc = "loop" /\ pc # "done" /\ offset < bytes /\ bytes - offset >= 8
  BY <1>0, <1>3 DEF Reading, ShortTail, HeaderBytes
<1>4. ASSUME CheckSize  PROVE Inductive'
  <2>1. CASE bytes = 0 \/ bytes > MaxBytes
    <3>1. pc = "check" /\ Finish("invalid") /\ UNCHANGED <<buffer, bytes>>
      BY <1>4, <2>1 DEF CheckSize
    <3>2. count = 0
      BY <1>0, <3>1 DEF Walked
    <3>3. CASE bytes = 0
      <4>1. bytes <= MaxBytes
        BY <3>3, BufferIs
      <4>2. \A n \in 1 .. Words : ~WellFormed(n)
        BY <1>0, <3>3, <4>1, NotWellFormed
      <4> QED  BY <1>1, <3>1, <3>2, <4>2
    <3>4. CASE bytes > MaxBytes
      <4>1. ASSUME NEW n \in 1 .. Words  PROVE ~WellFormed(n)
        BY <1>0, <3>4, BufferIs DEF WellFormed, HeaderBytes
      <4> QED  BY <1>1, <3>1, <3>2, <4>1
    <3> QED  BY <2>1, <3>3, <3>4
  <2>2. CASE ~(bytes = 0 \/ bytes > MaxBytes)
    <3>1. /\ pc = "check" /\ pc' = "loop"
          /\ UNCHANGED <<buffer, bytes, offset, count, result>>
      BY <1>4, <2>2 DEF CheckSize
    <3>2. bytes <= MaxBytes
      BY <1>0, <2>2, BufferIs
    <3>3. TypeOK' /\ Walked'
      BY <1>0, <3>1, <3>2 DEF TypeOK, Walked
    <3>4. AcceptsWellFormed'
      BY <1>0, <3>1 DEF AcceptsWellFormed
    <3> QED  BY <3>3, <3>4 DEF Inductive
  <2> QED  BY <2>1, <2>2
<1>5. ASSUME Truncated  PROVE Inductive'
  <2>1. /\ pc = "loop" /\ offset < bytes /\ bytes - offset < 8
        /\ Finish("invalid") /\ UNCHANGED <<buffer, bytes>>
    BY <1>5 DEF Truncated, ShortTail, HeaderBytes
  <2>2. \A n \in 1 .. Words : ~WellFormed(n)
    BY <1>0, <1>2, <2>1, NotWellFormed
  <2> QED  BY <1>1, <1>2, <2>1, <2>2
\* A header that is read and is not that of a NOP ends the walk.
<1>6. ASSUME NEW value \in {"invalid", "unsupported"}, Finish(value),
             UNCHANGED <<buffer, bytes>>, Reading, ~IsNop(Header)
      PROVE  Inductive'
  <2>1. \A n \in 1 .. Words : ~WellFormed(n)
    BY <1>0, <1>2, <1>3, <1>6, NotWellFormed
  <2> QED  BY <1>1, <1>2, <1>3, <1>6, <2>1
<1>7. ASSUME Unframed  PROVE Inductive'
  <2>1. Reading /\ ~Framed(Header) /\ Finish("invalid")
        /\ UNCHANGED <<buffer, bytes>>
    BY <1>7 DEF Unframed
  <2>2. ~IsNop(Header)
    BY <1>0, <1>3, <2>1 DEF IsNop, Framed, HeaderBytes
  <2> QED  BY <1>6, <2>1, <2>2
<1>8. ASSUME Unsupported  PROVE Inductive'
  BY <1>6, <1>8 DEF Unsupported, IsNop
<1>9. ASSUME WrongSize  PROVE Inductive'
  BY <1>6, <1>9 DEF WrongSize, CommandOk, IsNop
<1>10. ASSUME Command  PROVE Inductive'
  <2>1. /\ Reading /\ Framed(Header) /\ CommandOk(Header)
        /\ offset' = offset + Header.size /\ count' = count + 1
        /\ UNCHANGED <<buffer, bytes, pc, result>>
    BY <1>10 DEF Command
  <2>2. pc = "loop" /\ bytes - offset >= 8 /\ bytes <= MaxBytes
    BY <1>2, <1>3, <2>1
  <2>3. Header = buffer[count + 1]
    BY <1>0, <2>2, HeaderIs
  <2>4. IsNop(Header) /\ Header.size = 8
    BY <2>1 DEF Framed, CommandOk, IsNop, HeaderBytes
  <2>5. offset' = offset + 8 /\ offset' = count' * 8 /\ offset' \in 0 .. bytes
    BY <1>0, <2>1, <2>2, <2>4
  <2>6. TypeOK'
    BY <1>0, <2>1, <2>5 DEF TypeOK
  <2>7. AcceptsWellFormed'
    BY <2>1, <2>2, <2>5 DEF AcceptsWellFormed, HeaderBytes
  <2>8. \A i \in 1 .. count + 1 : IsNop(buffer[i])
    BY <1>0, <2>3, <2>4 DEF Walked
  <2>9. Walked'
    BY <2>1, <2>2, <2>8 DEF Walked
  <2> QED  BY <2>6, <2>7, <2>9 DEF Inductive
<1>11. ASSUME EndOfBuffer  PROVE Inductive'
  <2>1. /\ pc = "loop" /\ offset = bytes /\ bytes <= MaxBytes
        /\ Finish(IF count = 0 THEN "invalid" ELSE "ok")
        /\ UNCHANGED <<buffer, bytes>>
    BY <1>0, <1>2, <1>11 DEF EndOfBuffer
  <2>2. CASE count = 0
    <3>1. \A n \in 1 .. Words : ~WellFormed(n)
      BY <1>0, <2>1, <2>2, NotWellFormed
    <3> QED  BY <1>1, <2>1, <2>2, <3>1
  <2>3. CASE count # 0
    <3>1. /\ pc' = "done" /\ result' = "ok"
          /\ UNCHANGED <<buffer, bytes, offset, count>>
      BY <2>1, <2>3 DEF Finish
    <3>2. count >= 1 /\ WellFormed(count)
      BY <1>0, <2>1, <2>3 DEF Walked, WellFormed, HeaderBytes
    <3>3. TypeOK' /\ Walked'
      BY <1>0, <3>1 DEF TypeOK, Walked
    <3>4. AcceptsWellFormed'
      BY <1>0, <3>1, <3>2 DEF AcceptsWellFormed, WellFormed
    <3> QED  BY <3>3, <3>4 DEF Inductive
  <2> QED  BY <2>2, <2>3
<1>12. ASSUME UNCHANGED vars  PROVE Inductive'
  BY <1>12 DEF Inductive, TypeOK, AcceptsWellFormed, Walked, WellFormed, vars
<1> QED
  BY <1>4, <1>5, <1>7, <1>8, <1>9, <1>10, <1>11, <1>12 DEF Next

(* What the walk of grape_gpu_validate_commands knows at every step: the   *)
(* headers behind it were all NOPs of one header, and what it refused was  *)
(* no sequence of NOPs.                                                    *)
THEOREM InductiveInvariant == Spec => []Inductive
<1>1. ASSUME Init  PROVE Inductive
  <2>1. bytes \in Nat /\ buffer \in [1 .. Words -> Headers]
    BY <1>1, BufferIs DEF Init, HeaderBytes
  <2> QED
    BY <1>1, <2>1
       DEF Init, Inductive, TypeOK, AcceptsWellFormed, Walked, HeaderBytes
<1> QED  BY <1>1, StepInductive, PTL DEF Spec

(* SUBMIT accepts exactly the well-formed buffers: the walk stays inside   *)
(* the size the user gave, counts one command per header, says "ok" only   *)
(* of NOPs that fill the size, and refuses only what no number of NOPs     *)
(* makes up.                                                               *)
THEOREM AcceptsExactly == Spec => []AcceptsWellFormed
<1>1. Inductive => AcceptsWellFormed
  BY DEF Inductive
<1> QED  BY <1>1, InductiveInvariant, PTL

==============================================================================
