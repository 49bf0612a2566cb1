----------------------------- MODULE GpuCommands -----------------------------
(***************************************************************************)
(* grape_gpu_validate_commands of kernel/grape_drm.c: what the SUBMIT      *)
(* ioctl accepts as a command buffer.  The loop walks the buffer by the    *)
(* sizes the commands give; WellFormed says what it should accept.         *)
(*                                                                         *)
(* A buffer is a sequence of 8-byte words, any of which may be read as a   *)
(* command header; the last bytes of a size that is no multiple of 8 are a *)
(* part of a word.                                                         *)
(***************************************************************************)
EXTENDS Integers, Sequences

CONSTANTS MaxBytes,  \* GFXLINK_GPU_MAX_COMMAND_BYTES
          Opcodes,   \* opcodes that occur, NOP among them
          Sizes,     \* values of the size field that occur
          Flags      \* values of the flags field that occur

HeaderBytes == 8
NOP == "NOP"

ASSUME CommandsAssumption ==
  /\ MaxBytes \in Nat \ {0} /\ MaxBytes % HeaderBytes = 0
  /\ NOP \in Opcodes /\ Sizes \subseteq Nat /\ Flags \subseteq Nat

Headers == [opcode : Opcodes, size : Sizes, flags : Flags]
Words   == MaxBytes \div HeaderBytes

VARIABLES
  buffer,  \* the commands, as copied from the user
  bytes,   \* command_size, as the user gives it
  pc,      \* "check", "loop" or "done"
  offset, count,
  result

vars == <<buffer, bytes, pc, offset, count, result>>

Init ==
  /\ buffer \in [1 .. Words -> Headers]
  /\ bytes \in 0 .. MaxBytes + HeaderBytes
  /\ pc = "check" /\ offset = 0 /\ count = 0 /\ result = "none"

\* The header at the offset.
Header == buffer[offset \div HeaderBytes + 1]

Finish(value) == pc' = "done" /\ result' = value /\ UNCHANGED <<offset, count>>

------------------------------------------------------------------------------
(* Seeded defects.  None is part of Next: each is a plausible slip in one  *)
(* of the actions below, and shows that a property would notice it.        *)

\* A NOP may carry data.
CommandOk_AnySize(header) == header.opcode = NOP

\* A command that is not known is counted and skipped.
Unsupported_Skipped ==
  /\ pc = "loop" /\ bytes - offset >= HeaderBytes
  /\ Header.size \in 8 .. bytes - offset /\ Header.opcode # NOP
  /\ offset' = offset + Header.size /\ count' = count + 1
  /\ UNCHANGED <<buffer, bytes, pc, result>>

------------------------------------------------------------------------------
\* The size is looked at before anything is read.
CheckSize ==
  /\ pc = "check"
  /\ IF bytes = 0 \/ bytes > MaxBytes THEN Finish("invalid")
     ELSE pc' = "loop" /\ UNCHANGED <<offset, count, result>>
  /\ UNCHANGED <<buffer, bytes>>

\* Fewer bytes are left than a header has.
ShortTail == bytes - offset < HeaderBytes

\* A header is read.
Reading == pc = "loop" /\ offset < bytes /\ ~ShortTail

\* The framing of one command, whatever it is.
Framed(header) ==
  /\ header.size >= HeaderBytes /\ header.size % 8 = 0
  /\ header.size <= bytes - offset /\ header.flags = 0

CommandOk(header) == header.opcode = NOP /\ header.size = HeaderBytes

Truncated ==
  /\ pc = "loop" /\ offset < bytes /\ ShortTail
  /\ Finish("invalid")
  /\ UNCHANGED <<buffer, bytes>>

Unframed ==
  /\ Reading /\ ~Framed(Header)
  /\ Finish("invalid")
  /\ UNCHANGED <<buffer, bytes>>

Unsupported ==
  /\ Reading /\ Framed(Header) /\ Header.opcode # NOP
  /\ Finish("unsupported")
  /\ UNCHANGED <<buffer, bytes>>

WrongSize ==
  /\ Reading /\ Framed(Header) /\ Header.opcode = NOP /\ ~CommandOk(Header)
  /\ Finish("invalid")
  /\ UNCHANGED <<buffer, bytes>>

Command ==
  /\ Reading /\ Framed(Header) /\ CommandOk(Header)
  /\ offset' = offset + Header.size /\ count' = count + 1
  /\ UNCHANGED <<buffer, bytes, pc, result>>

EndOfBuffer ==
  /\ pc = "loop" /\ offset >= bytes
  /\ Finish(IF count = 0 THEN "invalid" ELSE "ok")
  /\ UNCHANGED <<buffer, bytes>>

Next == \/ CheckSize \/ Truncated \/ Unframed \/ Unsupported \/ WrongSize
        \/ Command \/ EndOfBuffer

Spec == Init /\ [][Next]_vars

------------------------------------------------------------------------------
(* Properties                                                              *)

(* The reference: n commands, each a NOP of one header without flags, and  *)
(* nothing else.                                                           *)
IsNop(header) ==
  header.opcode = NOP /\ header.size = HeaderBytes /\ header.flags = 0
WellFormed(n) ==
  bytes = n * HeaderBytes /\ \A i \in 1 .. n : IsNop(buffer[i])

(* The walk stays inside the size the user gave, one header at a time,     *)
(* accepts what the reference accepts, and counts the commands the device  *)
(* will be held to in grape_gpu_submit_work.                               *)
AcceptsWellFormed ==
  /\ offset = count * HeaderBytes /\ offset \in 0 .. bytes
  /\ pc = "done" =>
       /\ result = "ok" <=> count >= 1 /\ WellFormed(count)
       /\ result # "ok" => \A n \in 1 .. Words : ~WellFormed(n)

=============================================================================
