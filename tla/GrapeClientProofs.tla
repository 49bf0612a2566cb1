------------------------- MODULE GrapeClientProofs -------------------------
(***************************************************************************)
(* Theorems about the commands of GrapeClient, for every number of chunks, *)
(* attempts, damaged chunks, failing requests and streamed frames, and for *)
(* displays and screenshots of every size: type correctness, that an       *)
(* upload that succeeds is exact and how much damage its retries cover,    *)
(* what a command leaves on the device, that it destroys nothing twice,    *)
(* and that every screenshot becomes a whole frame.                        *)
(*                                                                         *)
(* RetriesCoverDamage speaks of the end only.  What makes it true is that  *)
(* every commit made and every bad chunk that is not about to be sent      *)
(* again cost a damaged transfer of its own (Accounting).                  *)
(*                                                                         *)
(* What a command leaves is decided by its script.  A stage says what the  *)
(* client holds between two calls, and Fits what a call needs of it: what  *)
(* its failure destroys is held, once each, and little else is.  Each      *)
(* script leads from what the command is given to what it prints           *)
(* (ScriptsLead); a stream does so for any number of frames, by the first  *)
(* number that would not.  OnCourse says that a running command is on such *)
(* a way, WayOut what is left to do and accounted for once it gives up.    *)
(***************************************************************************)
EXTENDS GrapeClient, FiniteSetTheorems, SequenceTheorems,
        WellFoundedInduction, TLAPS

------------------------------------------------------------------------------
(* The upload                                                              *)

Bad == {c \in Chunks : chunk[c] # "good"}

\* An upload has no result before it is over, and one when it is.
Outcome ==
  /\ pc \in {"idle", "create", "send", "commit"} => result = "none"
  /\ pc \in {"destroy", "done"} => result # "none"
  /\ result = "ok" => pc = "done"
  /\ pc = "commit" => attempt < MaxAttempts /\ left = {}

Accounting ==
  pc \in {"idle", "create", "send", "commit"} =>
    damage >= attempt + Cardinality(Bad \ left)

Inductive == /\ TypeOK /\ Outcome /\ Accounting
             /\ UploadedIsExact /\ RetriesCoverDamage

UploadNext == Start \/ Step \/ Finish

------------------------------------------------------------------------------
\* Sets of chunks are finite.
LEMMA ChunkSets ==
  ASSUME NEW S \in SUBSET Chunks
  PROVE  /\ IsFiniteSet(S) /\ Cardinality(S) \in Nat
         /\ \A T \in SUBSET S : /\ IsFiniteSet(T) /\ Cardinality(T) \in Nat
                                /\ Cardinality(T) <= Cardinality(S)
         /\ \A T \in SUBSET S : T # S => Cardinality(T) + 1 <= Cardinality(S)
<1>1. 1 \in Int /\ ChunkCount \in Int
  BY CountsAssumption
<1>2. IsFiniteSet(Chunks)
  BY <1>1, FS_Interval DEF Chunks
<1>3. \A T \in SUBSET Chunks : IsFiniteSet(T) /\ Cardinality(T) \in Nat
  BY <1>2, FS_Subset, FS_CardinalityType
<1>4. ASSUME NEW T \in SUBSET S
      PROVE  /\ IsFiniteSet(T) /\ Cardinality(T) \in Nat
             /\ Cardinality(T) <= Cardinality(S)
             /\ T # S => Cardinality(T) + 1 <= Cardinality(S)
  <2>1. /\ Cardinality(T) <= Cardinality(S)
        /\ T # S => Cardinality(T) < Cardinality(S)
    BY <1>3, FS_Subset
  <2> QED  BY <1>3, <2>1
<1> QED  BY <1>3, <1>4

\* The types of an upload, step by step.
LEMMA TypeStep ==
  ASSUME TypeOK, Outcome, UploadNext
  PROVE  TypeOK'
<1>1. CASE Start
  <2>1. pc' = "create" /\ UNCHANGED <<call, counters>>
    BY <1>1 DEF Start
  <2>2. unknown' \in BOOLEAN
    BY <2>1, Zenon DEF TypeOK, call
  <2>3. /\ pc' = "create"
        /\ UNCHANGED <<left, attempt, result, resource, chunk, damage, faults>>
    BY <2>1 DEF call, counters
  <2> QED  BY <2>2, <2>3 DEF TypeOK
<1>2. CASE Create \/ CreateFails \/ CreateRefused \/ CreateWrongCount
  <2>1. /\ faults' \in 0 .. MaxFaults /\ damage' = damage
    BY <1>2, CountsAssumption
       DEF TypeOK, Create, CreateFails, CreateRefused, CreateWrongCount, Fault,
           counters
  <2>2. /\ UNCHANGED <<left, attempt, chunk>>
        /\ resource' \in {"none", "open", "committed", "destroyed"}
    BY <1>2 DEF TypeOK, Create, CreateFails, CreateRefused, CreateWrongCount
  <2>3. unknown' \in BOOLEAN
    BY <1>2, Zenon
       DEF TypeOK, Create, CreateFails, CreateRefused, CreateWrongCount
  <2>4. \/ pc' = "send" /\ result' = result
        \/ pc' \in {"destroy", "done"} /\ result' \in Results
    BY <1>2 DEF Create, CreateFails, CreateRefused, CreateWrongCount, GiveUp,
                Results
  <2>5. "none" \notin Results
    BY DEF Results
  <2> QED  BY <2>1, <2>2, <2>3, <2>4, <2>5 DEF TypeOK
<1>3. CASE SendChunk
  <2>1. /\ chunk' \in [Chunks -> {"missing", "corrupt", "wrong", "good"}]
        /\ left' \subseteq Chunks
    BY <1>3 DEF TypeOK, SendChunk
  <2>2. damage' \in 0 .. MaxDamage
    <3>1. \/ damage' = damage
          \/ damage < MaxDamage /\ damage' = damage + 1
      BY <1>3 DEF SendChunk
    <3> QED  BY <3>1, CountsAssumption DEF TypeOK
  <2> QED  BY <1>3, <2>1, <2>2 DEF TypeOK, SendChunk
<1>4. CASE SendFails \/ SendDone
  BY <1>4, CountsAssumption
     DEF TypeOK, SendFails, SendDone, Fault, GiveUp, counters, Results
<1>5. CASE CommitOk \/ CommitIncomplete \/ CommitMismatch
  <2>1. attempt' \in 0 .. MaxAttempts /\ left' \subseteq Chunks
    <3>1. attempt < MaxAttempts /\ attempt' = attempt + 1
      BY <1>5 DEF Outcome, CommitOk, CommitIncomplete, CommitMismatch
    <3>2. left' \subseteq Chunks
      BY <1>5 DEF TypeOK, CommitOk, CommitIncomplete, CommitMismatch, NextRound,
                  Reported
    <3> QED  BY <3>1, <3>2, CountsAssumption DEF TypeOK
  <2> QED  BY <1>5, <2>1
           DEF TypeOK, CommitOk, CommitIncomplete, CommitMismatch, NextRound,
               counters, Results
<1>6. CASE CommitCutOff \/ CommitRefused
  <2>1. attempt' \in 0 .. MaxAttempts
    <3>1. attempt < MaxAttempts /\ attempt' = attempt + 1
      BY <1>6 DEF Outcome, CommitCutOff, CommitRefused
    <3> QED  BY <3>1, CountsAssumption DEF TypeOK
  <2>2. /\ resource' \in {"none", "open", "committed", "destroyed"}
        /\ faults' \in 0 .. MaxFaults
        /\ pc' = "destroy" /\ result' \in Results
    BY <1>6, CountsAssumption
       DEF TypeOK, CommitCutOff, CommitRefused, Fault, GiveUp, Results
  <2> QED  BY <1>6, <2>1, <2>2
           DEF TypeOK, CommitCutOff, CommitRefused, Fault
<1>7. CASE Destroy
  <2>1. result # "none"
    BY <1>7 DEF Destroy, Outcome
  <2>2. unknown' \in BOOLEAN
    BY <1>7, Zenon DEF TypeOK, Destroy
  <2>3. faults' \in 0 .. MaxFaults /\ damage' = damage
    BY <1>7, CountsAssumption DEF TypeOK, Destroy, Fault, counters
  <2>4. /\ pc' = "done" /\ UNCHANGED <<left, attempt, result, chunk>>
        /\ resource' \in {"none", "open", "committed", "destroyed"}
    BY <1>7 DEF TypeOK, Destroy
  <2> QED  BY <2>1, <2>2, <2>3, <2>4 DEF TypeOK
<1>8. CASE Finish
  <2>1. /\ pc' = "idle" /\ left' = Chunks /\ attempt' = 0 /\ result' = "none"
        /\ resource' = "none" /\ chunk' = [c \in Chunks |-> "missing"]
        /\ unknown' \in BOOLEAN /\ damage' = damage /\ faults' = faults
    BY <1>8 DEF Finish, counters
  <2> QED  BY <2>1, CountsAssumption DEF TypeOK
<1> QED  BY <1>1, <1>2, <1>3, <1>4, <1>5, <1>6, <1>7, <1>8 DEF UploadNext, Step

\* The result of an upload, step by step.
LEMMA OutcomeStep ==
  ASSUME TypeOK, Outcome, UploadNext
  PROVE  Outcome'
<1>1. CASE Start \/ Finish
  BY <1>1 DEF Outcome, Start, Finish, call
<1>2. CASE Create \/ CreateFails \/ CreateRefused \/ CreateWrongCount
  BY <1>2 DEF Outcome, Create, CreateFails, CreateRefused, CreateWrongCount,
              GiveUp
<1>3. CASE SendChunk \/ SendFails \/ SendDone
  BY <1>3 DEF Outcome, SendChunk, SendFails, SendDone, GiveUp
<1>4. CASE CommitOk \/ CommitIncomplete \/ CommitMismatch
  BY <1>4 DEF Outcome, CommitOk, CommitIncomplete, CommitMismatch, NextRound
<1>5. CASE CommitCutOff \/ CommitRefused \/ Destroy
  BY <1>5 DEF Outcome, CommitCutOff, CommitRefused, Destroy, GiveUp
<1> QED  BY <1>1, <1>2, <1>3, <1>4, <1>5 DEF UploadNext, Step

\* A chunk is sent: it is intact, or it cost one more damaged transfer.
LEMMA SendAccounting ==
  ASSUME TypeOK, Accounting, SendChunk
  PROVE  Accounting'
<1>1. PICK c : /\ left' = left \ {c}
               /\ \/ /\ chunk' = [chunk EXCEPT ![c] = "good"]
                     /\ damage' = damage
                  \/ /\ damage' = damage + 1
                     /\ \/ chunk' = chunk
                        \/ \E bad \in {"corrupt", "wrong"} :
                             chunk' = [chunk EXCEPT ![c] = bad]
  BY DEF SendChunk
<1>2. /\ pc' = pc /\ pc = "send" /\ attempt' = attempt
      /\ chunk \in [Chunks -> {"missing", "corrupt", "wrong", "good"}]
      /\ damage \in Nat /\ attempt \in Nat
  BY CountsAssumption DEF SendChunk, TypeOK
<1>3. Bad \ left \in SUBSET Chunks /\ Bad' \ left' \in SUBSET Chunks
  BY DEF Bad
<1>4. /\ Cardinality(Bad \ left) \in Nat /\ IsFiniteSet(Bad \ left)
      /\ Cardinality(Bad' \ left') \in Nat
  BY <1>3, ChunkSets
<1>5. damage >= attempt + Cardinality(Bad \ left)
  BY <1>2 DEF Accounting
<1>6. CASE chunk' = [chunk EXCEPT ![c] = "good"] /\ damage' = damage
  <2>1. Bad' \ left' \subseteq Bad \ left
    BY <1>1, <1>2, <1>6 DEF Bad
  <2>2. Cardinality(Bad' \ left') <= Cardinality(Bad \ left)
    BY <1>3, <2>1, ChunkSets
  <2> QED  BY <1>2, <1>4, <1>5, <1>6, <2>2 DEF Accounting
<1>7. CASE damage' = damage + 1
  <2>1. Bad' \ left' \subseteq (Bad \ left) \cup {c}
    BY <1>1, <1>2, <1>7 DEF Bad
  <2>2. /\ IsFiniteSet((Bad \ left) \cup {c})
        /\ Cardinality((Bad \ left) \cup {c}) =
             IF c \in Bad \ left THEN Cardinality(Bad \ left)
                                 ELSE Cardinality(Bad \ left) + 1
    BY <1>4, FS_AddElement, Zenon
  <2>3. Cardinality(Bad' \ left') <= Cardinality((Bad \ left) \cup {c})
    BY <2>1, <2>2, FS_Subset
  <2> QED  BY <1>2, <1>4, <1>5, <1>7, <2>2, <2>3 DEF Accounting
<1> QED  BY <1>1, <1>6, <1>7

\* A commit that fails finds a bad chunk, which is sent again.
LEMMA CommitAccounting ==
  ASSUME TypeOK, Outcome, Accounting, CommitIncomplete \/ CommitMismatch
  PROVE  Accounting'
<1>1. /\ pc = "commit" /\ left = {} /\ attempt' = attempt + 1
      /\ UNCHANGED <<chunk, damage>> /\ Bad' = Bad
      /\ damage \in Nat /\ attempt \in Nat
  BY CountsAssumption
     DEF Outcome, TypeOK, CommitIncomplete, CommitMismatch, counters, Bad
<1>2. damage >= attempt + Cardinality(Bad)
  <2>1. Bad \ left = Bad
    BY <1>1
  <2> QED  BY <1>1, <2>1 DEF Accounting
<1>3. \E c \in Chunks : c \in Bad /\ c \in left'
  <2>1. CASE CommitIncomplete
    BY <2>1 DEF CommitIncomplete, CommitStatus, NextRound, Reported, Bad
  <2>2. CASE CommitMismatch
    BY <2>2 DEF CommitMismatch, CommitStatus, NextRound, Bad
  <2> QED  BY <2>1, <2>2
<1>4. Bad \in SUBSET Chunks /\ Bad \ left' \in SUBSET Bad /\ Bad \ left' # Bad
  BY <1>3 DEF Bad
<1>5. /\ Cardinality(Bad \ left') + 1 <= Cardinality(Bad)
      /\ Cardinality(Bad) \in Nat /\ Cardinality(Bad \ left') \in Nat
  BY <1>4, ChunkSets
<1> QED  BY <1>1, <1>2, <1>5 DEF Accounting

\* The account of the damage, step by step.
LEMMA AccountingStep ==
  ASSUME TypeOK, Outcome, Accounting, UploadNext
  PROVE  Accounting'
<1>0. damage \in Nat /\ attempt \in Nat
  BY CountsAssumption DEF TypeOK
<1>1. CASE Start \/ Create \/ SendDone
  <2>1. UNCHANGED <<left, attempt, chunk, damage>>
    BY <1>1 DEF Start, Create, SendDone, call, counters
  <2>2. Bad' = Bad
    BY <2>1 DEF Bad
  <2>3. pc \in {"idle", "create", "send", "commit"}
    BY <1>1 DEF Start, Create, SendDone
  <2> QED  BY <2>1, <2>2, <2>3 DEF Accounting
<1>2. CASE \/ CreateFails \/ CreateRefused \/ CreateWrongCount \/ SendFails
           \/ CommitOk \/ CommitCutOff \/ CommitRefused \/ Destroy
  BY <1>2 DEF CreateFails, CreateRefused, CreateWrongCount, SendFails, CommitOk,
              CommitCutOff, CommitRefused, Destroy, GiveUp, Accounting
<1>3. CASE Finish
  <2>1. Bad' \ left' = {} /\ attempt' = 0 /\ damage' = damage
    BY <1>3 DEF Finish, Bad, counters
  <2> QED  BY <1>0, <2>1, FS_EmptySet DEF Accounting
<1> QED  BY <1>1, <1>2, <1>3, SendAccounting, CommitAccounting
         DEF UploadNext, Step

\* All of it together, and where it begins.
LEMMA InductiveStep ==
  ASSUME Inductive, [UploadNext]_vars
  PROVE  Inductive'
<1>0. TypeOK /\ Outcome /\ Accounting /\ UploadedIsExact /\ RetriesCoverDamage
  BY DEF Inductive
<1>1. CASE UNCHANGED vars
  <2>1. Bad' = Bad
    BY <1>1 DEF vars, call, Bad
  <2> QED  BY <1>0, <1>1, <2>1
           DEF vars, call, counters, Inductive, TypeOK, Outcome, Accounting,
               UploadedIsExact, RetriesCoverDamage
<1>2. CASE UploadNext
  <2>1. TypeOK' /\ Outcome' /\ Accounting'
    BY <1>0, <1>2, TypeStep, OutcomeStep, AccountingStep
  <2>2. UploadedIsExact'
    <3>1. CASE CommitOk
      <4>1. \A c \in Chunks :
              chunk[c] \in {"missing", "corrupt", "wrong", "good"}
        BY <1>0 DEF TypeOK
      <4>2. \A c \in Chunks : chunk[c] = "good"
        BY <3>1, <4>1 DEF CommitOk, CommitStatus, Reported
      <4> QED  BY <3>1, <4>2 DEF CommitOk, UploadedIsExact
    <3>2. CASE ~CommitOk
      <4>1. result' # "ok"
        BY <1>0, <1>2, <3>2
           DEF Outcome, UploadNext, Start, Step, Create, CreateFails,
               CreateRefused, CreateWrongCount, SendChunk, SendFails, SendDone,
               CommitIncomplete, CommitMismatch, NextRound, CommitCutOff,
               CommitRefused, Destroy, Finish, GiveUp, call
      <4> QED  BY <4>1 DEF UploadedIsExact
    <3> QED  BY <3>1, <3>2
  <2>3. RetriesCoverDamage'
    <3>1. CASE SendDone
      <4>1. ASSUME result' = "retry_limit"  PROVE damage' >= MaxAttempts
        <5>1. /\ pc = "send" /\ left = {} /\ attempt = MaxAttempts
              /\ damage' = damage
          BY <1>0, <3>1, <4>1, CountsAssumption
             DEF SendDone, Outcome, TypeOK, counters
        <5>2. Cardinality(Bad \ left) \in Nat
          <6>1. Bad \ left \in SUBSET Chunks
            BY DEF Bad
          <6> QED  BY <6>1, ChunkSets
        <5>3. damage >= attempt + Cardinality(Bad \ left)
          BY <1>0, <5>1 DEF Accounting
        <5> QED  BY <1>0, <5>1, <5>2, <5>3, CountsAssumption DEF TypeOK
      <4> QED  BY <4>1 DEF RetriesCoverDamage
    <3>2. CASE ~SendDone
      <4>1. result' = "retry_limit" => result = "retry_limit"
        BY <1>2, <3>2
           DEF UploadNext, Start, Step, Create, CreateFails,
               CreateRefused, CreateWrongCount, SendChunk, SendFails, CommitOk,
               CommitIncomplete, CommitMismatch, NextRound, CommitCutOff,
               CommitRefused, Destroy, Finish, GiveUp, call
      <4>2. damage' = damage \/ damage' = damage + 1
        BY <1>2
           DEF UploadNext, Start, Step, Create, CreateFails,
               CreateRefused, CreateWrongCount, SendChunk, SendFails, SendDone,
               CommitOk, CommitIncomplete, CommitMismatch, CommitCutOff,
               CommitRefused, Destroy, Finish, Fault, counters
      <4>3. damage \in Nat
        BY <1>0, CountsAssumption DEF TypeOK
      <4> QED  BY <1>0, <4>1, <4>2, <4>3, CountsAssumption
               DEF RetriesCoverDamage
    <3> QED  BY <3>1, <3>2
  <2> QED  BY <2>1, <2>2, <2>3 DEF Inductive
<1> QED  BY <1>1, <1>2

LEMMA InductiveInit == Init => Inductive
<1> SUFFICES ASSUME Init  PROVE Inductive
  OBVIOUS
<1>1. Bad \ left = {} /\ damage = 0 /\ attempt = 0
  BY DEF Init, Bad
<1>2. TypeOK
  <2>1. /\ pc = "idle" /\ left = Chunks /\ attempt = 0 /\ result = "none"
        /\ resource = "none" /\ chunk = [c \in Chunks |-> "missing"]
        /\ unknown \in BOOLEAN /\ damage = 0 /\ faults = 0
    BY DEF Init
  <2> QED  BY <2>1, CountsAssumption DEF TypeOK
<1>3. Accounting
  BY <1>1, FS_EmptySet DEF Accounting
<1>4. Outcome /\ UploadedIsExact /\ RetriesCoverDamage
  BY DEF Init, Outcome, UploadedIsExact, RetriesCoverDamage
<1> QED  BY <1>2, <1>3, <1>4 DEF Inductive

\* Whatever the commands do, the upload takes steps of its own only.
LEMMA ClientUploads ==
  ASSUME [ClientNext]_<<vars, clientVars>>
  PROVE  [UploadNext]_vars
  BY DEF ClientNext, UploadNext, UploadStarts, UploadSteps, UploadSucceeds,
         UploadFails, vars

\* So it holds throughout the commands.
LEMMA InductiveInvariant == ClientSpec => []Inductive
<1>1. ClientInit => Inductive
  BY InductiveInit DEF ClientInit
<1>2. Inductive /\ [ClientNext]_<<vars, clientVars>> => Inductive'
  BY InductiveStep, ClientUploads
<1> QED  BY <1>1, <1>2, PTL DEF ClientSpec

------------------------------------------------------------------------------
(* Calls and stages                                                        *)

Ops   == {"upload", "make", "consume", "drop", "ask", "capture", "leave"}
Calls == [op : Ops, kind : Kinds \cup {"none"}, undo : Seq(Kinds)]

\* What the client holds between two calls: the kinds of its objects, and
\* which of them are the newest object of all and the one before it.
Stages == [held : SUBSET Kinds, newest : Kinds \cup {"none", "left"},
           before : Kinds \cup {"none", "left"}]

Gains(a, kind) ==
  [held   |-> a.held \cup {kind}, newest |-> kind,
   before |-> IF a.newest = kind THEN "none" ELSE a.newest]
Loses(a, kind) == [a EXCEPT !.held = a.held \ {kind}]
Left == [held |-> {}, newest |-> "left", before |-> "none"]

After(c, a) ==
  CASE c.op \in {"upload", "make"} -> Gains(a, c.kind)
    [] c.op = "consume"            -> Gains(Loses(a, "resource"), c.kind)
    [] c.op = "drop"               -> Loses(a, c.kind)
    [] c.op = "leave"              -> Left
    [] OTHER                       -> a

\* What a call that fails leaves in nobody's hands.
Kept(c, a) ==
  {k \in a.held : /\ \A i \in DOMAIN c.undo : c.undo[i] # k
                  /\ c.op = "drop" => c.kind # k}

Fits(cmd, c, a) ==
  /\ a.newest # "left"
  /\ \A i \in DOMAIN c.undo : c.undo[i] \in a.held
  /\ \A i, j \in DOMAIN c.undo : c.undo[i] = c.undo[j] => i = j
  /\ c.op \in {"upload", "make", "consume"} => c.kind \in Kinds \ a.held
  /\ c.op = "upload" => c.kind = "resource"
  /\ c.op = "consume" => "resource" \in a.held
  /\ c.op = "drop" => /\ c.kind \in a.held
                      /\ \A i \in DOMAIN c.undo : c.undo[i] # c.kind
  /\ c.op = "leave" => cmd \in {"stream", "smoke"}
  /\ c.op = "capture" /\ c.undo # <<>> => cmd = "stream"
  /\ \/ Kept(c, a) = {}
     \/ /\ cmd \in {"svg", "rect", "change"}
        /\ Kept(c, a) \subseteq {"svg", "surface"}
     \/ /\ c.op = "drop" /\ c.kind \in {"resource", "path"}
        /\ c.kind = a.before /\ a.newest # "resource"
        /\ Kept(c, a) = {a.newest}

\* The calls of s find what they need and lead from a to b.
Leads(cmd, s, a, b) ==
  /\ s \in Seq(Calls) /\ a \in Stages /\ b \in Stages
  /\ \E h \in [1 .. Len(s) + 1 -> Stages] :
       /\ h[1] = a /\ h[Len(s) + 1] = b
       /\ \A i \in 1 .. Len(s) : /\ Fits(cmd, s[i], h[i])
                                 /\ h[i + 1] = After(s[i], h[i])

\* No calls lead nowhere.
LEMMA LeadsNone == \A cmd, a : a \in Stages => Leads(cmd, <<>>, a, a)
<1> SUFFICES ASSUME NEW cmd, NEW a \in Stages  PROVE Leads(cmd, <<>>, a, a)
  OBVIOUS
<1> DEFINE h == [i \in 1 .. 1 |-> a]
<1>1. <<>> \in Seq(Calls) /\ Len(<<>>) = 0
  BY EmptySeq
<1>2. h \in [1 .. Len(<<>>) + 1 -> Stages] /\ h[1] = a
      /\ h[Len(<<>>) + 1] = a /\ 1 .. Len(<<>>) = {}
  BY <1>1
<1> QED  BY <1>1, <1>2 DEF Leads

\* After a call that fits there is a stage again.
LEMMA AfterStage ==
  ASSUME NEW cmd, NEW c \in Calls, NEW a \in Stages, Fits(cmd, c, a)
  PROVE  After(c, a) \in Stages
<1>1. /\ c.op \in Ops /\ a.held \subseteq Kinds
      /\ a.newest \in Kinds \cup {"none", "left"}
      /\ a.before \in Kinds \cup {"none", "left"}
      /\ c.op \in {"upload", "make", "consume"} => c.kind \in Kinds
  BY DEF Calls, Stages, Fits
<1>2. CASE c.op \in {"upload", "make", "consume"}
  BY <1>1, <1>2 DEF After, Stages, Gains, Loses
<1>3. CASE c.op \in {"drop", "leave", "ask", "capture"}
  BY <1>1, <1>3 DEF After, Stages, Loses, Left
<1> QED  BY <1>1, <1>2, <1>3 DEF Ops

\* A call that fits leads to what it says.
LEMMA LeadsOne ==
  ASSUME NEW cmd, NEW c \in Calls, NEW a \in Stages, Fits(cmd, c, a)
  PROVE  Leads(cmd, <<c>>, a, After(c, a))
<1> DEFINE s == <<c>>
           h == [i \in 1 .. 2 |-> IF i = 1 THEN a ELSE After(c, a)]
<1>1. s \in Seq(Calls) /\ Len(s) = 1 /\ s[1] = c
  OBVIOUS
<1>2. After(c, a) \in Stages
  BY AfterStage
<1>3. h \in [1 .. Len(s) + 1 -> Stages] /\ h[1] = a /\ h[2] = After(c, a)
      /\ Len(s) + 1 = 2 /\ 1 .. Len(s) = {1} /\ 1 + 1 = 2
  BY <1>1, <1>2
<1> HIDE DEF s, h
<1>4. Leads(cmd, s, a, After(c, a))
  BY <1>1, <1>2, <1>3 DEF Leads
<1> QED  BY <1>4 DEF s

\* One way after another is a way.
LEMMA LeadsConcat ==
  ASSUME NEW cmd, NEW s, NEW t, NEW a, NEW b, NEW c,
         Leads(cmd, s, a, b), Leads(cmd, t, b, c)
  PROVE  Leads(cmd, s \o t, a, c)
<1>1. s \in Seq(Calls) /\ t \in Seq(Calls) /\ a \in Stages /\ c \in Stages
  BY DEF Leads
<1> DEFINE m == Len(s)
           n == Len(t)
           u == s \o t
<1>2. m \in Nat /\ n \in Nat
  BY <1>1, LenProperties
<1>3. u \in Seq(Calls) /\ Len(u) = m + n
      /\ \A i \in 1 .. m + n : u[i] = IF i <= m THEN s[i] ELSE t[i - m]
  BY <1>1, ConcatProperties
<1>4. PICK h \in [1 .. m + 1 -> Stages] :
             /\ h[1] = a /\ h[m + 1] = b
             /\ \A i \in 1 .. m : /\ Fits(cmd, s[i], h[i])
                                  /\ h[i + 1] = After(s[i], h[i])
  BY DEF Leads
<1>5. PICK g \in [1 .. n + 1 -> Stages] :
             /\ g[1] = b /\ g[n + 1] = c
             /\ \A i \in 1 .. n : /\ Fits(cmd, t[i], g[i])
                                  /\ g[i + 1] = After(t[i], g[i])
  BY DEF Leads
<1> HIDE DEF m, n, u
<1> DEFINE f == [i \in 1 .. m + n + 1 |->
                   IF i <= m + 1 THEN h[i] ELSE g[i - m]]
<1>6. f \in [1 .. m + n + 1 -> Stages]
  BY <1>2, <1>4, <1>5
<1>7. f[1] = a /\ f[m + n + 1] = c
  BY <1>2, <1>4, <1>5
<1>8. \A i \in 1 .. m + n : f[i] = (IF i <= m THEN h[i] ELSE g[i - m])
  BY <1>2, <1>4, <1>5
<1>9. \A i \in 1 .. m + n :
         f[i + 1] = (IF i <= m THEN h[i + 1] ELSE g[i - m + 1])
  BY <1>2, <1>4, <1>5
<1> HIDE DEF f
<1>10. ASSUME NEW i \in 1 .. m + n
       PROVE  Fits(cmd, u[i], f[i]) /\ f[i + 1] = After(u[i], f[i])
  <2>1. CASE i <= m
    <3>1. i \in 1 .. m
      BY <1>2, <2>1
    <3> QED  BY <1>3, <1>4, <1>8, <1>9, <2>1, <3>1
  <2>2. CASE ~(i <= m)
    <3>1. i - m \in 1 .. n /\ i - m + 1 = (i - m) + 1
      BY <1>2, <2>2
    <3>2. u[i] = t[i - m] /\ f[i] = g[i - m] /\ f[i + 1] = g[(i - m) + 1]
      BY <1>3, <1>8, <1>9, <2>2, <3>1
    <3> QED  BY <1>5, <3>1, <3>2
  <2> QED  BY <2>1, <2>2
<1> QED  BY <1>1, <1>3, <1>6, <1>7, <1>10 DEF Leads, u

\* The first call of the rest fits, and the others go on from there.
LEMMA LeadsHead ==
  ASSUME NEW cmd, NEW s, NEW a, NEW b, Leads(cmd, s, a, b), s # <<>>
  PROVE  /\ Head(s) \in Calls /\ Fits(cmd, Head(s), a)
         /\ Leads(cmd, Tail(s), After(Head(s), a), b)
<1>1. s \in Seq(Calls) /\ a \in Stages /\ b \in Stages
  BY DEF Leads
<1> DEFINE m == Len(s)
<1>2. /\ Head(s) = s[1] /\ Head(s) \in Calls /\ Tail(s) \in Seq(Calls)
      /\ Len(Tail(s)) = m - 1 /\ m \in Nat \ {0}
      /\ \A i \in 1 .. m - 1 : Tail(s)[i] = s[i + 1]
  BY <1>1, HeadTailProperties, EmptySeq
<1>3. PICK h \in [1 .. m + 1 -> Stages] :
             /\ h[1] = a /\ h[m + 1] = b
             /\ \A i \in 1 .. m : /\ Fits(cmd, s[i], h[i])
                                  /\ h[i + 1] = After(s[i], h[i])
  BY DEF Leads
<1>4. Fits(cmd, Head(s), a) /\ h[2] = After(Head(s), a) /\ h[2] \in Stages
  BY <1>2, <1>3
<1> HIDE DEF m
<1> DEFINE g == [i \in 1 .. m |-> h[i + 1]]
<1>5. g \in [1 .. m -> Stages] /\ g[1] = h[2] /\ g[m] = b
  BY <1>2, <1>3
<1>6. ASSUME NEW i \in 1 .. m - 1
      PROVE  Fits(cmd, Tail(s)[i], g[i]) /\ g[i + 1] = After(Tail(s)[i], g[i])
  <2>1. i + 1 \in 1 .. m /\ i \in 1 .. m
    BY <1>2
  <2>2. g[i] = h[i + 1] /\ g[i + 1] = h[(i + 1) + 1] /\ Tail(s)[i] = s[i + 1]
    BY <1>2, <2>1
  <2> QED  BY <1>3, <2>1, <2>2
<1>7. m = Len(Tail(s)) + 1
  BY <1>2
<1> HIDE DEF g
<1>8. Leads(cmd, Tail(s), h[2], b)
  BY <1>1, <1>2, <1>4, <1>5, <1>6, <1>7 DEF Leads
<1> QED  BY <1>2, <1>4, <1>8

------------------------------------------------------------------------------
(* The scripts                                                             *)

\* The objects in H, each of them once.
Covers(undo, H) ==
  /\ undo \in Seq(Kinds) /\ \A i \in DOMAIN undo : undo[i] \in H
  /\ \A k \in H : \E i \in DOMAIN undo : undo[i] = k
  /\ \A i, j \in DOMAIN undo : undo[i] = undo[j] => i = j

\* No undo covers nothing, and one kind more covers it too.
LEMMA CoversNone == Covers(<<>>, {})
<1>1. <<>> \in Seq(Kinds) /\ DOMAIN <<>> = {}
  BY EmptySeq, LenProperties
<1> QED  BY <1>1 DEF Covers

\* One kind before others that do not have it.
LEMMA CoversMore ==
  ASSUME NEW k \in Kinds, NEW undo, NEW H, Covers(undo, H), k \notin H
  PROVE  Covers(<<k>> \o undo, H \cup {k})
<1> DEFINE s == <<k>>
           u == s \o undo
<1>1. undo \in Seq(Kinds) /\ s \in Seq(Kinds) /\ Len(s) = 1 /\ s[1] = k
      /\ DOMAIN undo = 1 .. Len(undo) /\ Len(undo) \in Nat
  BY LenProperties DEF Covers
<1> HIDE DEF s
<1>2. /\ u \in Seq(Kinds) /\ Len(u) = 1 + Len(undo)
      /\ \A i \in 1 .. 1 + Len(undo) : u[i] = IF i <= 1 THEN s[i]
                                              ELSE undo[i - 1]
  <2>1. /\ u \in Seq(Kinds) /\ Len(u) = Len(s) + Len(undo)
        /\ \A i \in 1 .. Len(s) + Len(undo) :
             u[i] = IF i <= Len(s) THEN s[i] ELSE undo[i - Len(s)]
    BY <1>1, ConcatProperties
  <2> QED  BY <1>1, <2>1
<1> HIDE DEF u
<1>3. /\ DOMAIN u = 1 .. 1 + Len(undo) /\ u[1] = k
      /\ \A i \in 2 .. 1 + Len(undo) : u[i] = undo[i - 1] /\ u[i] \in H
  <2>1. DOMAIN u = 1 .. 1 + Len(undo)
    BY <1>2, LenProperties
  <2>2. \A i \in 2 .. 1 + Len(undo) : /\ u[i] = undo[i - 1]
                                       /\ i - 1 \in 1 .. Len(undo)
    BY <1>1, <1>2
  <2>3. \A j \in 1 .. Len(undo) : undo[j] \in H
    BY <1>1 DEF Covers
  <2>4. u[1] = k
    BY <1>1, <1>2
  <2> QED  BY <2>1, <2>2, <2>3, <2>4
<1>4. \A j \in H \cup {k} : \E i \in DOMAIN u : u[i] = j
  <2>1. ASSUME NEW j \in H  PROVE \E i \in DOMAIN u : u[i] = j
    <3>1. PICK i \in 1 .. Len(undo) : undo[i] = j
      BY <1>1 DEF Covers
    <3>2. i + 1 \in 2 .. 1 + Len(undo) /\ i = (i + 1) - 1
      BY <1>1, <3>1
    <3>3. u[i + 1] = undo[(i + 1) - 1]
      BY <1>3, <3>2
    <3>4. u[i + 1] = j
      BY <3>1, <3>2, <3>3
    <3> QED  BY <1>1, <1>3, <3>2, <3>4
  <2> QED  BY <1>1, <1>3, <2>1
<1>5. ASSUME NEW i \in DOMAIN u, NEW j \in DOMAIN u, u[i] = u[j]  PROVE i = j
  <2>1. CASE i = 1 \/ j = 1
    BY <1>1, <1>3, <1>5, <2>1
  <2>2. CASE i # 1 /\ j # 1
    <3>1. i - 1 \in 1 .. Len(undo) /\ j - 1 \in 1 .. Len(undo)
          /\ u[i] = undo[i - 1] /\ u[j] = undo[j - 1]
      BY <1>1, <1>3, <2>2
    <3>2. undo[i - 1] = undo[j - 1]
      BY <1>5, <3>1
    <3>3. \A x, y \in 1 .. Len(undo) : undo[x] = undo[y] => x = y
      BY <1>1 DEF Covers
    <3>4. i - 1 = j - 1
      <4> HIDE DEF u
      <4> QED  BY <3>1, <3>2, <3>3
    <3>5. i \in Int /\ j \in Int
      BY <1>1, <1>3
    <3> QED  BY <3>4, <3>5
  <2> QED  BY <2>1, <2>2
<1>6. \A i \in DOMAIN u : u[i] \in H \cup {k}
  BY <1>1, <1>3
<1> QED  BY <1>2, <1>4, <1>5, <1>6 DEF Covers, u, s

\* One kind alone.
LEMMA CoversOne ==
  ASSUME NEW k \in Kinds  PROVE Covers(<<k>>, {k})
<1>1. <<k>> \in Seq(Kinds) /\ <<k>> \o <<>> = <<k>>
  BY ConcatEmptySeq
<1>2. Covers(<<k>> \o <<>>, {} \cup {k})
  BY CoversNone, CoversMore
<1>3. {} \cup {k} = {k}
  OBVIOUS
<1> QED  BY <1>1, <1>2, <1>3

\* A call whose failure undoes all that is held.
LEMMA FitsAll ==
  ASSUME NEW cmd, NEW op, NEW kind, NEW undo, NEW a \in Stages,
         a.newest # "left", op \in Ops, kind \in Kinds \cup {"none"},
         op # "drop", Covers(undo, a.held),
         op \in {"upload", "make", "consume"} => kind \in Kinds \ a.held,
         op = "upload" => kind = "resource",
         op = "consume" => "resource" \in a.held,
         op = "leave" => cmd \in {"stream", "smoke"},
         op = "capture" => cmd = "stream"
  PROVE  /\ Call(op, kind, undo) \in Calls
         /\ Fits(cmd, Call(op, kind, undo), a)
<1> DEFINE c == Call(op, kind, undo)
<1>1. c.op = op /\ c.kind = kind /\ c.undo = undo /\ c \in Calls
  BY DEF Call, Calls, Covers
<1> HIDE DEF c
<1>2. Kept(c, a) = {}
  BY <1>1 DEF Kept, Covers
<1>3. \A i \in DOMAIN undo : undo[i] \in a.held
  BY DEF Covers
<1>4. \A i, j \in DOMAIN undo : undo[i] = undo[j] => i = j
  BY DEF Covers
<1>5. Fits(cmd, c, a)
  BY <1>1, <1>2, <1>3, <1>4 DEF Fits
<1> QED  BY <1>1, <1>5 DEF c

\* A drop whose failure undoes all else.
LEMMA FitsDrop ==
  ASSUME NEW cmd, NEW kind, NEW undo, NEW a \in Stages, a.newest # "left",
         kind \in a.held, Covers(undo, a.held \ {kind})
  PROVE  /\ Call("drop", kind, undo) \in Calls
         /\ Fits(cmd, Call("drop", kind, undo), a)
<1> DEFINE c == Call("drop", kind, undo)
<1>1. c.op = "drop" /\ c.kind = kind /\ c.undo = undo /\ c \in Calls
  BY DEF Call, Calls, Covers, Stages, Ops
<1> HIDE DEF c
<1>2. Kept(c, a) = {}
  BY <1>1 DEF Kept, Covers
<1>3. \A i \in DOMAIN undo : undo[i] \in a.held /\ undo[i] # kind
  BY DEF Covers
<1>4. \A i, j \in DOMAIN undo : undo[i] = undo[j] => i = j
  BY DEF Covers
<1>5. Fits(cmd, c, a)
  BY <1>1, <1>2, <1>3, <1>4 DEF Fits
<1> QED  BY <1>1, <1>5 DEF c

Stage(held, newest, before) ==
  [held |-> held, newest |-> newest, before |-> before]

\* One call before others.
LEMMA CallsJoin ==
  ASSUME NEW S, NEW c \in S, NEW d \in S, NEW e \in S
  PROVE  <<c>> \o <<d>> = <<c, d>> /\ <<c>> \o <<d, e>> = <<c, d, e>>
<1>1. /\ <<c>> \in Seq(S) /\ <<d>> \in Seq(S) /\ <<d, e>> \in Seq(S)
      /\ <<c, d>> \in Seq(S) /\ <<c, d, e>> \in Seq(S)
      /\ Len(<<c>>) = 1 /\ Len(<<d>>) = 1 /\ Len(<<d, e>>) = 2
      /\ Len(<<c, d>>) = 2 /\ Len(<<c, d, e>>) = 3
  OBVIOUS
<1>2. <<c>> \o <<d>> = <<c, d>>
  <2> DEFINE s == <<c>>
             t == <<d>>
             u == <<c, d>>
  <2>1. s \in Seq(S) /\ t \in Seq(S) /\ Len(s) = 1 /\ Len(t) = 1
        /\ u \in Seq(S) /\ Len(u) = 2 /\ u[1] = s[1] /\ u[2] = t[1]
    OBVIOUS
  <2> HIDE DEF s, t, u
  <2>2. /\ s \o t \in Seq(S) /\ Len(s \o t) = Len(s) + Len(t)
        /\ \A i \in 1 .. Len(s) + Len(t) :
             (s \o t)[i] = IF i <= Len(s) THEN s[i] ELSE t[i - Len(s)]
    BY <2>1, ConcatProperties
  <2>3. Len(s \o t) = 2 /\ (s \o t)[1] = s[1] /\ (s \o t)[2] = t[1]
    BY <2>1, <2>2
  <2>4. s \o t = u
    BY <2>1, <2>2, <2>3, SeqEqual
  <2> QED  BY <2>4 DEF s, t, u
<1>3. <<c>> \o <<d, e>> = <<c, d, e>>
  <2> DEFINE s == <<c>>
             t == <<d, e>>
             u == <<c, d, e>>
  <2>1. s \in Seq(S) /\ t \in Seq(S) /\ Len(s) = 1 /\ Len(t) = 2
        /\ u \in Seq(S) /\ Len(u) = 3
        /\ u[1] = s[1] /\ u[2] = t[1] /\ u[3] = t[2]
    OBVIOUS
  <2> HIDE DEF s, t, u
  <2>2. /\ s \o t \in Seq(S) /\ Len(s \o t) = Len(s) + Len(t)
        /\ \A i \in 1 .. Len(s) + Len(t) :
             (s \o t)[i] = IF i <= Len(s) THEN s[i] ELSE t[i - Len(s)]
    BY <2>1, ConcatProperties
  <2>3. Len(s \o t) = 3 /\ (s \o t)[1] = s[1] /\ (s \o t)[2] = t[1]
        /\ (s \o t)[3] = t[2]
    BY <2>1, <2>2
  <2>4. s \o t = u
    BY <2>1, <2>2, <2>3, SeqEqual
  <2> QED  BY <2>4 DEF s, t, u
<1> QED  BY <1>2, <1>3

\* Two and three calls in a row.
LEMMA LeadsTwo ==
  ASSUME NEW cmd, NEW c \in Calls, NEW d \in Calls, NEW a \in Stages,
         Fits(cmd, c, a), Fits(cmd, d, After(c, a))
  PROVE  Leads(cmd, <<c, d>>, a, After(d, After(c, a)))
<1>1. After(c, a) \in Stages
  BY AfterStage
<1>2. Leads(cmd, <<c>>, a, After(c, a))
  BY LeadsOne
<1>3. Leads(cmd, <<d>>, After(c, a), After(d, After(c, a)))
  BY <1>1, LeadsOne
<1>4. Leads(cmd, <<c>> \o <<d>>, a, After(d, After(c, a)))
  BY <1>2, <1>3, LeadsConcat
<1>5. <<c>> \o <<d>> = <<c, d>>
  BY CallsJoin
<1> QED  BY <1>4, <1>5

\* And three.
LEMMA LeadsThree ==
  ASSUME NEW cmd, NEW c \in Calls, NEW d \in Calls, NEW e \in Calls,
         NEW a \in Stages, Fits(cmd, c, a), Fits(cmd, d, After(c, a)),
         Fits(cmd, e, After(d, After(c, a)))
  PROVE  Leads(cmd, <<c, d, e>>, a, After(e, After(d, After(c, a))))
<1>1. After(c, a) \in Stages
  BY AfterStage
<1>2. Leads(cmd, <<c>>, a, After(c, a))
  BY LeadsOne
<1>3. Leads(cmd, <<d, e>>, After(c, a), After(e, After(d, After(c, a))))
  BY <1>1, LeadsTwo
<1>4. Leads(cmd, <<c>> \o <<d, e>>, a, After(e, After(d, After(c, a))))
  BY <1>2, <1>3, LeadsConcat
<1>5. <<c>> \o <<d, e>> = <<c, d, e>>
  BY CallsJoin
<1> QED  BY <1>4, <1>5

\* A call is what its operator says, and leads to where it says.
LEMMA CallIs ==
  ASSUME NEW op, NEW kind, NEW undo, NEW a
  PROVE  /\ Call(op, kind, undo).op = op /\ Call(op, kind, undo).kind = kind
         /\ Call(op, kind, undo).undo = undo
         /\ op \in {"upload", "make"} =>
              After(Call(op, kind, undo), a) = Gains(a, kind)
         /\ op = "consume" =>
              After(Call(op, kind, undo), a) = Gains(Loses(a, "resource"), kind)
         /\ op = "drop" => After(Call(op, kind, undo), a) = Loses(a, kind)
         /\ op = "leave" => After(Call(op, kind, undo), a) = Left
         /\ op \in {"ask", "capture"} => After(Call(op, kind, undo), a) = a
  BY DEF Call, After

\* The calls that undo all that is held, one by one.
LEMMA UploadFits ==
  ASSUME NEW cmd, NEW undo, NEW a \in Stages, a.newest # "left",
         Covers(undo, a.held), "resource" \notin a.held
  PROVE  /\ Upload(undo) \in Calls /\ Fits(cmd, Upload(undo), a)
         /\ After(Upload(undo), a) = Gains(a, "resource")
         /\ Gains(a, "resource") \in Stages
<1>1. "resource" \in Kinds \ a.held /\ "upload" \in Ops
  BY DEF Kinds, Ops
<1>2. Upload(undo) \in Calls /\ Fits(cmd, Upload(undo), a)
  BY <1>1, FitsAll DEF Upload
<1>3. After(Upload(undo), a) = Gains(a, "resource")
  BY CallIs DEF Upload
<1> QED  BY <1>2, <1>3, AfterStage

\* An object is made while what is held is undone by a failure.
LEMMA MakeFits ==
  ASSUME NEW cmd, NEW kind \in Kinds, NEW undo, NEW a \in Stages,
         a.newest # "left", Covers(undo, a.held), kind \notin a.held
  PROVE  /\ Make(kind, undo) \in Calls /\ Fits(cmd, Make(kind, undo), a)
         /\ After(Make(kind, undo), a) = Gains(a, kind)
         /\ Gains(a, kind) \in Stages
<1>1. kind \in Kinds \ a.held /\ "make" \in Ops
  BY DEF Ops
<1>2. Make(kind, undo) \in Calls /\ Fits(cmd, Make(kind, undo), a)
  BY <1>1, FitsAll DEF Make
<1>3. After(Make(kind, undo), a) = Gains(a, kind)
  BY CallIs DEF Make
<1> QED  BY <1>2, <1>3, AfterStage

\* The resource goes into another object.
LEMMA ConsumeFits ==
  ASSUME NEW cmd, NEW kind \in Kinds, NEW undo, NEW a \in Stages,
         a.newest # "left", Covers(undo, a.held), kind \notin a.held,
         "resource" \in a.held
  PROVE  /\ Consume(kind, undo) \in Calls /\ Fits(cmd, Consume(kind, undo), a)
         /\ After(Consume(kind, undo), a) = Gains(Loses(a, "resource"), kind)
<1>1. kind \in Kinds \ a.held /\ "consume" \in Ops
  BY DEF Ops
<1>2. Consume(kind, undo) \in Calls /\ Fits(cmd, Consume(kind, undo), a)
  BY <1>1, FitsAll DEF Consume
<1>3. After(Consume(kind, undo), a) = Gains(Loses(a, "resource"), kind)
  BY CallIs DEF Consume
<1> QED  BY <1>2, <1>3

\* What only asks leaves the stage as it is.
LEMMA AskFits ==
  ASSUME NEW cmd, NEW undo, NEW a \in Stages, a.newest # "left",
         Covers(undo, a.held)
  PROVE  /\ Ask(undo) \in Calls /\ Fits(cmd, Ask(undo), a)
         /\ After(Ask(undo), a) = a
<1>1. "ask" \in Ops /\ "none" \in Kinds \cup {"none"}
  BY DEF Ops
<1>2. Ask(undo) \in Calls /\ Fits(cmd, Ask(undo), a)
  BY <1>1, FitsAll DEF Ask
<1>3. After(Ask(undo), a) = a
  BY CallIs DEF Ask
<1> QED  BY <1>2, <1>3

\* So does a screenshot; only a stream takes one holding something.
LEMMA CaptureFits ==
  ASSUME NEW undo, NEW a \in Stages, a.newest # "left", Covers(undo, a.held)
  PROVE  /\ Capture(undo) \in Calls /\ Fits("stream", Capture(undo), a)
         /\ After(Capture(undo), a) = a
<1>1. "capture" \in Ops /\ "none" \in Kinds \cup {"none"}
  BY DEF Ops
<1>2. Capture(undo) \in Calls /\ Fits("stream", Capture(undo), a)
  BY <1>1, FitsAll DEF Capture
<1>3. After(Capture(undo), a) = a
  BY CallIs DEF Capture
<1> QED  BY <1>2, <1>3

\* Leaving gives up all that is held.
LEMMA LeaveFits ==
  ASSUME NEW cmd \in {"stream", "smoke"}, NEW undo, NEW a \in Stages,
         a.newest # "left", Covers(undo, a.held)
  PROVE  /\ Leave(undo) \in Calls /\ Fits(cmd, Leave(undo), a)
         /\ After(Leave(undo), a) = Left
<1>1. "leave" \in Ops /\ "none" \in Kinds \cup {"none"}
  BY DEF Ops
<1>2. Leave(undo) \in Calls /\ Fits(cmd, Leave(undo), a)
  BY <1>1, FitsAll DEF Leave
<1>3. After(Leave(undo), a) = Left
  BY CallIs DEF Leave
<1> QED  BY <1>2, <1>3

\* A drop whose failure leaves nothing behind.
LEMMA DropFits ==
  ASSUME NEW cmd, NEW kind, NEW undo, NEW a \in Stages, a.newest # "left",
         kind \in a.held, Covers(undo, a.held \ {kind})
  PROVE  /\ Drop(kind, undo) \in Calls /\ Fits(cmd, Drop(kind, undo), a)
         /\ After(Drop(kind, undo), a) = Loses(a, kind)
<1>1. Drop(kind, undo) \in Calls /\ Fits(cmd, Drop(kind, undo), a)
  BY FitsDrop DEF Drop
<1>2. After(Drop(kind, undo), a) = Loses(a, kind)
  BY CallIs DEF Drop
<1> QED  BY <1>1, <1>2

\* FromResource ends with the object and without the resource.
LEMMA FromResourceLeads ==
  ASSUME NEW cmd, NEW kind \in Kinds \ {"resource"}, NEW undo,
         NEW a \in Stages, a.newest # "left", Covers(undo, a.held),
         kind \notin a.held, "resource" \notin a.held
  PROVE  Leads(cmd, FromResource(kind, undo), a,
               Stage(a.held \cup {kind}, kind, "resource"))
<1> DEFINE c == Upload(undo)
           d == Make(kind, <<"resource">> \o undo)
           e == Drop("resource", undo)
           a1 == Gains(a, "resource")
           a2 == Gains(a1, kind)
           a3 == Loses(a2, "resource")
<1>1. "resource" \in Kinds /\ "resource" \in Kinds \cup {"none"}
      /\ kind \in Kinds /\ a.held \subseteq Kinds
  BY DEF Kinds, Stages
<1>2. c \in Calls /\ Fits(cmd, c, a) /\ After(c, a) = a1
  BY UploadFits
<1>3. /\ a1 \in Stages /\ a1.newest = "resource"
      /\ a1.held = a.held \cup {"resource"}
  BY <1>1, <1>2, AfterStage DEF Gains
<1>4. Covers(<<"resource">> \o undo, a1.held)
  BY <1>1, <1>3, CoversMore
<1>5. d \in Calls /\ Fits(cmd, d, a1) /\ After(d, a1) = a2
  <2> HIDE DEF a1
  <2> QED  BY <1>1, <1>3, <1>4, MakeFits
<1>6. /\ a2 \in Stages /\ a2.newest = kind /\ a2.before = "resource"
      /\ a2.held = a.held \cup {"resource", kind}
  <2>1. a2 \in Stages
    BY <1>3, <1>5, AfterStage
  <2> QED  BY <1>3, <2>1 DEF Gains
<1> HIDE DEF a1, a2
\* The object that was made stays if the drop fails.
<1>7. e \in Calls /\ Fits(cmd, e, a2) /\ After(e, a2) = a3
  <2>1. /\ e \in Calls /\ e.op = "drop" /\ e.kind = "resource" /\ e.undo = undo
        /\ After(e, a2) = a3
    BY <1>1, CallIs DEF Drop, Call, Calls, Ops, Covers
  <2>2. Kept(e, a2) = {kind}
    BY <1>6, <2>1 DEF Kept, Covers
  <2>3. /\ \A i \in DOMAIN undo : undo[i] \in a.held
        /\ \A i, j \in DOMAIN undo : undo[i] = undo[j] => i = j
    BY DEF Covers
  <2>4. /\ \A i \in DOMAIN undo : undo[i] \in a2.held /\ undo[i] # "resource"
        /\ a2.newest # "left" /\ a2.newest # "resource"
    BY <1>6, <2>3 DEF Kinds
  <2> HIDE DEF e, a3
  <2> QED  BY <1>6, <2>1, <2>2, <2>3, <2>4 DEF Fits
<1>8. a3 = Stage(a.held \cup {kind}, kind, "resource")
  BY <1>6 DEF Loses, Stage, Stages
<1> HIDE DEF c, d, e, a3
<1>9. Leads(cmd, <<c, d, e>>, a, After(e, After(d, After(c, a))))
  BY <1>2, <1>3, <1>5, <1>6, <1>7, LeadsThree
<1> QED  BY <1>2, <1>5, <1>7, <1>8, <1>9 DEF FromResource, c, d, e

\* Setup ends with a surface.
LEMMA SetupLeads ==
  ASSUME NEW cmd, NEW undo, NEW a \in Stages, a.newest # "left",
         Covers(undo, a.held), "surface" \notin a.held
  PROVE  Leads(cmd, Setup(undo), a, Gains(a, "surface"))
<1> DEFINE c == Make("surface", undo)
           d == Ask(<<"surface">> \o undo)
           a1 == Gains(a, "surface")
<1>1. "surface" \in Kinds /\ a.held \subseteq Kinds
  BY DEF Kinds, Stages
<1>2. c \in Calls /\ Fits(cmd, c, a) /\ After(c, a) = a1
  BY <1>1, MakeFits
<1>3. a1 \in Stages /\ a1.newest # "left" /\ a1.held = a.held \cup {"surface"}
  BY <1>1, <1>2, AfterStage DEF Gains
<1>4. Covers(<<"surface">> \o undo, a1.held)
  BY <1>1, <1>3, CoversMore
<1>5. d \in Calls /\ Fits(cmd, d, a1) /\ After(d, a1) = a1
  <2> HIDE DEF a1
  <2> QED  BY <1>1, <1>3, <1>4, AskFits
<1> HIDE DEF c, d, a1
<1>6. Leads(cmd, <<c, d>>, a, After(d, After(c, a)))
  BY <1>2, <1>3, <1>5, LeadsTwo
<1> QED  BY <1>2, <1>5, <1>6 DEF Setup, c, d, a1

\* Rasterize turns the path, the newest object, into a texture.
LEMMA RasterizeLeads ==
  ASSUME NEW cmd, NEW a \in Stages, a.newest = "path", a.held = {"path"}
  PROVE  Leads(cmd, Rasterize, a, Stage({"texture"}, "texture", "path"))
<1> DEFINE c == Make("texture", <<"path">>)
           d == Drop("path", <<>>)
           a1 == Gains(a, "texture")
           a2 == Loses(a1, "path")
<1>1. /\ "texture" \in Kinds /\ "path" \in Kinds
      /\ Covers(<<"path">>, {"path"})
  BY CoversOne DEF Kinds
<1>2. c \in Calls /\ Fits(cmd, c, a) /\ After(c, a) = a1
  BY <1>1, MakeFits
<1>3. /\ a1 \in Stages /\ a1.newest = "texture" /\ a1.before = "path"
      /\ a1.held = {"path", "texture"}
  BY <1>1, <1>2, AfterStage DEF Gains
<1> HIDE DEF a1
<1>4. d \in Calls /\ Fits(cmd, d, a1) /\ After(d, a1) = a2
  <2>1. /\ d \in Calls /\ d.op = "drop" /\ d.kind = "path" /\ d.undo = <<>>
        /\ After(d, a1) = a2 /\ DOMAIN d.undo = {}
    <3>1. <<>> \in Seq(Kinds) /\ DOMAIN <<>> = {}
      BY EmptySeq, LenProperties
    <3> QED  BY <1>1, <3>1, CallIs DEF Drop, Call, Calls, Ops
  <2>2. Kept(d, a1) = {"texture"}
    BY <1>3, <2>1 DEF Kept
  <2> HIDE DEF d, a2
  <2> QED  BY <1>3, <2>1, <2>2 DEF Fits
<1>5. a2 = Stage({"texture"}, "texture", "path")
  BY <1>3 DEF Loses, Stage, Stages
<1> HIDE DEF c, d, a2
<1>6. Leads(cmd, <<c, d>>, a, After(d, After(c, a)))
  BY <1>2, <1>3, <1>4, LeadsTwo
<1> QED  BY <1>2, <1>4, <1>5, <1>6 DEF Rasterize, c, d

\* FontCreate turns a resource into a font.
LEMMA FontCreateLeads ==
  ASSUME NEW cmd, NEW a \in Stages, a.newest # "left", a.held = {}
  PROVE  Leads(cmd, FontCreate, a, Stage({"font"}, "font", "resource"))
<1> DEFINE c == Upload(<<>>)
           d == Consume("font", <<"resource">>)
           a1 == Gains(a, "resource")
           a2 == Gains(Loses(a1, "resource"), "font")
<1>1. /\ "font" \in Kinds /\ "resource" \in Kinds
      /\ Covers(<<"resource">>, {"resource"})
  BY CoversOne DEF Kinds
<1>2. c \in Calls /\ Fits(cmd, c, a) /\ After(c, a) = a1
  BY CoversNone, UploadFits
<1>3. /\ a1 \in Stages /\ a1.newest = "resource" /\ a1.held = {"resource"}
  BY <1>1, <1>2, AfterStage DEF Gains
<1> HIDE DEF a1
<1>4. d \in Calls /\ Fits(cmd, d, a1) /\ After(d, a1) = a2
  BY <1>1, <1>3, ConsumeFits
<1>5. a2 = Stage({"font"}, "font", "resource")
  BY <1>3 DEF Gains, Loses, Stage, Stages
<1> HIDE DEF c, d, a2
<1>6. Leads(cmd, <<c, d>>, a, After(d, After(c, a)))
  BY <1>2, <1>3, <1>4, LeadsTwo
<1> QED  BY <1>2, <1>4, <1>5, <1>6 DEF FontCreate, c, d

\* The stages between the frames of a stream.
Showing == {a \in Stages : a.newest # "left" /\ a.held = {"surface", "texture"}}

\* What a stream holds between two frames.
LEMMA ShownCovered == Covers(<<"surface", "texture">>, {"surface", "texture"})
<1>1. /\ "surface" \in Kinds /\ "texture" \in Kinds
      /\ Covers(<<"texture">>, {"texture"}) /\ "surface" \notin {"texture"}
  BY CoversOne DEF Kinds
<1>2. Covers(<<"surface">> \o <<"texture">>, {"texture"} \cup {"surface"})
  BY <1>1, CoversMore
<1>3. <<"surface">> \o <<"texture">> = <<"surface", "texture">>
  BY <1>1, CallsJoin
<1>4. {"texture"} \cup {"surface"} = {"surface", "texture"}
  OBVIOUS
<1> QED  BY <1>2, <1>3, <1>4

\* A frame begins and ends with the surface and the texture.
LEMMA FrameLeads ==
  ASSUME NEW a \in Showing
  PROVE  \E b \in Showing : Leads("stream", Frame, a, b)
<1> DEFINE undo == <<"surface", "texture">>
           c == Capture(undo)
           d == Upload(undo)
           e == Ask(<<"resource">> \o undo)
           f == Drop("resource", undo)
           g == Ask(undo)
           a1 == Gains(a, "resource")
           b == Loses(a1, "resource")
<1>1. /\ a \in Stages /\ a.newest # "left" /\ a.held = {"surface", "texture"}
      /\ Covers(undo, a.held) /\ "resource" \notin a.held
      /\ "resource" \in Kinds
  BY ShownCovered DEF Showing, Kinds
<1> HIDE DEF undo
<1>2. c \in Calls /\ Fits("stream", c, a) /\ After(c, a) = a
  BY <1>1, CaptureFits
<1>3. d \in Calls /\ Fits("stream", d, a) /\ After(d, a) = a1 /\ a1 \in Stages
  BY <1>1, UploadFits
<1>4. /\ a1.newest = "resource" /\ a1.newest # "left"
      /\ a1.held = {"surface", "texture"} \cup {"resource"}
      /\ a1.held \ {"resource"} = {"surface", "texture"}
  BY <1>1 DEF Gains
<1> HIDE DEF a1
<1>5. Covers(<<"resource">> \o undo, a1.held)
  BY <1>1, <1>4, CoversMore
<1>6. e \in Calls /\ Fits("stream", e, a1) /\ After(e, a1) = a1
  BY <1>3, <1>4, <1>5, AskFits
<1>7. f \in Calls /\ Fits("stream", f, a1) /\ After(f, a1) = b
  BY <1>1, <1>3, <1>4, DropFits
<1>8. b \in Stages /\ b.held = {"surface", "texture"} /\ b.newest # "left"
  <2>1. b \in Stages
    BY <1>3, <1>7, AfterStage
  <2> QED  BY <1>3, <1>4, <2>1 DEF Loses, Stages
<1> HIDE DEF b
<1>9. g \in Calls /\ Fits("stream", g, b) /\ After(g, b) = b
  BY <1>1, <1>8, AskFits
<1> HIDE DEF c, d, e, f, g
<1>10. Leads("stream", <<c, d, e>>, a, a1)
  BY <1>1, <1>2, <1>3, <1>6, LeadsThree
<1>11. Leads("stream", <<f, g>>, a1, b)
  BY <1>3, <1>7, <1>9, LeadsTwo
<1>12. Leads("stream", <<c, d, e>> \o <<f, g>>, a, b)
  BY <1>10, <1>11, LeadsConcat
<1>13. <<c, d, e>> \o <<f, g>> = <<c, d, e, f, g>>
  <2>1. /\ <<c, d, e>> \in Seq(Calls) /\ <<f, g>> \in Seq(Calls)
        /\ <<c, d>> \in Seq(Calls)
    BY <1>2, <1>3, <1>6, <1>7, <1>9
  <2> DEFINE s == <<c, d, e>>
             t == <<f, g>>
             u == <<c, d, e, f, g>>
  <2>2. /\ s \in Seq(Calls) /\ t \in Seq(Calls) /\ Len(s) = 3 /\ Len(t) = 2
        /\ u \in Seq(Calls) /\ Len(u) = 5 /\ u[1] = s[1] /\ u[2] = s[2]
        /\ u[3] = s[3] /\ u[4] = t[1] /\ u[5] = t[2]
    BY <1>2, <1>3, <1>6, <1>7, <1>9
  <2> HIDE DEF s, t, u
  <2>3. /\ s \o t \in Seq(Calls) /\ Len(s \o t) = Len(s) + Len(t)
        /\ \A i \in 1 .. Len(s) + Len(t) :
             (s \o t)[i] = IF i <= Len(s) THEN s[i] ELSE t[i - Len(s)]
    BY <2>2, ConcatProperties
  <2>4. Len(s \o t) = 5 /\ \A i \in 1 .. 5 : (s \o t)[i] = u[i]
    <3>1. Len(s) + Len(t) = 5 /\ Len(s) = 3
      BY <2>2
    <3>2. \A i \in 1 .. 5 : (s \o t)[i] = IF i <= 3 THEN s[i] ELSE t[i - 3]
      BY <2>3, <3>1
    <3> QED  BY <2>2, <2>3, <3>1, <3>2
  <2>5. s \o t = u
    BY <2>2, <2>3, <2>4, SeqEqual
  <2> QED  BY <2>5 DEF s, t, u
<1>14. Frame = <<c, d, e, f, g>>
  BY DEF Frame, c, d, e, f, g, undo
<1> QED  BY <1>8, <1>12, <1>13, <1>14 DEF Showing
\* A set of numbers has a smallest one.
LEMMA Smallest ==
  ASSUME NEW S, S \subseteq Nat, S # {}
  PROVE  \E x \in S : \A y \in S : x <= y
<1> DEFINE R == {ss \in Nat \X Nat : ss[1] < ss[2]}
<1>1. IsWellFoundedOn(R, Nat)
  BY NatLessThanWellFounded DEF OpToRel
<1>2. PICK x \in S : \A y \in S : <<y, x>> \notin R
  BY <1>1, WFMin, Zenon
<1>3. \A m, n \in Nat : n < m => <<n, m>> \in R
  OBVIOUS
<1> HIDE DEF R
<1>4. ASSUME NEW y \in S  PROVE x <= y
  <2>1. x \in Nat /\ y \in Nat
    OBVIOUS
  <2>2. ~(y < x)
    BY <1>2, <1>3, <2>1
  <2> QED  BY <2>1, <2>2
<1> QED  BY <1>4

\* n frames, one behind the other, are what the recursion of FlattenSeq says:
\* it has a solution, since all of the sequences it joins are the same.
LEMMA FramesJoin ==
  ASSUME NEW n \in Nat \ {0}
  PROVE  \E f : /\ FlattenSeq([i \in 1 .. n |-> Frame]) = f[n]
                /\ f[1] = Frame
                /\ \A i \in 2 .. n : f[i] = f[i - 1] \o Frame
<1> DEFINE seqs == [i \in 1 .. n |-> Frame]
           Joins(f) == f = [i \in 1 .. Len(seqs) |->
                              IF i = 1 THEN seqs[i] ELSE f[i - 1] \o seqs[i]]
           g == [i \in 1 .. n |->
                   [j \in 1 .. 5 * i |-> Frame[((j - 1) % 5) + 1]]]
<1>1. Len(seqs) = n
  OBVIOUS
<1>2. FlattenSeq(seqs) = (CHOOSE f : Joins(f))[n]
  BY <1>1 DEF FlattenSeq
<1>3. Frame \in Seq(Calls) /\ Len(Frame) = 5
  <2>1. Stage({"surface", "texture"}, "none", "none") \in Showing
    BY DEF Showing, Stages, Stage, Kinds
  <2>2. Frame \in Seq(Calls)
    BY <2>1, FrameLeads DEF Leads
  <2>3. Len(Frame) = 5
    BY DEF Frame
  <2> QED  BY <2>2, <2>3
<1>4. \A i \in 1 .. n : g[i] \in Seq(Calls) /\ Len(g[i]) = 5 * i
                        /\ \A j \in 1 .. 5 * i :
                             g[i][j] = Frame[((j - 1) % 5) + 1]
  <2>1. ASSUME NEW i \in 1 .. n
        PROVE  g[i] \in Seq(Calls) /\ Len(g[i]) = 5 * i
               /\ \A j \in 1 .. 5 * i : g[i][j] = Frame[((j - 1) % 5) + 1]
    <3> DEFINE w == [j \in 1 .. 5 * i |-> Frame[((j - 1) % 5) + 1]]
    <3>1. g[i] = w /\ 5 * i \in Nat
      OBVIOUS
    <3>2. \A j \in 1 .. 5 * i : ((j - 1) % 5) + 1 \in 1 .. 5
      OBVIOUS
    <3>3. \A k \in 1 .. 5 : Frame[k] \in Calls
      BY <1>3, ElementOfSeq
    <3>4. \A j \in 1 .. 5 * i : Frame[((j - 1) % 5) + 1] \in Calls
      BY <3>2, <3>3
    <3>5. w \in [1 .. 5 * i -> Calls]
      BY <3>4
    <3>6. w \in Seq(Calls)
      BY <3>1, <3>5, SeqDef
    <3>7. Len(w) = 5 * i
      BY <3>1, <3>5, <3>6, LenProperties
    <3> QED  BY <3>1, <3>6, <3>7
  <2> QED  BY <2>1
<1> HIDE DEF g
<1>5. g[1] = Frame
  <2>1. \A j \in 1 .. 5 : ((j - 1) % 5) + 1 = j
    OBVIOUS
  <2>2. 1 \in 1 .. n /\ 5 * 1 = 5
    OBVIOUS
  <2>3. g[1] \in Seq(Calls) /\ Len(g[1]) = 5
        /\ \A j \in 1 .. 5 : g[1][j] = Frame[((j - 1) % 5) + 1]
    BY <1>4, <2>2
  <2>4. \A j \in 1 .. 5 : g[1][j] = Frame[j]
    BY <2>1, <2>3
  <2> QED  BY <1>3, <2>3, <2>4, SeqEqual
<1>6. ASSUME NEW i \in 2 .. n  PROVE g[i] = g[i - 1] \o Frame
  <2> DEFINE s == g[i - 1]
             m == 5 * (i - 1)
  <2>1. i - 1 \in 1 .. n /\ i \in 1 .. n /\ m \in Nat /\ 5 * i = m + 5
    OBVIOUS
  <2>2. s \in Seq(Calls) /\ Len(s) = m
        /\ \A j \in 1 .. m : s[j] = Frame[((j - 1) % 5) + 1]
    BY <1>4, <2>1
  <2>3. g[i] \in Seq(Calls) /\ Len(g[i]) = m + 5
        /\ \A j \in 1 .. m + 5 : g[i][j] = Frame[((j - 1) % 5) + 1]
    BY <1>4, <2>1
  <2>4. \A j \in m + 1 .. m + 5 : ((j - 1) % 5) + 1 = j - m
    BY <2>1
  <2> HIDE DEF s, m
  <2>5. /\ s \o Frame \in Seq(Calls) /\ Len(s \o Frame) = m + 5
        /\ \A j \in 1 .. m + 5 :
             (s \o Frame)[j] = IF j <= m THEN s[j] ELSE Frame[j - m]
    <3>1. /\ s \o Frame \in Seq(Calls) /\ Len(s \o Frame) = Len(s) + Len(Frame)
          /\ \A j \in 1 .. Len(s) + Len(Frame) :
               (s \o Frame)[j] = IF j <= Len(s) THEN s[j] ELSE Frame[j - Len(s)]
      BY <1>3, <2>2, ConcatProperties
    <3> QED  BY <1>3, <2>2, <3>1
  <2>6. ASSUME NEW j \in 1 .. m + 5  PROVE g[i][j] = (s \o Frame)[j]
    <3>1. CASE j <= m
      <4>1. j \in 1 .. m
        BY <2>1, <3>1
      <4> QED  BY <2>2, <2>3, <2>5, <3>1, <4>1
    <3>2. CASE ~(j <= m)
      <4>1. j \in m + 1 .. m + 5
        BY <2>1, <3>2
      <4> QED  BY <2>3, <2>4, <2>5, <3>2, <4>1
    <3> QED  BY <3>1, <3>2
  <2>7. g[i] = s \o Frame
    BY <2>3, <2>5, <2>6, SeqEqual
  <2> QED  BY <2>7 DEF s
<1>7. Joins(g)
  <2>1. \A i \in 1 .. n : g[i] = IF i = 1 THEN seqs[i] ELSE g[i - 1] \o seqs[i]
    <3>1. \A i \in 1 .. n : i # 1 => i \in 2 .. n
      OBVIOUS
    <3>2. \A i \in 1 .. n : seqs[i] = Frame
      OBVIOUS
    <3> QED  BY <1>5, <1>6, <3>1, <3>2
  <2>2. g = [i \in 1 .. n |-> g[i]]
    BY DEF g
  <2> HIDE DEF seqs
  <2> QED  BY <1>1, <2>1, <2>2
<1>8. PICK f : Joins(f) /\ FlattenSeq(seqs) = f[n]
  <2> HIDE DEF Joins
  <2>1. Joins(CHOOSE f : Joins(f))
    BY <1>7
  <2> QED  BY <1>2, <2>1
<1>9. \A i \in 1 .. n : f[i] = IF i = 1 THEN Frame ELSE f[i - 1] \o Frame
  BY <1>1, <1>8
<1>10. f[1] = Frame /\ \A i \in 2 .. n : f[i] = f[i - 1] \o Frame
  <2>1. 1 \in 1 .. n /\ \A i \in 2 .. n : i \in 1 .. n /\ i # 1
    OBVIOUS
  <2> QED  BY <1>9, <2>1
<1> QED  BY <1>8, <1>10

\* A stream of any number of frames stays between the two stages.
LEMMA FramesLead ==
  ASSUME NEW n \in Nat, NEW a \in Showing
  PROVE  \E b \in Showing :
           Leads("stream", FlattenSeq([i \in 1 .. n |-> Frame]), a, b)
<1>1. CASE n = 0
  <2> DEFINE seqs == [i \in 1 .. n |-> Frame]
  <2>1. seqs = <<>> /\ Len(seqs) = 0
    BY <1>1
  <2>2. FlattenSeq(seqs) = <<>>
    BY <2>1 DEF FlattenSeq
  <2> QED  BY <2>2, LeadsNone DEF Showing
<1>2. CASE n # 0
  <2>1. PICK f : /\ FlattenSeq([i \in 1 .. n |-> Frame]) = f[n]
                 /\ f[1] = Frame
                 /\ \A i \in 2 .. n : f[i] = f[i - 1] \o Frame
    BY <1>2, FramesJoin
  <2> DEFINE Through(i) == \E b \in Showing : Leads("stream", f[i], a, b)
             Stuck == {i \in 1 .. n : ~Through(i)}
  <2>2. Through(1)
    BY <2>1, FrameLeads
  <2>3. ASSUME NEW i \in 2 .. n, Through(i - 1)  PROVE Through(i)
    <3>1. PICK b \in Showing : Leads("stream", f[i - 1], a, b)
      BY <2>3
    <3>2. PICK c \in Showing : Leads("stream", Frame, b, c)
      BY FrameLeads
    <3>3. Leads("stream", f[i - 1] \o Frame, a, c)
      BY <3>1, <3>2, LeadsConcat
    <3> QED  BY <2>1, <3>3
  <2> HIDE DEF Through
  <2>4. ASSUME Stuck # {}  PROVE FALSE
    <3>1. PICK i \in Stuck : \A j \in Stuck : i <= j
      <4>1. Stuck \subseteq Nat
        OBVIOUS
      <4> HIDE DEF Stuck
      <4> QED  BY <2>4, <4>1, Smallest
    <3>2. i \in 1 .. n /\ ~Through(i) /\ i # 1
      BY <2>2
    <3>3. i \in 2 .. n /\ i - 1 \in 1 .. n /\ ~(i <= i - 1)
      BY <3>2
    <3>4. Through(i - 1)
      BY <3>1, <3>3
    <3> QED  BY <2>3, <3>2, <3>3, <3>4
  <2>5. Through(n)
    BY <1>2, <2>4
  <2> QED  BY <2>1, <2>5 DEF Through
<1> QED  BY <1>1, <1>2

\* Two pairs of calls in a row.
LEMMA PairsJoin ==
  ASSUME NEW c \in Calls, NEW d \in Calls, NEW e \in Calls, NEW f \in Calls
  PROVE  <<c, d>> \o <<e, f>> = <<c, d, e, f>>
<1> DEFINE s == <<c, d>>
           t == <<e, f>>
           u == <<c, d, e, f>>
<1>1. /\ s \in Seq(Calls) /\ t \in Seq(Calls) /\ Len(s) = 2 /\ Len(t) = 2
      /\ u \in Seq(Calls) /\ Len(u) = 4 /\ u[1] = s[1] /\ u[2] = s[2]
      /\ u[3] = t[1] /\ u[4] = t[2]
  OBVIOUS
<1> HIDE DEF s, t, u
<1>2. /\ s \o t \in Seq(Calls) /\ Len(s \o t) = Len(s) + Len(t)
      /\ \A i \in 1 .. Len(s) + Len(t) :
           (s \o t)[i] = IF i <= Len(s) THEN s[i] ELSE t[i - Len(s)]
  BY <1>1, ConcatProperties
<1>3. Len(s) + Len(t) = 4 /\ Len(s) = 2
  BY <1>1
<1>4. \A i \in 1 .. 4 : (s \o t)[i] = u[i]
  <2>1. /\ (s \o t)[1] = s[1] /\ (s \o t)[2] = s[2]
        /\ (s \o t)[3] = t[1] /\ (s \o t)[4] = t[2]
    BY <1>1, <1>2
  <2>2. \A i \in 1 .. 4 : i = 1 \/ i = 2 \/ i = 3 \/ i = 4
    OBVIOUS
  <2> QED  BY <1>1, <2>1, <2>2
<1>5. s \o t = u
  BY <1>1, <1>2, <1>3, <1>4, SeqEqual
<1> QED  BY <1>5 DEF s, t, u

\* How a command may end: with what it prints, or by leaving.
Ends(cmd, b) == /\ b.held = Printed[cmd]
                /\ cmd \in {"stream", "smoke"} => b.newest = "left"

\* A command begins with nothing, or with the surface it is given.
Begins(cmd) ==
  Stage(IF Given(cmd) = 1 THEN {"surface"} ELSE {}, "none", "none")

\* Every command goes from where it begins to where it ends.
LEMMA ScriptsLead ==
  ASSUME NEW cmd \in DOMAIN Script, NEW s \in Script[cmd]
  PROVE  \E b \in Stages : Leads(cmd, s, Begins(cmd), b) /\ Ends(cmd, b)
<1> DEFINE Goal == \E b \in Stages :
                     Leads(cmd, s, Begins(cmd), b) /\ Ends(cmd, b)
           nothing == Stage({}, "none", "none")
<1> SUFFICES Goal
  OBVIOUS
<1>0. /\ nothing \in Stages /\ nothing.held = {} /\ nothing.newest # "left"
      /\ Covers(<<>>, nothing.held)
  BY CoversNone DEF Stages, Stage
<1>a. cmd \notin {"change", "destroy"} => Begins(cmd) = nothing
  BY DEF Begins, Given
<1>b. cmd \in {"query", "rect", "change", "destroy", "upload_test",
               "texture_demo", "vector_demo", "svg", "text_demo", "stream",
               "smoke"}
  BY DEF Script
<1> HIDE DEF nothing
<1>1. CASE cmd = "query"
  <2>1. s = <<Ask(<<>>)>> /\ Printed[cmd] = {}
    BY <1>1 DEF Script, Printed
  <2>2. Leads(cmd, s, nothing, nothing)
    BY <1>0, <2>1, AskFits, LeadsOne
  <2> QED  BY <1>0, <1>1, <1>a, <2>1, <2>2 DEF Ends
<1>2. CASE cmd = "rect"
  <2> DEFINE a1 == Gains(nothing, "surface")
  <2>1. s = <<Make("surface", <<>>), Ask(<<>>)>> /\ Printed[cmd] = {"surface"}
    BY <1>2 DEF Script, Printed
  <2>2. /\ Make("surface", <<>>) \in Calls
        /\ Fits(cmd, Make("surface", <<>>), nothing)
        /\ After(Make("surface", <<>>), nothing) = a1 /\ a1 \in Stages
    BY <1>0, MakeFits DEF Kinds
  <2>3. a1.held = {"surface"} /\ a1.newest = "surface"
    BY <1>0 DEF Gains
  <2> HIDE DEF a1
  <2>4. /\ Ask(<<>>) \in Calls /\ Fits(cmd, Ask(<<>>), a1)
        /\ After(Ask(<<>>), a1) = a1
    <3>1. /\ Ask(<<>>) \in Calls /\ Ask(<<>>).op = "ask"
          /\ DOMAIN Ask(<<>>).undo = {}
          /\ After(Ask(<<>>), a1) = a1
      BY CallIs, EmptySeq, LenProperties DEF Ask, Call, Calls, Ops
    <3> QED  BY <1>2, <2>3, <3>1 DEF Fits, Kept
  <2>5. Leads(cmd, s, nothing, a1)
    BY <1>0, <2>1, <2>2, <2>4, LeadsTwo
  <2> QED  BY <1>2, <1>a, <2>1, <2>2, <2>3, <2>5 DEF Ends
<1>3. CASE cmd = "change"
  <2> DEFINE a == Stage({"surface"}, "none", "none")
  <2>1. /\ s = <<Ask(<<>>)>> /\ Printed[cmd] = {"surface"}
        /\ Begins(cmd) = a
    BY <1>3 DEF Script, Printed, Begins, Given
  <2>2. a \in Stages /\ a.held = {"surface"} /\ a.newest # "left"
    BY DEF Stages, Stage, Kinds
  <2> HIDE DEF a
  <2>3. /\ Ask(<<>>) \in Calls /\ Fits(cmd, Ask(<<>>), a)
        /\ After(Ask(<<>>), a) = a
    <3>1. /\ Ask(<<>>) \in Calls /\ Ask(<<>>).op = "ask"
          /\ DOMAIN Ask(<<>>).undo = {}
          /\ After(Ask(<<>>), a) = a
      BY CallIs, EmptySeq, LenProperties DEF Ask, Call, Calls, Ops
    <3> QED  BY <1>3, <2>2, <3>1 DEF Fits, Kept
  <2>4. Leads(cmd, s, a, a)
    BY <2>1, <2>2, <2>3, LeadsOne
  <2> QED  BY <1>3, <2>1, <2>2, <2>4 DEF Ends
<1>4. CASE cmd = "destroy"
  <2> DEFINE a == Stage({"surface"}, "none", "none")
             a1 == Loses(a, "surface")
  <2>1. /\ s = <<Drop("surface", <<>>), Ask(<<>>)>> /\ Printed[cmd] = {}
        /\ Begins(cmd) = a
    BY <1>4 DEF Script, Printed, Begins, Given
  <2>2. /\ a \in Stages /\ a.held = {"surface"} /\ a.newest # "left"
        /\ Covers(<<>>, a.held \ {"surface"})
    <3>1. a \in Stages /\ a.held = {"surface"} /\ a.newest # "left"
      BY DEF Stages, Stage, Kinds
    <3>2. a.held \ {"surface"} = {}
      BY <3>1
    <3> QED  BY <3>1, <3>2, CoversNone
  <2> HIDE DEF a
  <2>3. /\ Drop("surface", <<>>) \in Calls
        /\ Fits(cmd, Drop("surface", <<>>), a)
        /\ After(Drop("surface", <<>>), a) = a1 /\ a1 \in Stages
    <3>1. /\ Drop("surface", <<>>) \in Calls
          /\ Fits(cmd, Drop("surface", <<>>), a)
          /\ After(Drop("surface", <<>>), a) = Loses(a, "surface")
      BY <2>2, DropFits
    <3> QED  BY <2>2, <3>1, AfterStage
  <2>4. a1.held = {} /\ a1.newest # "left"
    BY <2>2 DEF Loses, Stages
  <2> HIDE DEF a1
  <2>5. /\ Ask(<<>>) \in Calls /\ Fits(cmd, Ask(<<>>), a1)
        /\ After(Ask(<<>>), a1) = a1
    BY <2>3, <2>4, CoversNone, AskFits
  <2>6. Leads(cmd, s, a, a1)
    BY <2>1, <2>2, <2>3, <2>5, LeadsTwo
  <2> QED  BY <1>4, <2>1, <2>3, <2>4, <2>6 DEF Ends
<1>5. CASE cmd = "upload_test"
  <2> DEFINE a1 == Gains(nothing, "resource")
             a2 == Loses(a1, "resource")
  <2>1. /\ s = <<Upload(<<>>), Drop("resource", <<>>)>> /\ Printed[cmd] = {}
    BY <1>5 DEF Script, Printed
  <2>2. /\ Upload(<<>>) \in Calls /\ Fits(cmd, Upload(<<>>), nothing)
        /\ After(Upload(<<>>), nothing) = a1 /\ a1 \in Stages
    BY <1>0, UploadFits
  <2>3. /\ a1.held = {"resource"} /\ a1.newest # "left"
        /\ a1.held \ {"resource"} = {}
    BY <1>0 DEF Gains
  <2> HIDE DEF a1
  <2>4. /\ Drop("resource", <<>>) \in Calls
        /\ Fits(cmd, Drop("resource", <<>>), a1)
        /\ After(Drop("resource", <<>>), a1) = a2 /\ a2 \in Stages
    BY <2>2, <2>3, CoversNone, DropFits, AfterStage
  <2>5. a2.held = {}
    BY <2>2, <2>3 DEF Loses, Stages
  <2> HIDE DEF a2
  <2>6. Leads(cmd, s, nothing, a2)
    BY <1>0, <2>1, <2>2, <2>4, LeadsTwo
  <2> QED  BY <1>5, <1>a, <2>1, <2>4, <2>5, <2>6 DEF Ends
<1>6. CASE cmd = "texture_demo"
  <2> DEFINE a1 == Stage({"texture"}, "texture", "resource")
             a2 == Gains(a1, "surface")
  <2>1. /\ s = FromResource("texture", <<>>) \o Setup(<<"texture">>)
        /\ Printed[cmd] = {"texture", "surface"}
    BY <1>6 DEF Script, Printed
  <2>2. Leads(cmd, FromResource("texture", <<>>), nothing, a1)
    <3>1. /\ {} \cup {"texture"} = {"texture"}
          /\ "texture" \in Kinds \ {"resource"}
      BY DEF Kinds
    <3> QED  BY <1>0, <3>1, FromResourceLeads
  <2>3. /\ a1 \in Stages /\ a1.newest # "left" /\ a1.held = {"texture"}
        /\ Covers(<<"texture">>, a1.held) /\ "surface" \notin a1.held
    BY CoversOne DEF Stages, Stage, Kinds
  <2> HIDE DEF a1
  <2>4. Leads(cmd, Setup(<<"texture">>), a1, a2)
    BY <2>3, SetupLeads
  <2>5. Leads(cmd, s, nothing, a2)
    BY <2>1, <2>2, <2>4, LeadsConcat
  <2>6. a2 \in Stages
    BY <2>5 DEF Leads
  <2>7. a2.held = {"texture", "surface"}
    BY <2>3 DEF Gains
  <2> QED  BY <1>6, <1>a, <2>1, <2>5, <2>6, <2>7 DEF Ends
<1>7. CASE cmd = "vector_demo"
  <2> DEFINE a0 == Stage({"path"}, "path", "resource")
             a1 == Stage({"texture"}, "texture", "path")
             a2 == Gains(a1, "surface")
  <2>1. /\ s = (FromResource("path", <<>>) \o Rasterize) \o Setup(<<"texture">>)
        /\ Printed[cmd] = {"texture", "surface"}
    BY <1>7 DEF Script, Printed
  <2>2. Leads(cmd, FromResource("path", <<>>), nothing, a0)
    <3>1. {} \cup {"path"} = {"path"} /\ "path" \in Kinds \ {"resource"}
      BY DEF Kinds
    <3> QED  BY <1>0, <3>1, FromResourceLeads
  <2>3. a0 \in Stages /\ a0.newest = "path" /\ a0.held = {"path"}
    BY DEF Stages, Stage, Kinds
  <2> HIDE DEF a0
  <2>4. Leads(cmd, Rasterize, a0, a1)
    BY <2>3, RasterizeLeads
  <2>5. /\ a1 \in Stages /\ a1.newest # "left" /\ a1.held = {"texture"}
        /\ Covers(<<"texture">>, a1.held) /\ "surface" \notin a1.held
    BY CoversOne DEF Stages, Stage, Kinds
  <2> HIDE DEF a1
  <2>6. Leads(cmd, Setup(<<"texture">>), a1, a2)
    BY <2>5, SetupLeads
  <2>7. Leads(cmd, FromResource("path", <<>>) \o Rasterize, nothing, a1)
    BY <2>2, <2>4, LeadsConcat
  <2>8. Leads(cmd, s, nothing, a2)
    BY <2>1, <2>6, <2>7, LeadsConcat
  <2>9. a2 \in Stages
    BY <2>8 DEF Leads
  <2>10. a2.held = {"texture", "surface"}
    BY <2>5 DEF Gains
  <2> QED  BY <1>7, <1>a, <2>1, <2>8, <2>9, <2>10 DEF Ends
<1>8. CASE cmd = "svg"
  <2> DEFINE a1 == Stage({"svg"}, "svg", "resource")
  <2>1. /\ s = (<<Ask(<<>>)>> \o FromResource("svg", <<>>)) \o <<Ask(<<>>)>>
        /\ Printed[cmd] = {"svg"}
    BY <1>8 DEF Script, Printed, SvgCommand
  <2>2. Leads(cmd, <<Ask(<<>>)>>, nothing, nothing)
    BY <1>0, AskFits, LeadsOne
  <2>3. Leads(cmd, FromResource("svg", <<>>), nothing, a1)
    <3>1. {} \cup {"svg"} = {"svg"} /\ "svg" \in Kinds \ {"resource"}
      BY DEF Kinds
    <3> QED  BY <1>0, <3>1, FromResourceLeads
  <2>4. a1 \in Stages /\ a1.newest = "svg" /\ a1.held = {"svg"}
    BY DEF Stages, Stage, Kinds
  <2> HIDE DEF a1
  <2>5. /\ Ask(<<>>) \in Calls /\ Fits(cmd, Ask(<<>>), a1)
        /\ After(Ask(<<>>), a1) = a1
    <3>1. /\ Ask(<<>>) \in Calls /\ Ask(<<>>).op = "ask"
          /\ DOMAIN Ask(<<>>).undo = {}
          /\ After(Ask(<<>>), a1) = a1
      BY CallIs, EmptySeq, LenProperties DEF Ask, Call, Calls, Ops
    <3> QED  BY <1>8, <2>4, <3>1 DEF Fits, Kept
  <2>6. Leads(cmd, <<Ask(<<>>)>>, a1, a1)
    BY <2>4, <2>5, LeadsOne
  <2>7. Leads(cmd, <<Ask(<<>>)>> \o FromResource("svg", <<>>), nothing, a1)
    BY <2>2, <2>3, LeadsConcat
  <2>8. Leads(cmd, s, nothing, a1)
    BY <2>1, <2>6, <2>7, LeadsConcat
  <2> QED  BY <1>8, <1>a, <2>1, <2>4, <2>8 DEF Ends
<1>9. CASE cmd = "text_demo"
  <2> DEFINE a1 == Stage({"font"}, "font", "resource")
             a2 == Stage({"font", "texture"}, "texture", "resource")
             a3 == Gains(a2, "surface")
             s1 == FontCreate \o <<Ask(<<"font">>)>>
             s2 == s1 \o FromResource("texture", <<"font">>)
  <2>1. /\ s = s2 \o Setup(<<"texture", "font">>)
        /\ Printed[cmd] = {"font", "texture", "surface"}
    BY <1>9 DEF Script, Printed
  <2>2. Leads(cmd, FontCreate, nothing, a1)
    BY <1>0, FontCreateLeads
  <2>3. /\ a1 \in Stages /\ a1.newest # "left" /\ a1.held = {"font"}
        /\ Covers(<<"font">>, a1.held)
    BY CoversOne DEF Stages, Stage, Kinds
  <2> HIDE DEF a1
  <2>4. Leads(cmd, <<Ask(<<"font">>)>>, a1, a1)
    BY <2>3, AskFits, LeadsOne
  <2>5. Leads(cmd, s1, nothing, a1)
    BY <2>2, <2>4, LeadsConcat
  <2>6. Leads(cmd, FromResource("texture", <<"font">>), a1, a2)
    <3>1. a1.held \cup {"texture"} = {"font", "texture"}
          /\ "texture" \in Kinds \ {"resource"}
      BY <2>3 DEF Kinds
    <3> QED  BY <2>3, <3>1, FromResourceLeads
  <2>7. /\ a2 \in Stages /\ a2.newest # "left" /\ a2.held = {"font", "texture"}
        /\ "surface" \notin a2.held
    BY DEF Stages, Stage, Kinds
  <2> HIDE DEF a2
  <2>8. Covers(<<"texture", "font">>, a2.held)
    <3>1. /\ "font" \in Kinds /\ "texture" \in Kinds
          /\ Covers(<<"font">>, {"font"}) /\ "texture" \notin {"font"}
      BY CoversOne DEF Kinds
    <3>2. Covers(<<"texture">> \o <<"font">>, {"font"} \cup {"texture"})
      BY <3>1, CoversMore
    <3>3. <<"texture">> \o <<"font">> = <<"texture", "font">>
      BY <3>1, CallsJoin
    <3>4. {"font"} \cup {"texture"} = a2.held
      BY <2>7
    <3> QED  BY <3>2, <3>3, <3>4
  <2>9. Leads(cmd, Setup(<<"texture", "font">>), a2, a3)
    BY <2>7, <2>8, SetupLeads
  <2>10. Leads(cmd, s2, nothing, a2)
    BY <2>5, <2>6, LeadsConcat
  <2>11. Leads(cmd, s, nothing, a3)
    BY <2>1, <2>9, <2>10, LeadsConcat
  <2>12. a3 \in Stages
    BY <2>11 DEF Leads
  <2>13. a3.held = {"font", "texture", "surface"}
    BY <2>7 DEF Gains
  <2> QED  BY <1>9, <1>a, <2>1, <2>11, <2>12, <2>13 DEF Ends
<1>10. CASE cmd = "stream"
  <2>1. /\ \E n \in 0 .. MaxFrames : s = Stream(n)
        /\ Printed[cmd] = {}
    BY <1>10 DEF Script, Printed
  <2>2. PICK n \in Nat : s = Stream(n)
    BY <2>1, FramesAssumption
  <2> DEFINE a1 == Stage({"texture"}, "texture", "resource")
             a2 == Gains(a1, "surface")
             frames == FlattenSeq([i \in 1 .. n |-> Frame])
             s0 == <<Ask(<<>>), Capture(<<>>)>>
             s1 == s0 \o FromResource("texture", <<>>)
             s2 == s1 \o Setup(<<"texture">>)
             s3 == s2 \o frames
             end == <<Leave(<<"surface", "texture">>)>>
  <2>3. s = s3 \o end
    BY <2>2 DEF Stream
  <2>4. Leads("stream", s0, nothing, nothing)
    <3>1. /\ Ask(<<>>) \in Calls /\ Fits("stream", Ask(<<>>), nothing)
          /\ After(Ask(<<>>), nothing) = nothing
      BY <1>0, AskFits
    <3>2. /\ Capture(<<>>) \in Calls /\ Fits("stream", Capture(<<>>), nothing)
          /\ After(Capture(<<>>), nothing) = nothing
      BY <1>0, CaptureFits
    <3> QED  BY <1>0, <3>1, <3>2, LeadsTwo
  <2>5. Leads("stream", FromResource("texture", <<>>), nothing, a1)
    <3>1. /\ {} \cup {"texture"} = {"texture"}
          /\ "texture" \in Kinds \ {"resource"}
      BY DEF Kinds
    <3> QED  BY <1>0, <3>1, FromResourceLeads
  <2>6. /\ a1 \in Stages /\ a1.newest # "left" /\ a1.held = {"texture"}
        /\ Covers(<<"texture">>, a1.held) /\ "surface" \notin a1.held
    BY CoversOne DEF Stages, Stage, Kinds
  <2> HIDE DEF a1
  <2>7. Leads("stream", Setup(<<"texture">>), a1, a2)
    BY <2>6, SetupLeads
  <2>8. a2 \in Showing
    <3>1. a2 \in Stages
      BY <2>7 DEF Leads
    <3> QED  BY <2>6, <3>1 DEF Showing, Gains
  <2> HIDE DEF a2, frames
  <2>9. PICK b \in Showing : Leads("stream", frames, a2, b)
    BY <2>8, FramesLead DEF frames
  <2>10. /\ Leave(<<"surface", "texture">>) \in Calls
         /\ Fits("stream", Leave(<<"surface", "texture">>), b)
         /\ After(Leave(<<"surface", "texture">>), b) = Left
    BY <2>9, ShownCovered, LeaveFits DEF Showing
  <2>11. Leads("stream", end, b, Left)
    BY <2>9, <2>10, LeadsOne DEF Showing
  <2>12. Leads("stream", s1, nothing, a1)
    BY <2>4, <2>5, LeadsConcat
  <2>13. Leads("stream", s2, nothing, a2)
    BY <2>7, <2>12, LeadsConcat
  <2>14. Leads("stream", s3, nothing, b)
    BY <2>9, <2>13, LeadsConcat
  <2>15. Leads("stream", s, nothing, Left)
    BY <2>3, <2>11, <2>14, LeadsConcat
  <2>16. Left \in Stages /\ Left.held = {} /\ Left.newest = "left"
    BY <2>15 DEF Leads, Left
  <2> QED  BY <1>10, <1>a, <2>1, <2>15, <2>16 DEF Ends
<1>11. CASE cmd = "smoke"
  <2> DEFINE a1 == Gains(nothing, "context")
             s1 == <<Ask(<<>>), Make("context", <<>>)>>
             s2 == <<Ask(<<"context">>), Leave(<<"context">>)>>
  <2>1. /\ s = SmokeTest /\ Printed[cmd] = {}
    BY <1>11 DEF Script, Printed
  <2>2. /\ Ask(<<>>) \in Calls /\ Fits(cmd, Ask(<<>>), nothing)
        /\ After(Ask(<<>>), nothing) = nothing
    BY <1>0, AskFits
  <2>3. /\ Make("context", <<>>) \in Calls
        /\ Fits(cmd, Make("context", <<>>), nothing)
        /\ After(Make("context", <<>>), nothing) = a1 /\ a1 \in Stages
    BY <1>0, MakeFits DEF Kinds
  <2>4. /\ a1.held = {"context"} /\ a1.newest # "left"
        /\ Covers(<<"context">>, a1.held)
    <3>1. a1.held = {"context"} /\ a1.newest # "left"
      BY <1>0 DEF Gains
    <3> QED  BY <3>1, CoversOne DEF Kinds
  <2> HIDE DEF a1
  <2>5. /\ Ask(<<"context">>) \in Calls /\ Fits(cmd, Ask(<<"context">>), a1)
        /\ After(Ask(<<"context">>), a1) = a1
    BY <2>3, <2>4, AskFits
  <2>6. /\ Leave(<<"context">>) \in Calls /\ Fits(cmd, Leave(<<"context">>), a1)
        /\ After(Leave(<<"context">>), a1) = Left
    BY <1>11, <2>3, <2>4, LeaveFits
  <2>7. Leads(cmd, s1, nothing, a1)
    BY <1>0, <2>2, <2>3, LeadsTwo
  <2>8. Leads(cmd, s2, a1, Left)
    BY <2>3, <2>5, <2>6, LeadsTwo
  <2>9. s = s1 \o s2
    BY <2>1, <2>2, <2>3, <2>5, <2>6, PairsJoin DEF SmokeTest
  <2>10. Leads(cmd, s, nothing, Left)
    BY <2>7, <2>8, <2>9, LeadsConcat
  <2>11. Left \in Stages /\ Left.held = {} /\ Left.newest = "left"
    BY <2>10 DEF Leads, Left
  <2> QED  BY <1>11, <1>a, <2>1, <2>10, <2>11 DEF Ends
<1> HIDE DEF Goal
<1> QED  BY <1>1, <1>2, <1>3, <1>4, <1>5, <1>6, <1>7, <1>8, <1>9, <1>10,
            <1>11, <1>b

------------------------------------------------------------------------------
(* The invariant of the commands                                           *)

Holding(g) == {k \in Kinds : g[k] # 0}
Objects(g) == {<<k, g[k]>> : k \in Holding(g)}

\* A client with the handles g, m objects having been made, is at stage a.
Stands(a, g, m) ==
  /\ a.held = Holding(g) /\ a.newest # "left"
  /\ a.newest \in a.held => g[a.newest] = m
  /\ a.before \in a.held => g[a.before] + 1 = m

\* A command that goes well has what it holds, and all that it still needs
\* comes about in time.
OnCourse ==
  status = "running" =>
    /\ unsure = {} /\ cleanup = <<>> /\ device = Objects(handles)
    /\ \E a, b \in Stages : /\ Stands(a, handles, made)
                            /\ Leads(command, todo, a, b) /\ Ends(command, b)

\* What a failed command may leave.
Stranded(object) ==
  /\ object[1] # "resource"
  /\ \/ /\ command \in {"svg", "rect", "change"}
        /\ object[1] \in {"svg", "surface"}
     \/ \E staged \in unsure : /\ staged[1] \in {"resource", "path"}
                               /\ staged[2] = object[2] - 1

InCleanup(object) == \E i \in DOMAIN cleanup : object = Held(cleanup[i])

OneOfAKind == \A a, b \in device : a[1] = b[1] => a = b

\* A command that gives up destroys every object once, and what it does not
\* destroy is accounted for.
Cleaning ==
  status \in {"failing", "leaving"} =>
    /\ \A i, j \in DOMAIN cleanup : cleanup[i] = cleanup[j] => i = j
    /\ \A i \in DOMAIN cleanup : Held(cleanup[i]) \in device \cup unsure
Failing ==
  status = "failing" =>
    \A object \in device \ unsure : InCleanup(object) \/ Stranded(object)
Leaving ==
  status = "leaving" =>
    /\ command \in {"stream", "smoke"} /\ OneOfAKind
    /\ \A object \in device \ unsure : InCleanup(object)
WayOut ==
  /\ cleanup \in Seq(Kinds) /\ (status # "running" => todo = <<>>)
  /\ Cleaning /\ Failing /\ Leaving /\ FailureLeavesLittle

\* A failed upload that did not take its resource back does not know it.
Reclaimed ==
  /\ pc \in {"idle", "create"} => resource = "none" /\ ~unknown
  /\ pc = "done" /\ result # "ok" =>
       resource \in {"none", "destroyed"} \/ unknown

ClientInductive == /\ ClientTypeOK /\ OnCourse /\ WayOut
                   /\ SuccessLeavesPrinted

\* An object more.
LEMMA ObjectMade ==
  ASSUME NEW m \in Nat, NEW g \in [Kinds -> 0 .. m], NEW k \in Kinds,
         NEW a \in Stages, Stands(a, g, m), k \notin a.held
  PROVE  /\ Stands(Gains(a, k), [g EXCEPT ![k] = m + 1], m + 1)
         /\ Objects([g EXCEPT ![k] = m + 1]) = Objects(g) \cup {<<k, m + 1>>}
         /\ [g EXCEPT ![k] = m + 1] \in [Kinds -> 0 .. m + 1]
<1> DEFINE h == [g EXCEPT ![k] = m + 1]
<1>1. /\ a.held = Holding(g) /\ a.newest # "left" /\ g[k] = 0
      /\ a.newest \in a.held => g[a.newest] = m
      /\ a.held \subseteq Kinds
  BY DEF Stands, Holding, Stages
<1>2. /\ h[k] = m + 1 /\ m + 1 # 0 /\ \A j \in Kinds \ {k} : h[j] = g[j]
      /\ h \in [Kinds -> 0 .. m + 1]
  OBVIOUS
<1> HIDE DEF h
<1>3. Holding(h) = a.held \cup {k}
  BY <1>1, <1>2 DEF Holding
<1>4. Objects(h) = Objects(g) \cup {<<k, m + 1>>}
  <2>1. \A j \in a.held : j # k /\ j \in Kinds
    BY <1>1
  <2>2. Objects(h) = {<<j, h[j]>> : j \in a.held \cup {k}}
    BY <1>3 DEF Objects
  <2>3. Objects(g) = {<<j, g[j]>> : j \in a.held}
    BY <1>1 DEF Objects
  <2> QED  BY <1>2, <2>1, <2>2, <2>3
<1>5. "none" \notin Kinds /\ "left" \notin Kinds
  BY DEF Kinds
<1>6. Stands(Gains(a, k), h, m + 1)
  <2> DEFINE c == Gains(a, k)
  <2>1. /\ c.held = a.held \cup {k} /\ c.newest = k
        /\ c.before = IF a.newest = k THEN "none" ELSE a.newest
    BY DEF Gains
  <2> HIDE DEF c
  <2>2. c.before \in c.held => h[c.before] + 1 = m + 1
    <3>1. SUFFICES ASSUME c.before \in c.held  PROVE h[c.before] + 1 = m + 1
      OBVIOUS
    <3>2. a.newest # k /\ c.before = a.newest /\ a.newest \in a.held
      BY <1>1, <1>5, <2>1, <3>1
    <3> QED  BY <1>1, <1>2, <3>2
  <2> QED  BY <1>2, <1>3, <1>5, <2>1, <2>2 DEF Stands, c
<1> QED  BY <1>2, <1>4, <1>6 DEF h

\* An object less.
LEMMA ObjectGone ==
  ASSUME NEW m \in Nat, NEW g \in [Kinds -> 0 .. m], NEW k \in Kinds,
         NEW a \in Stages, Stands(a, g, m)
  PROVE  /\ Stands(Loses(a, k), [g EXCEPT ![k] = 0], m)
         /\ k \in a.held =>
              Objects([g EXCEPT ![k] = 0]) = Objects(g) \ {<<k, g[k]>>}
         /\ [g EXCEPT ![k] = 0] \in [Kinds -> 0 .. m]
         /\ Loses(a, k) \in Stages
<1> DEFINE h == [g EXCEPT ![k] = 0]
<1>1. /\ a.held = Holding(g) /\ a.newest # "left"
      /\ a.newest \in a.held => g[a.newest] = m
      /\ a.before \in a.held => g[a.before] + 1 = m
      /\ a.held \subseteq Kinds
  BY DEF Stands, Holding, Stages
<1>2. /\ h[k] = 0 /\ \A j \in Kinds \ {k} : h[j] = g[j]
      /\ h \in [Kinds -> 0 .. m]
  OBVIOUS
<1> HIDE DEF h
<1>3. Holding(h) = a.held \ {k}
  BY <1>1, <1>2 DEF Holding
<1>4. Objects(h) = Objects(g) \ {<<k, g[k]>>}
  <2>1. Objects(h) = {<<j, h[j]>> : j \in a.held \ {k}}
    BY <1>3 DEF Objects
  <2>2. Objects(g) = {<<j, g[j]>> : j \in a.held}
    BY <1>1 DEF Objects
  <2> QED  BY <1>1, <1>2, <2>1, <2>2
<1>5. /\ Loses(a, k).held = a.held \ {k} /\ Loses(a, k).newest = a.newest
      /\ Loses(a, k).before = a.before /\ Loses(a, k) \in Stages
  BY DEF Loses, Stages
<1>6. Stands(Loses(a, k), h, m)
  BY <1>1, <1>2, <1>3, <1>5 DEF Stands
<1> QED  BY <1>2, <1>4, <1>5, <1>6 DEF h

\* The next call of a command finds what it needs.
LEMMA RunningIs ==
  ASSUME ClientInductive, NEW op, Running(op)
  PROVE  /\ status = "running" /\ unsure = {} /\ cleanup = <<>>
         /\ device = Objects(handles) /\ Head(todo) \in Calls
         /\ Head(todo).op = op
         /\ \E a, b \in Stages :
              /\ Stands(a, handles, made) /\ Fits(command, Head(todo), a)
              /\ Leads(command, Tail(todo), After(Head(todo), a), b)
              /\ Ends(command, b)
<1>1. status = "running" /\ todo # <<>> /\ Head(todo).op = op
  BY DEF Running
<1>2. /\ unsure = {} /\ cleanup = <<>> /\ device = Objects(handles)
      /\ \E a, b \in Stages : /\ Stands(a, handles, made)
                              /\ Leads(command, todo, a, b) /\ Ends(command, b)
  BY <1>1 DEF ClientInductive, OnCourse
<1>3. PICK a \in Stages, b \in Stages :
              /\ Stands(a, handles, made)
              /\ Leads(command, todo, a, b) /\ Ends(command, b)
  BY <1>2
<1>4. /\ Head(todo) \in Calls /\ Fits(command, Head(todo), a)
      /\ Leads(command, Tail(todo), After(Head(todo), a), b)
  BY <1>1, <1>3, LeadsHead
<1> QED  BY <1>1, <1>2, <1>3, <1>4

\* A call that succeeds keeps the command on its course.
LEMMA Advances ==
  ASSUME NEW a \in Stages, NEW b \in Stages, status = "running",
         WayOut, cleanup = <<>>, unsure' = {},
         Leads(command, Tail(todo), a, b), Ends(command, b), Succeed,
         Stands(a, handles', made'), device' = Objects(handles')
  PROVE  OnCourse' /\ WayOut' /\ SuccessLeavesPrinted'
<1>1. /\ todo' = Tail(todo) /\ command' = command /\ cleanup' = cleanup
      /\ status' = "running"
  BY DEF Succeed
<1>2. Leads(command', todo', a, b) /\ Ends(command', b)
  BY <1>1
<1>3. OnCourse'
  BY <1>1, <1>2 DEF OnCourse
<1>4. WayOut'
  BY <1>1 DEF WayOut, Cleaning, Failing, Leaving, FailureLeavesLittle
<1>5. SuccessLeavesPrinted'
  BY <1>1 DEF SuccessLeavesPrinted
<1> QED  BY <1>3, <1>4, <1>5

\* A call that fails leaves what its undo destroys, and little else.
LEMMA GivesUp ==
  ASSUME NEW a \in Stages, Head(todo) \in Calls,
         Stands(a, handles, made), Fits(command, Head(todo), a), Abandon,
         device = Objects(handles), made \in Nat, made' \in Nat,
         handles \in [Kinds -> 0 .. made],
         \A i \in DOMAIN Head(todo).undo :
            LET k == Head(todo).undo[i]
            IN  /\ handles'[k] = handles[k]
                /\ <<k, handles[k]>> \in device' \cup unsure',
         device' \ unsure' \subseteq device,
         Head(todo).op = "drop" =>
           <<Head(todo).kind, handles[Head(todo).kind]>> \in unsure'
  PROVE  OnCourse' /\ WayOut' /\ SuccessLeavesPrinted'
<1> DEFINE c == Head(todo)
<1>1. /\ todo' = <<>> /\ command' = command /\ cleanup' = c.undo
      /\ status' = "failing"
  BY DEF Abandon, Quit
<1>2. OnCourse' /\ SuccessLeavesPrinted'
  BY <1>1 DEF OnCourse, SuccessLeavesPrinted
<1>3. cleanup' \in Seq(Kinds)
  BY <1>1 DEF Calls
<1>4. Cleaning'
  <2>1. \A i, j \in DOMAIN cleanup' : cleanup'[i] = cleanup'[j] => i = j
    BY <1>1 DEF Fits
  <2>2. \A i \in DOMAIN cleanup' :
           <<cleanup'[i], handles'[cleanup'[i]]>> \in device' \cup unsure'
    BY <1>1
  <2> QED  BY <2>1, <2>2 DEF Cleaning, Held
<1>5. ASSUME NEW object \in device' \ unsure'
      PROVE  InCleanup(object)' \/ Stranded(object)'
  <2>1. PICK k \in a.held : object = <<k, handles[k]>>
    BY DEF Objects, Stands
  <2>2. CASE \E i \in DOMAIN c.undo : c.undo[i] = k
    BY <1>1, <2>1, <2>2 DEF InCleanup, Held
  <2>3. CASE \A i \in DOMAIN c.undo : c.undo[i] # k
    <3>1. k \in Kept(c, a)
      BY <1>5, <2>1, <2>3 DEF Kept
    <3>2. CASE /\ command \in {"svg", "rect", "change"}
               /\ Kept(c, a) \subseteq {"svg", "surface"}
      <4>1. k \in {"svg", "surface"} /\ object[1] = k
        BY <2>1, <3>1, <3>2
      <4> QED  BY <1>1, <3>2, <4>1 DEF Stranded
    <3>3. CASE /\ c.op = "drop" /\ c.kind \in {"resource", "path"}
               /\ c.kind = a.before /\ a.newest # "resource"
               /\ Kept(c, a) = {a.newest}
      <4>1. k = a.newest /\ k # "resource" /\ c.kind \in a.held
        BY <3>1, <3>3 DEF Fits
      <4>2. handles[k] = made /\ handles[c.kind] + 1 = made
        BY <3>3, <4>1 DEF Stands
      <4>3. handles[c.kind] = handles[k] - 1
        <5>1. handles[c.kind] \in Nat
          BY <3>3 DEF Kinds
        <5> QED  BY <4>2, <5>1
      <4>4. /\ object[1] = k /\ object[2] = handles[k]
            /\ <<c.kind, handles[c.kind]>> \in unsure'
        BY <2>1, <3>3
      <4>5. \E staged \in unsure' : /\ staged[1] \in {"resource", "path"}
                                    /\ staged[2] = object[2] - 1
        BY <3>3, <4>3, <4>4
      <4> QED  BY <4>1, <4>4, <4>5 DEF Stranded
    <3> HIDE DEF c
    <3> QED  BY <3>1, <3>2, <3>3 DEF Fits, c
  <2> QED  BY <2>2, <2>3
<1> HIDE DEF c
<1> QED  BY <1>1, <1>2, <1>3, <1>4, <1>5
         DEF WayOut, Failing, Leaving, FailureLeavesLittle

\* A command that leaves destroys all that it holds.
LEMMA LeavesAll ==
  ASSUME NEW a \in Stages, Head(todo) \in Calls,
         Stands(a, handles, made), Fits(command, Head(todo), a),
         Quit("leaving"), device = Objects(handles), UNCHANGED objects,
         \/ Head(todo).op = "leave"
         \/ Head(todo).op = "capture" /\ Head(todo).undo # <<>>
  PROVE  OnCourse' /\ WayOut' /\ SuccessLeavesPrinted'
<1> DEFINE c == Head(todo)
<1>1. /\ todo' = <<>> /\ command' = command /\ cleanup' = c.undo
      /\ status' = "leaving" /\ UNCHANGED <<device, handles, made, unsure>>
  BY DEF Quit, objects
<1>2. OnCourse' /\ SuccessLeavesPrinted'
  BY <1>1 DEF OnCourse, SuccessLeavesPrinted
<1>3. cleanup' \in Seq(Kinds)
  BY <1>1 DEF Calls
<1>4. command \in {"stream", "smoke"} /\ Kept(c, a) = {}
  BY DEF Fits
<1>5. \A i \in DOMAIN c.undo : c.undo[i] \in a.held
  BY DEF Fits
<1>6. Cleaning'
  <2>1. \A i, j \in DOMAIN cleanup' : cleanup'[i] = cleanup'[j] => i = j
    BY <1>1 DEF Fits
  <2>2. \A k \in a.held : <<k, handles[k]>> \in device
    BY DEF Objects, Stands
  <2>3. \A i \in DOMAIN cleanup' :
           <<cleanup'[i], handles'[cleanup'[i]]>> \in device' \cup unsure'
    BY <1>1, <1>5, <2>2
  <2> QED  BY <2>1, <2>3 DEF Cleaning, Held
<1>7. ASSUME NEW object \in device'  PROVE InCleanup(object)'
  <2>1. PICK k \in a.held : object = <<k, handles[k]>>
    BY <1>1 DEF Objects, Stands
  <2>2. c.op # "drop"
    OBVIOUS
  <2>3. PICK i \in DOMAIN c.undo : c.undo[i] = k
    BY <1>4, <2>1, <2>2 DEF Kept
  <2> QED  BY <1>1, <2>1, <2>3 DEF InCleanup, Held
<1>8. OneOfAKind'
  BY <1>1 DEF OneOfAKind, Objects
<1> HIDE DEF c
<1> QED  BY <1>1, <1>2, <1>3, <1>4, <1>6, <1>7, <1>8
         DEF WayOut, Failing, Leaving, FailureLeavesLittle

------------------------------------------------------------------------------
(* The steps of a command                                                  *)

\* What the type invariant asks of a call that ends.
LEMMA TypeHolds ==
  ASSUME ClientTypeOK, TypeOK', pc' = "idle",
         made' \in Nat, handles' \in [Kinds -> 0 .. made'],
         device' \subseteq Kinds \X (1 .. made'),
         unsure' \subseteq Kinds \X (1 .. made'),
         command' = command, display' = display, cleanup' \in Seq(Kinds),
         status' \in {"running", "failing", "leaving", "ok", "failed"},
         \/ picture' \in {picture, NoPicture}
         \/ picture' \in [requested : Rotations \cup {AutoRotation},
                          size : Pictures]
  PROVE  ClientTypeOK'
<1>1. command \in DOMAIN Script /\ display \in Displays
  BY DEF ClientTypeOK
<1>2. \/ picture' = NoPicture
      \/ picture' \in [requested : Rotations \cup {AutoRotation},
                       size : Pictures]
  BY DEF ClientTypeOK
<1>3. \A i \in DOMAIN cleanup' : cleanup'[i] \in Kinds
  OBVIOUS
<1>4. command' \in DOMAIN Script' /\ display' \in Displays
  BY <1>1 DEF Script
<1> QED  BY <1>2, <1>3, <1>4 DEF ClientTypeOK

\* Outside of an upload no request is one of it.
LEMMA Idle ==
  ASSUME ClientTypeOK, \/ \E op \in Ops \ {"upload"} : Running(op)
                       \/ status # "running"
                       \/ todo = <<>>
  PROVE  pc = "idle"
  BY DEF ClientTypeOK, Running

\* The numbers of the objects there are, and of one more.
LEMMA OneMore ==
  ASSUME NEW m \in Nat, NEW S \in SUBSET (Kinds \X (1 .. m)), NEW k \in Kinds
  PROVE  /\ S \subseteq Kinds \X (1 .. m + 1) /\ m + 1 \in Nat
         /\ S \cup {<<k, m + 1>>} \subseteq Kinds \X (1 .. m + 1)
<1>1. \A i \in 1 .. m : i \in 1 .. m + 1
  OBVIOUS
<1>2. m + 1 \in 1 .. m + 1 /\ m + 1 \in Nat
  OBVIOUS
<1>3. ASSUME NEW x \in S  PROVE x \in Kinds \X (1 .. m + 1)
  BY <1>1
<1> QED  BY <1>2, <1>3

\* An object the client holds the handle of has a number.
LEMMA HeldNumber ==
  ASSUME NEW m \in Nat, NEW g \in [Kinds -> 0 .. m], NEW a \in Stages,
         Stands(a, g, m), NEW k \in a.held
  PROVE  /\ k \in Kinds /\ g[k] \in 1 .. m /\ <<k, g[k]>> \in Objects(g)
         /\ <<k, g[k]>> \in Kinds \X (1 .. m)
<1>1. k \in Kinds /\ g[k] # 0 /\ k \in Holding(g)
  BY DEF Stages, Stands, Holding
<1>2. g[k] \in 1 .. m
  BY <1>1
<1> QED  BY <1>1, <1>2 DEF Objects

\* The types the steps rely on.
LEMMA ClientTypes ==
  ASSUME ClientInductive
  PROVE  /\ made \in Nat /\ handles \in [Kinds -> 0 .. made]
         /\ device \in SUBSET (Kinds \X (1 .. made))
         /\ unsure \in SUBSET (Kinds \X (1 .. made))
         /\ ClientTypeOK /\ WayOut
  BY DEF ClientInductive, ClientTypeOK

------------------------------------------------------------------------------
\* A call makes an object and hands it to the client.
LEMMA MakesOne ==
  ASSUME ClientInductive, TypeOK', pc' = "idle",
         picture' \in {picture, NoPicture},
         NEW op \in {"make", "upload"}, Running(op),
         device' = device \cup {Fresh}, made' = made + 1,
         handles' = [handles EXCEPT ![Kind] = made + 1],
         Succeed, unsure' = unsure
  PROVE  ClientInductive'
<1>1. /\ status = "running" /\ unsure = {} /\ cleanup = <<>>
      /\ device = Objects(handles) /\ Head(todo).op = op
      /\ \E a, b \in Stages :
              /\ Stands(a, handles, made) /\ Fits(command, Head(todo), a)
              /\ Leads(command, Tail(todo), After(Head(todo), a), b)
              /\ Ends(command, b)
  BY RunningIs
<1>2. PICK a \in Stages, b \in Stages :
              /\ Stands(a, handles, made) /\ Fits(command, Head(todo), a)
              /\ Leads(command, Tail(todo), After(Head(todo), a), b)
              /\ Ends(command, b)
  BY <1>1
<1>3. /\ Kind \in Kinds \ a.held
      /\ After(Head(todo), a) = Gains(a, Kind)
  BY <1>1, <1>2 DEF Fits, After, Kind
<1>4. /\ made \in Nat /\ handles \in [Kinds -> 0 .. made]
      /\ device \in SUBSET (Kinds \X (1 .. made)) /\ ClientTypeOK /\ WayOut
  BY ClientTypes
<1>5. /\ Stands(Gains(a, Kind), handles', made')
      /\ Objects(handles') = Objects(handles) \cup {<<Kind, made + 1>>}
      /\ handles' \in [Kinds -> 0 .. made']
  BY <1>2, <1>3, <1>4, ObjectMade
<1>6. Leads(command, Tail(todo), Gains(a, Kind), b) /\ Gains(a, Kind) \in Stages
  BY <1>2, <1>3 DEF Leads
<1>7. device' = Objects(handles')
  BY <1>1, <1>5 DEF Fresh
<1>8. OnCourse' /\ WayOut' /\ SuccessLeavesPrinted'
  BY <1>1, <1>2, <1>4, <1>5, <1>6, <1>7, Advances
<1>9. /\ device' \subseteq Kinds \X (1 .. made') /\ made' \in Nat
      /\ unsure' \subseteq Kinds \X (1 .. made')
  BY <1>1, <1>3, <1>4, OneMore DEF Fresh
<1>10. /\ command' = command /\ display' = display /\ cleanup' \in Seq(Kinds)
       /\ status' \in {"running", "failing", "leaving", "ok", "failed"}
  BY <1>1, EmptySeq DEF Succeed
<1>11. ClientTypeOK'
  BY <1>4, <1>5, <1>9, <1>10, TypeHolds
<1> QED  BY <1>8, <1>11 DEF ClientInductive
\* A call fails and what the client holds stays as it is, or is unsure.
LEMMA FailsHolding ==
  ASSUME ClientInductive, TypeOK', pc' = "idle",
         picture' \in {picture, NoPicture},
         NEW op \in Ops \ {"drop"}, Running(op), Abandon, handles' = handles,
         made' \in {made, made + 1},
         device' \subseteq Kinds \X (1 .. made'),
         unsure' \subseteq Kinds \X (1 .. made'),
         device \subseteq device' \cup unsure',
         device' \ unsure' \subseteq device
  PROVE  ClientInductive'
<1>1. /\ device = Objects(handles) /\ Head(todo).op = op /\ Head(todo) \in Calls
      /\ \E a \in Stages :
              Stands(a, handles, made) /\ Fits(command, Head(todo), a)
  BY RunningIs
<1>2. PICK a \in Stages :
              Stands(a, handles, made) /\ Fits(command, Head(todo), a)
  BY <1>1
<1>3. /\ made \in Nat /\ handles \in [Kinds -> 0 .. made] /\ ClientTypeOK
  BY ClientTypes
<1>4. made' \in Nat /\ handles' \in [Kinds -> 0 .. made']
  <2>1. \A i \in 0 .. made : i \in 0 .. made + 1
    BY <1>3
  <2> QED  BY <1>3, <2>1
<1>5. ASSUME NEW i \in DOMAIN Head(todo).undo
      PROVE  /\ handles'[Head(todo).undo[i]] = handles[Head(todo).undo[i]]
             /\ <<Head(todo).undo[i], handles[Head(todo).undo[i]]>>
                  \in device' \cup unsure'
  <2>1. Head(todo).undo[i] \in a.held
    BY <1>2 DEF Fits
  <2>2. <<Head(todo).undo[i], handles[Head(todo).undo[i]]>> \in device
    BY <1>1, <1>2, <1>3, <2>1, HeldNumber
  <2> QED  BY <2>2
<1>6. Head(todo).op # "drop"
  BY <1>1
<1>7. OnCourse' /\ WayOut' /\ SuccessLeavesPrinted'
  BY <1>1, <1>2, <1>3, <1>4, <1>5, <1>6, GivesUp
<1>8. /\ command' = command /\ display' = display /\ cleanup' \in Seq(Kinds)
      /\ status' \in {"running", "failing", "leaving", "ok", "failed"}
  BY <1>1 DEF Abandon, Quit, Calls
<1>9. ClientTypeOK'
  BY <1>3, <1>4, <1>8, TypeHolds
<1> QED  BY <1>7, <1>9 DEF ClientInductive

------------------------------------------------------------------------------
\* Reclaimed speaks of the upload alone.
LEMMA ReclaimedStep ==
  ASSUME TypeOK, Outcome, Reclaimed, [UploadNext]_vars
  PROVE  Reclaimed'
<1>1. CASE UNCHANGED vars
  BY <1>1 DEF vars, call, Reclaimed
<1>2. CASE Start \/ Finish
  BY <1>2 DEF Start, Finish, call, Reclaimed
<1>3. CASE Create \/ CreateFails \/ CreateRefused \/ CreateWrongCount
  <2>1. pc' # "idle" /\ pc' # "create"
    BY <1>3 DEF Create, CreateFails, CreateRefused, CreateWrongCount, GiveUp
  <2>2. pc' = "done" => resource' = "none" \/ unknown'
    BY <1>3 DEF Create, CreateFails, CreateRefused, CreateWrongCount, GiveUp,
                Reclaimed
  <2> QED  BY <2>1, <2>2 DEF Reclaimed
<1>4. CASE SendChunk \/ SendFails \/ SendDone
  BY <1>4 DEF SendChunk, SendFails, SendDone, GiveUp, Reclaimed
<1>5. CASE \/ CommitOk \/ CommitIncomplete \/ CommitMismatch \/ CommitCutOff
           \/ CommitRefused
  BY <1>5 DEF CommitOk, CommitIncomplete, CommitMismatch, CommitCutOff,
              CommitRefused, NextRound, GiveUp, Reclaimed
<1>6. CASE Destroy
  BY <1>6 DEF Destroy, Reclaimed
<1> QED  BY <1>1, <1>2, <1>3, <1>4, <1>5, <1>6 DEF UploadNext, Step

------------------------------------------------------------------------------
\* An upload begins.
LEMMA UploadStartsHolds ==
  ASSUME ClientInductive, TypeOK', UploadStarts
  PROVE  ClientInductive'
<1>1. /\ Running("upload") /\ picture' = NoPicture
      /\ UNCHANGED <<command, todo, cleanup, status, objects, display>>
  BY DEF UploadStarts
<1>2. Running("upload")'
  BY <1>1 DEF Running
<1>3. ClientTypeOK'
  BY <1>1, <1>2 DEF ClientInductive, ClientTypeOK, objects, Script
<1>4. OnCourse' /\ WayOut' /\ SuccessLeavesPrinted'
  BY <1>1 DEF ClientInductive, OnCourse, WayOut, Cleaning, Failing, Leaving,
              OneOfAKind, InCleanup, Stranded, Held, FailureLeavesLittle,
              SuccessLeavesPrinted, objects
<1> QED  BY <1>3, <1>4 DEF ClientInductive

\* What an upload does is no concern of the command.
LEMMA UploadStepsHolds ==
  ASSUME ClientInductive, TypeOK', UploadSteps \/ UNCHANGED <<vars, clientVars>>
  PROVE  ClientInductive'
<1>1. pc' # "idle" => pc # "idle"
  BY DEF UploadSteps, Step, Create, CreateFails, CreateRefused,
         CreateWrongCount, SendChunk, SendFails, SendDone, CommitOk,
         CommitIncomplete, CommitMismatch, CommitCutOff, CommitRefused,
         Destroy, vars
<1>2. UNCHANGED <<command, todo, cleanup, status, device, handles, made, unsure,
                  display, picture>>
  BY DEF UploadSteps, clientVars, objects
<1>3. pc' # "idle" => Running("upload")'
  BY <1>1, <1>2 DEF ClientInductive, ClientTypeOK, Running
<1>4. ClientTypeOK'
  BY <1>2, <1>3 DEF ClientInductive, ClientTypeOK, Script
<1>5. OnCourse' /\ WayOut' /\ SuccessLeavesPrinted'
  BY <1>2 DEF ClientInductive, OnCourse, WayOut, Cleaning, Failing, Leaving,
              OneOfAKind, InCleanup, Stranded, Held, FailureLeavesLittle,
              SuccessLeavesPrinted
<1> QED  BY <1>4, <1>5 DEF ClientInductive

\* The upload has made a resource.
LEMMA UploadSucceedsHolds ==
  ASSUME ClientInductive, TypeOK', UploadSucceeds
  PROVE  ClientInductive'
<1>1. /\ pc = "done" /\ pc' = "idle" /\ picture' = picture
      /\ device' = device \cup {Fresh} /\ made' = made + 1
      /\ handles' = [handles EXCEPT ![Kind] = made + 1]
      /\ Succeed /\ unsure' = unsure
  BY DEF UploadSucceeds, Finish
<1>2. Running("upload")
  BY <1>1 DEF ClientInductive, ClientTypeOK
<1> QED  BY <1>1, <1>2, MakesOne

\* A resource the upload left is one it does not know.
LEMMA UploadFailsHolds ==
  ASSUME ClientInductive, TypeOK, TypeOK', Reclaimed, UploadFails
  PROVE  ClientInductive'
<1>1. /\ pc = "done" /\ result # "ok" /\ pc' = "idle" /\ picture' = picture
      /\ handles' = handles /\ Abandon
      /\ IF resource \in {"open", "committed"}
         THEN /\ device' = device \cup {Fresh} /\ made' = made + 1
              /\ unsure' = IF unknown THEN unsure \cup {Fresh} ELSE unsure
         ELSE UNCHANGED <<device, made, unsure>>
  BY DEF UploadFails, Finish
<1>2. Running("upload")
  BY <1>1 DEF ClientInductive, ClientTypeOK
<1>3. resource \in {"open", "committed"} => unknown
  BY <1>1 DEF Reclaimed
<1>4. \/ device' = device /\ unsure' = unsure /\ made' = made
      \/ /\ device' = device \cup {Fresh} /\ unsure' = unsure \cup {Fresh}
         /\ made' = made + 1
  BY <1>1, <1>3
<1>5. Kind \in Kinds
  BY <1>2, RunningIs DEF Fits, Kind
<1>6. /\ made' \in {made, made + 1}
      /\ device' \subseteq Kinds \X (1 .. made')
      /\ unsure' \subseteq Kinds \X (1 .. made')
      /\ device \subseteq device' \cup unsure'
      /\ device' \ unsure' \subseteq device
  BY <1>4, <1>5, ClientTypes, OneMore DEF Fresh
<1>7. "upload" \in Ops \ {"drop"}
  BY DEF Ops
<1> QED  BY <1>1, <1>2, <1>6, <1>7, FailsHolding

------------------------------------------------------------------------------
\* What every action of Request but Undo and Exit has in common.
LEMMA RequestIs ==
  ASSUME ClientInductive, UNCHANGED <<vars, picture>>,
         NEW op \in Ops \ {"upload"}, Running(op)
  PROVE  /\ pc' = "idle" /\ picture' \in {picture, NoPicture}
         /\ status = "running" /\ unsure = {} /\ cleanup = <<>>
         /\ device = Objects(handles) /\ Head(todo) \in Calls
         /\ Head(todo).op = op
         /\ \E a, b \in Stages :
              /\ Stands(a, handles, made) /\ Fits(command, Head(todo), a)
              /\ Leads(command, Tail(todo), After(Head(todo), a), b)
              /\ Ends(command, b)
<1>1. pc' = "idle" /\ picture' = picture
  BY Idle, ClientTypes DEF vars
<1> QED  BY <1>1, RunningIs

\* An object is made, or perhaps.
LEMMA MakeHolds ==
  ASSUME ClientInductive, TypeOK', UNCHANGED <<vars, picture>>,
         MakeOk \/ MakeFails \/ MakeLost
  PROVE  ClientInductive'
<1>0. "make" \in Ops \ {"upload"} /\ "make" \in Ops \ {"drop"}
  BY DEF Ops
<1>1. Running("make")
  BY DEF MakeOk, MakeFails, MakeLost
<1>2. pc' = "idle" /\ picture' \in {picture, NoPicture}
  BY <1>0, <1>1, RequestIs
<1>3. CASE MakeOk
  <2>1. /\ device' = device \cup {Fresh} /\ made' = made + 1
        /\ handles' = [handles EXCEPT ![Kind] = made + 1]
        /\ Succeed /\ unsure' = unsure
    BY <1>3 DEF MakeOk
  <2> QED  BY <1>1, <1>2, <2>1, MakesOne
<1>4. CASE MakeFails
  <2>1. UNCHANGED <<device, handles, made, unsure>> /\ Abandon
    BY <1>4 DEF MakeFails, objects
  <2>2. /\ device' \subseteq Kinds \X (1 .. made')
        /\ unsure' \subseteq Kinds \X (1 .. made')
    BY <2>1, ClientTypes
  <2> QED  BY <1>0, <1>1, <1>2, <2>1, <2>2, FailsHolding
<1>5. CASE MakeLost
  <2>1. /\ device' = device \cup {Fresh} /\ made' = made + 1
        /\ unsure' = unsure \cup {Fresh} /\ Abandon /\ handles' = handles
    BY <1>5 DEF MakeLost
  <2>2. Kind \in Kinds
    BY <1>1, RunningIs DEF Fits, Kind
  <2>3. /\ device' \subseteq Kinds \X (1 .. made')
        /\ unsure' \subseteq Kinds \X (1 .. made')
        /\ device \subseteq device' \cup unsure'
        /\ device' \ unsure' \subseteq device
    BY <2>1, <2>2, ClientTypes, OneMore DEF Fresh
  <2> QED  BY <1>0, <1>1, <1>2, <2>1, <2>3, FailsHolding
<1> QED  BY <1>3, <1>4, <1>5

\* The resource that is consumed is on the device.
LEMMA ConsumeHolds ==
  ASSUME ClientInductive, TypeOK', UNCHANGED <<vars, picture>>,
         ConsumeOk \/ ConsumeFails \/ ConsumeLost
  PROVE  ClientInductive'
<1>0. "consume" \in Ops \ {"upload"} /\ "consume" \in Ops \ {"drop"}
  BY DEF Ops
<1>1. Running("consume")
  BY DEF ConsumeOk, ConsumeFails, ConsumeLost
<1>2. /\ pc' = "idle" /\ picture' \in {picture, NoPicture}
      /\ status = "running" /\ unsure = {} /\ cleanup = <<>>
      /\ device = Objects(handles) /\ Head(todo).op = "consume"
      /\ \E a, b \in Stages :
              /\ Stands(a, handles, made) /\ Fits(command, Head(todo), a)
              /\ Leads(command, Tail(todo), After(Head(todo), a), b)
              /\ Ends(command, b)
  BY <1>0, <1>1, RequestIs
<1>3. PICK a \in Stages, b \in Stages :
              /\ Stands(a, handles, made) /\ Fits(command, Head(todo), a)
              /\ Leads(command, Tail(todo), After(Head(todo), a), b)
              /\ Ends(command, b)
  BY <1>2
<1>4. /\ Kind \in Kinds \ a.held /\ "resource" \in a.held
      /\ After(Head(todo), a) = Gains(Loses(a, "resource"), Kind)
  BY <1>2, <1>3 DEF Fits, After, Kind
<1>5. /\ made \in Nat /\ handles \in [Kinds -> 0 .. made]
      /\ device \in SUBSET (Kinds \X (1 .. made)) /\ ClientTypeOK /\ WayOut
  BY ClientTypes
<1>6. Held("resource") \in device /\ Held("resource") \in Kinds \X (1 .. made)
  BY <1>2, <1>3, <1>4, <1>5, HeldNumber DEF Held
<1>7. CASE ConsumeOk
  <2> DEFINE a0 == Loses(a, "resource")
             g  == [handles EXCEPT !["resource"] = 0]
  <2>1. /\ device' = (device \ {<<"resource", handles["resource"]>>})
                       \cup {<<Kind, made + 1>>}
        /\ made' = made + 1
        /\ handles' = [g EXCEPT ![Kind] = made + 1]
        /\ Succeed /\ unsure' = unsure
    BY <1>7 DEF ConsumeOk, Held, Fresh, Forget
  <2>2. /\ Stands(a0, g, made) /\ a0 \in Stages
        /\ Objects(g) = Objects(handles) \ {<<"resource", handles["resource"]>>}
        /\ g \in [Kinds -> 0 .. made]
    <3>1. "resource" \in Kinds
      BY DEF Kinds
    <3> QED  BY <1>3, <1>4, <1>5, <3>1, ObjectGone
  <2>3. Kind \in Kinds /\ Kind \notin a0.held
    BY <1>4 DEF Loses, Stages
  <2> HIDE DEF a0, g
  <2>4. /\ Stands(Gains(a0, Kind), handles', made')
        /\ Objects(handles') = Objects(g) \cup {<<Kind, made + 1>>}
        /\ handles' \in [Kinds -> 0 .. made']
    BY <1>5, <2>1, <2>2, <2>3, ObjectMade
  <2>5. device' = Objects(handles')
    BY <1>2, <2>1, <2>2, <2>4
  <2>6. Leads(command, Tail(todo), Gains(a0, Kind), b)
        /\ Gains(a0, Kind) \in Stages
    BY <1>3, <1>4 DEF Leads, a0
  <2>7. OnCourse' /\ WayOut' /\ SuccessLeavesPrinted'
    BY <1>2, <1>3, <1>5, <2>1, <2>4, <2>5, <2>6, Advances
  <2>8. /\ device' \subseteq Kinds \X (1 .. made') /\ made' \in Nat
        /\ unsure' \subseteq Kinds \X (1 .. made')
    BY <1>2, <1>5, <2>1, <2>3, OneMore
  <2>9. /\ command' = command /\ display' = display /\ cleanup' \in Seq(Kinds)
        /\ status' \in {"running", "failing", "leaving", "ok", "failed"}
    BY <1>2, <2>1, EmptySeq DEF Succeed
  <2>10. ClientTypeOK'
    BY <1>2, <1>5, <2>4, <2>8, <2>9, TypeHolds
  <2> QED  BY <2>7, <2>10 DEF ClientInductive
<1>8. CASE ConsumeFails
  <2>1. UNCHANGED <<device, handles, made, unsure>> /\ Abandon
    BY <1>8 DEF ConsumeFails, objects
  <2>2. /\ device' \subseteq Kinds \X (1 .. made')
        /\ unsure' \subseteq Kinds \X (1 .. made')
    BY <2>1, ClientTypes
  <2> QED  BY <1>0, <1>1, <1>2, <2>1, <2>2, FailsHolding
<1>9. CASE ConsumeLost
  <2>1. /\ device' = (device \ {Held("resource")}) \cup {Fresh}
        /\ made' = made + 1
        /\ unsure' = unsure \cup {Fresh, Held("resource")}
        /\ Abandon /\ handles' = handles
    BY <1>9 DEF ConsumeLost
  <2>2. Held("resource") \in Kinds \X (1 .. made')
    BY <1>5, <1>6, <2>1, OneMore
  <2>3. /\ Fresh \in Kinds \X (1 .. made')
        /\ device \subseteq Kinds \X (1 .. made')
    BY <1>4, <1>5, <2>1, OneMore DEF Fresh
  <2>4. /\ device' \subseteq Kinds \X (1 .. made')
        /\ unsure' \subseteq Kinds \X (1 .. made')
        /\ device \subseteq device' \cup unsure'
        /\ device' \ unsure' \subseteq device
    BY <1>2, <2>1, <2>2, <2>3
  <2> QED  BY <1>0, <1>1, <1>2, <2>1, <2>4, FailsHolding
<1> QED  BY <1>7, <1>8, <1>9

\* The object that is destroyed is on the device, and in no undo.
LEMMA DropHolds ==
  ASSUME ClientInductive, TypeOK', UNCHANGED <<vars, picture>>,
         DropOk \/ DropFails
  PROVE  ClientInductive'
<1>0. "drop" \in Ops \ {"upload"}
  BY DEF Ops
<1>1. Running("drop")
  BY DEF DropOk, DropFails
<1>2. /\ pc' = "idle" /\ picture' \in {picture, NoPicture}
      /\ status = "running" /\ unsure = {} /\ cleanup = <<>>
      /\ device = Objects(handles) /\ Head(todo).op = "drop"
      /\ Head(todo) \in Calls
      /\ \E a, b \in Stages :
              /\ Stands(a, handles, made) /\ Fits(command, Head(todo), a)
              /\ Leads(command, Tail(todo), After(Head(todo), a), b)
              /\ Ends(command, b)
  BY <1>0, <1>1, RequestIs
<1>3. PICK a \in Stages, b \in Stages :
              /\ Stands(a, handles, made) /\ Fits(command, Head(todo), a)
              /\ Leads(command, Tail(todo), After(Head(todo), a), b)
              /\ Ends(command, b)
  BY <1>2
<1>4. /\ Kind \in a.held /\ Kind = Head(todo).kind
      /\ \A i \in DOMAIN Head(todo).undo : Head(todo).undo[i] # Kind
      /\ \A i \in DOMAIN Head(todo).undo : Head(todo).undo[i] \in a.held
      /\ After(Head(todo), a) = Loses(a, Kind)
  BY <1>2, <1>3 DEF Fits, After, Kind
<1>5. /\ made \in Nat /\ handles \in [Kinds -> 0 .. made]
      /\ device \in SUBSET (Kinds \X (1 .. made)) /\ ClientTypeOK /\ WayOut
  BY ClientTypes
<1>6. /\ Held(Kind) \in Kinds \X (1 .. made) /\ Kind \in Kinds
      /\ \A k \in a.held : <<k, handles[k]>> \in device /\ k \in Kinds
  BY <1>2, <1>3, <1>4, <1>5, HeldNumber DEF Held
<1>7. /\ Stands(Loses(a, Kind), [handles EXCEPT ![Kind] = 0], made)
      /\ Objects([handles EXCEPT ![Kind] = 0]) =
           Objects(handles) \ {<<Kind, handles[Kind]>>}
      /\ [handles EXCEPT ![Kind] = 0] \in [Kinds -> 0 .. made]
      /\ Loses(a, Kind) \in Stages
  <2>1. Kind \in Kinds /\ Stands(a, handles, made) /\ Kind \in a.held
    BY <1>3, <1>4, <1>6
  <2> QED  BY <1>5, <2>1, ObjectGone
<1>8. CASE DropOk
  <2>1. /\ device' = device \ {<<Kind, handles[Kind]>>}
        /\ handles' = [handles EXCEPT ![Kind] = 0]
        /\ Succeed /\ unsure' = unsure /\ made' = made
    BY <1>8 DEF DropOk, Held, Forget
  <2>2. device' = Objects(handles')
    BY <1>2, <1>7, <2>1
  <2>3. Leads(command, Tail(todo), Loses(a, Kind), b)
    BY <1>3, <1>4
  <2>4. Stands(Loses(a, Kind), handles', made')
    BY <1>7, <2>1
  <2>5. OnCourse' /\ WayOut' /\ SuccessLeavesPrinted'
    BY <1>2, <1>3, <1>5, <1>7, <2>1, <2>2, <2>3, <2>4, Advances
  <2>6. /\ device' \subseteq Kinds \X (1 .. made') /\ made' \in Nat
        /\ unsure' \subseteq Kinds \X (1 .. made')
        /\ handles' \in [Kinds -> 0 .. made']
    BY <1>2, <1>5, <1>7, <2>1
  <2>7. /\ command' = command /\ display' = display /\ cleanup' \in Seq(Kinds)
        /\ status' \in {"running", "failing", "leaving", "ok", "failed"}
    BY <1>2, <2>1, EmptySeq DEF Succeed
  <2>8. ClientTypeOK'
    BY <1>2, <1>5, <2>6, <2>7, TypeHolds
  <2> QED  BY <2>5, <2>8 DEF ClientInductive
<1>9. CASE DropFails
  <2>1. /\ device' \in {device, device \ {Held(Kind)}}
        /\ unsure' = unsure \cup {Held(Kind)}
        /\ handles' = [handles EXCEPT ![Kind] = 0]
        /\ Abandon /\ made' = made
    BY <1>9 DEF DropFails, Forget
  <2>2. ASSUME NEW i \in DOMAIN Head(todo).undo
        PROVE  /\ handles'[Head(todo).undo[i]] = handles[Head(todo).undo[i]]
               /\ <<Head(todo).undo[i], handles[Head(todo).undo[i]]>>
                    \in device' \cup unsure'
    <3>1. /\ Head(todo).undo[i] # Kind /\ Head(todo).undo[i] \in Kinds
          /\ <<Head(todo).undo[i], handles[Head(todo).undo[i]]>> \in device
      BY <1>4, <1>6
    <3> QED  BY <1>5, <2>1, <3>1
  <2>3. <<Head(todo).kind, handles[Head(todo).kind]>> \in unsure'
    BY <1>4, <2>1 DEF Held
  <2>4. device' \ unsure' \subseteq device
    BY <2>1
  <2>5. made' \in Nat
    BY <1>5, <2>1
  <2>6. OnCourse' /\ WayOut' /\ SuccessLeavesPrinted'
    BY <1>2, <1>3, <1>5, <2>1, <2>2, <2>3, <2>4, <2>5, GivesUp
  <2>7. /\ device' \subseteq Kinds \X (1 .. made')
        /\ unsure' \subseteq Kinds \X (1 .. made')
        /\ handles' \in [Kinds -> 0 .. made']
    BY <1>2, <1>5, <1>6, <1>7, <2>1
  <2>8. /\ command' = command /\ display' = display /\ cleanup' \in Seq(Kinds)
        /\ status' \in {"running", "failing", "leaving", "ok", "failed"}
    BY <1>2, <2>1 DEF Abandon, Quit, Calls
  <2>9. ClientTypeOK'
    BY <1>2, <1>5, <2>5, <2>7, <2>8, TypeHolds
  <2> QED  BY <2>6, <2>9 DEF ClientInductive
<1> QED  BY <1>8, <1>9

\* A call that only asks keeps the command on its course.
LEMMA AsksHold ==
  ASSUME ClientInductive, TypeOK', UNCHANGED vars,
         NEW op \in {"ask", "capture"}, Running(op),
         Succeed, UNCHANGED objects,
         \/ picture' \in {picture, NoPicture}
         \/ picture' \in [requested : Rotations \cup {AutoRotation},
                          size : Pictures]
  PROVE  ClientInductive'
<1>1. /\ status = "running" /\ unsure = {} /\ cleanup = <<>>
      /\ device = Objects(handles) /\ Head(todo).op = op
      /\ \E a, b \in Stages :
              /\ Stands(a, handles, made) /\ Fits(command, Head(todo), a)
              /\ Leads(command, Tail(todo), After(Head(todo), a), b)
              /\ Ends(command, b)
  BY RunningIs
<1>2. PICK a \in Stages, b \in Stages :
              /\ Stands(a, handles, made) /\ Fits(command, Head(todo), a)
              /\ Leads(command, Tail(todo), After(Head(todo), a), b)
              /\ Ends(command, b)
  BY <1>1
<1>3. After(Head(todo), a) = a
  BY <1>1 DEF After
<1>4. UNCHANGED <<device, handles, made, unsure>>
  BY DEF objects
<1>5. /\ made \in Nat /\ handles \in [Kinds -> 0 .. made]
      /\ device \in SUBSET (Kinds \X (1 .. made)) /\ ClientTypeOK /\ WayOut
  BY ClientTypes
<1>6. Leads(command, Tail(todo), a, b) /\ Stands(a, handles', made')
      /\ device' = Objects(handles')
  BY <1>1, <1>2, <1>3, <1>4
<1>7. OnCourse' /\ WayOut' /\ SuccessLeavesPrinted'
  BY <1>1, <1>2, <1>4, <1>5, <1>6, Advances
<1>8. pc' = "idle"
  <2>1. op \in Ops \ {"upload"}
    BY DEF Ops
  <2> QED  BY <1>5, <2>1, Idle DEF vars
<1>9. /\ command' = command /\ display' = display /\ cleanup' \in Seq(Kinds)
      /\ status' \in {"running", "failing", "leaving", "ok", "failed"}
  BY <1>1, EmptySeq DEF Succeed
<1>10. /\ device' \subseteq Kinds \X (1 .. made') /\ made' \in Nat
       /\ unsure' \subseteq Kinds \X (1 .. made')
       /\ handles' \in [Kinds -> 0 .. made']
  BY <1>1, <1>4, <1>5
<1>11. ClientTypeOK'
  BY <1>5, <1>8, <1>9, <1>10, TypeHolds
<1> QED  BY <1>7, <1>11 DEF ClientInductive

\* One that fails destroys what its undo names.
LEMMA AskFailsHolds ==
  ASSUME ClientInductive, TypeOK', UNCHANGED <<vars, picture>>,
         NEW op \in {"ask", "capture"}, Running(op), Abandon, UNCHANGED objects
  PROVE  ClientInductive'
<1>1. op \in Ops \ {"upload"} /\ op \in Ops \ {"drop"}
  BY DEF Ops
<1>2. pc' = "idle" /\ picture' \in {picture, NoPicture}
  BY <1>1, RequestIs
<1>3. UNCHANGED <<device, handles, made, unsure>>
  BY DEF objects
<1>4. /\ device' \subseteq Kinds \X (1 .. made')
      /\ unsure' \subseteq Kinds \X (1 .. made')
  BY <1>3, ClientTypes
<1> QED  BY <1>1, <1>2, <1>3, <1>4, FailsHolding

\* The end of a stream or of the smoke test.
LEMMA LeavesHold ==
  ASSUME ClientInductive, TypeOK', UNCHANGED <<vars, picture>>,
         NEW op \in {"leave", "capture"}, Running(op),
         op = "capture" => Head(todo).undo # <<>>,
         Quit("leaving"), UNCHANGED objects
  PROVE  ClientInductive'
<1>1. op \in Ops \ {"upload"}
  BY DEF Ops
<1>2. /\ pc' = "idle" /\ picture' \in {picture, NoPicture}
      /\ unsure = {} /\ device = Objects(handles)
      /\ Head(todo).op = op /\ Head(todo) \in Calls
      /\ \E a \in Stages :
              Stands(a, handles, made) /\ Fits(command, Head(todo), a)
  BY <1>1, RequestIs
<1>3. PICK a \in Stages :
              Stands(a, handles, made) /\ Fits(command, Head(todo), a)
  BY <1>2
<1>4. OnCourse' /\ WayOut' /\ SuccessLeavesPrinted'
  BY <1>2, <1>3, LeavesAll
<1>5. /\ made \in Nat /\ handles \in [Kinds -> 0 .. made]
      /\ device \in SUBSET (Kinds \X (1 .. made)) /\ ClientTypeOK
  BY ClientTypes
<1>6. /\ device' \subseteq Kinds \X (1 .. made') /\ made' \in Nat
      /\ unsure' \subseteq Kinds \X (1 .. made')
      /\ handles' \in [Kinds -> 0 .. made']
  BY <1>2, <1>5 DEF objects
<1>7. /\ command' = command /\ display' = display /\ cleanup' \in Seq(Kinds)
      /\ status' \in {"running", "failing", "leaving", "ok", "failed"}
  BY <1>2 DEF Quit, Calls
<1>8. ClientTypeOK'
  BY <1>2, <1>5, <1>6, <1>7, TypeHolds
<1> QED  BY <1>4, <1>8 DEF ClientInductive

\* One object is destroyed; the others keep their handles.
LEMMA UndoHolds ==
  ASSUME ClientInductive, TypeOK', UNCHANGED <<vars, picture>>, Undo
  PROVE  ClientInductive'
<1> DEFINE k == Head(cleanup)
           gone == <<k, handles[k]>>
<1>1. /\ made \in Nat /\ handles \in [Kinds -> 0 .. made]
      /\ device \in SUBSET (Kinds \X (1 .. made))
      /\ unsure \in SUBSET (Kinds \X (1 .. made)) /\ ClientTypeOK /\ WayOut
  BY ClientTypes
<1>2. /\ status \in {"failing", "leaving"} /\ cleanup # <<>>
      /\ handles' = [handles EXCEPT ![k] = 0] /\ cleanup' = Tail(cleanup)
      /\ UNCHANGED <<command, todo, status, made, display>>
      /\ device' \in {device, device \ {gone}}
      /\ unsure' \in {unsure, unsure \cup {gone}}
      /\ gone \in unsure' \/ device' = device \ {gone}
  BY DEF Undo, Held, Forget
<1>3. /\ cleanup \in Seq(Kinds) /\ todo = <<>>
      /\ \A i, j \in DOMAIN cleanup : cleanup[i] = cleanup[j] => i = j
      /\ \A i \in DOMAIN cleanup :
            <<cleanup[i], handles[cleanup[i]]>> \in device \cup unsure
  BY <1>1, <1>2 DEF WayOut, Cleaning, Held
<1>4. /\ cleanup' \in Seq(Kinds) /\ DOMAIN cleanup = 1 .. Len(cleanup)
      /\ Len(cleanup) \in Nat /\ Len(cleanup) >= 1 /\ k = cleanup[1]
      /\ DOMAIN cleanup' = 1 .. Len(cleanup) - 1 /\ k \in Kinds
      /\ \A i \in DOMAIN cleanup' : cleanup'[i] = cleanup[i + 1]
  BY <1>2, <1>3
<1> HIDE DEF k, gone
<1>5. /\ \A i \in DOMAIN cleanup' :
            /\ i + 1 \in DOMAIN cleanup /\ i + 1 # 1 /\ 1 \in DOMAIN cleanup
            /\ cleanup'[i] # k /\ cleanup'[i] \in Kinds
            /\ handles'[cleanup'[i]] = handles[cleanup[i + 1]]
  <2>1. SUFFICES ASSUME NEW i \in DOMAIN cleanup'
                 PROVE  /\ i + 1 \in DOMAIN cleanup /\ i + 1 # 1
                        /\ 1 \in DOMAIN cleanup
                        /\ cleanup'[i] # k /\ cleanup'[i] \in Kinds
                        /\ handles'[cleanup'[i]] = handles[cleanup[i + 1]]
    OBVIOUS
  <2>2. i + 1 \in DOMAIN cleanup /\ i + 1 # 1 /\ 1 \in DOMAIN cleanup
    BY <1>4
  <2>3. cleanup'[i] # k /\ cleanup'[i] \in Kinds
    BY <1>3, <1>4, <2>2
  <2> QED  BY <1>1, <1>2, <1>4, <2>2, <2>3
<1>6. \A i \in DOMAIN cleanup :
         i = 1 \/ (i - 1 \in DOMAIN cleanup' /\ cleanup'[i - 1] = cleanup[i])
  <2>1. SUFFICES ASSUME NEW i \in DOMAIN cleanup, i # 1
                 PROVE  /\ i - 1 \in DOMAIN cleanup'
                        /\ cleanup'[i - 1] = cleanup[i]
    OBVIOUS
  <2>2. i - 1 \in DOMAIN cleanup' /\ (i - 1) + 1 = i
    BY <1>4, <2>1
  <2>3. cleanup'[i - 1] = cleanup[(i - 1) + 1]
    BY <1>4, <2>2
  <2> QED  BY <2>2, <2>3
<1>7. gone \in Kinds \X (1 .. made)
  <2>1. 1 \in DOMAIN cleanup /\ cleanup[1] = k
    BY <1>4
  <2>2. gone \in device \cup unsure
    BY <1>3, <2>1 DEF gone
  <2> QED  BY <1>1, <2>2
<1>8. /\ device' \subseteq device /\ device \ device' \subseteq {gone}
      /\ unsure \subseteq unsure'
      /\ \A object \in device' \ unsure' :
            object \in device \ unsure /\ object # gone
  BY <1>2
<1>9. Cleaning'
  <2>1. \A i, j \in DOMAIN cleanup' : cleanup'[i] = cleanup'[j] => i = j
    <3>1. SUFFICES ASSUME NEW i \in DOMAIN cleanup', NEW j \in DOMAIN cleanup',
                          cleanup'[i] = cleanup'[j]
                   PROVE  i = j
      OBVIOUS
    <3>2. i + 1 = j + 1
      BY <1>3, <1>4, <1>5, <3>1
    <3> QED  BY <1>4, <3>2
  <2>2. ASSUME NEW i \in DOMAIN cleanup'
        PROVE  <<cleanup'[i], handles'[cleanup'[i]]>> \in device' \cup unsure'
    <3>1. <<cleanup'[i], handles'[cleanup'[i]]>> \in device \cup unsure
      BY <1>3, <1>4, <1>5
    <3>2. <<cleanup'[i], handles'[cleanup'[i]]>> # gone
      BY <1>5 DEF gone
    <3> QED  BY <1>8, <3>1, <3>2
  <2> QED  BY <2>1, <2>2 DEF Cleaning, Held
<1>10. ASSUME NEW object \in device \ unsure, InCleanup(object), object # gone
       PROVE  InCleanup(object)'
  <2>1. PICK i \in DOMAIN cleanup : object = <<cleanup[i], handles[cleanup[i]]>>
    BY <1>10 DEF InCleanup, Held
  <2>2. i # 1
    BY <1>4, <1>10, <2>1 DEF gone
  <2>3. i - 1 \in DOMAIN cleanup' /\ cleanup'[i - 1] = cleanup[i]
    BY <1>6, <2>2
  <2>4. handles'[cleanup'[i - 1]] = handles[cleanup[i]]
    <3>1. cleanup'[i - 1] # k /\ cleanup'[i - 1] \in Kinds
      BY <1>5, <2>3
    <3> QED  BY <1>1, <1>2, <2>3, <3>1
  <2> QED  BY <2>1, <2>3, <2>4 DEF InCleanup, Held
<1>11. Failing'
  <2>1. SUFFICES ASSUME status = "failing", NEW object \in device' \ unsure'
                 PROVE  InCleanup(object)' \/ Stranded(object)'
    BY <1>2 DEF Failing
  <2>2. object \in device \ unsure /\ object # gone
    BY <1>8
  <2>3. InCleanup(object) \/ Stranded(object)
    BY <1>1, <2>1, <2>2 DEF WayOut, Failing
  <2>4. Stranded(object) => Stranded(object)'
    BY <1>2, <1>8 DEF Stranded
  <2> QED  BY <1>10, <2>2, <2>3, <2>4
<1>12. Leaving'
  <2>1. SUFFICES ASSUME status = "leaving"
                 PROVE  /\ command' \in {"stream", "smoke"} /\ OneOfAKind'
                        /\ \A object \in device' \ unsure' : InCleanup(object)'
    BY <1>2 DEF Leaving
  <2>2. /\ command' \in {"stream", "smoke"} /\ OneOfAKind
        /\ \A object \in device \ unsure : InCleanup(object)
    BY <1>1, <1>2, <2>1 DEF WayOut, Leaving
  <2>3. OneOfAKind'
    BY <1>8, <2>2 DEF OneOfAKind
  <2> QED  BY <1>8, <1>10, <2>2, <2>3
<1>13. /\ status' \in {"failing", "leaving"} /\ todo' = <<>>
  BY <1>2, <1>3
<1>14. WayOut' /\ OnCourse' /\ SuccessLeavesPrinted'
  BY <1>4, <1>9, <1>11, <1>12, <1>13
     DEF WayOut, OnCourse, SuccessLeavesPrinted, FailureLeavesLittle
<1>15. ClientTypeOK'
  <2>1. pc' = "idle"
    BY <1>1, <1>2, Idle DEF vars
  <2>2. handles' \in [Kinds -> 0 .. made'] /\ made' \in Nat
    BY <1>1, <1>2, <1>4
  <2>3. /\ device' \subseteq Kinds \X (1 .. made')
        /\ unsure' \subseteq Kinds \X (1 .. made')
    BY <1>1, <1>2, <1>7
  <2> QED  BY <1>1, <1>2, <1>4, <1>13, <2>1, <2>2, <2>3, TypeHolds
<1> QED  BY <1>14, <1>15 DEF ClientInductive

\* The command has ended.
LEMMA ExitHolds ==
  ASSUME ClientInductive, TypeOK', UNCHANGED <<vars, picture>>, Exit
  PROVE  ClientInductive'
<1>1. /\ made \in Nat /\ handles \in [Kinds -> 0 .. made]
      /\ device \in SUBSET (Kinds \X (1 .. made))
      /\ unsure \in SUBSET (Kinds \X (1 .. made)) /\ ClientTypeOK /\ WayOut
  BY ClientTypes
<1>2. /\ \/ status = "running" /\ todo = <<>> /\ status' = "ok"
         \/ status = "failing" /\ cleanup = <<>> /\ status' = "failed"
         \/ /\ status = "leaving" /\ cleanup = <<>>
            /\ status' = IF command = "stream" /\ unsure # {} THEN "failed"
                                                              ELSE "ok"
      /\ UNCHANGED <<command, todo, cleanup, device, handles, made, unsure,
                     display>>
  BY DEF Exit, objects
<1>3. /\ cleanup \in Seq(Kinds) /\ (status # "running" => todo = <<>>)
      /\ status' \in {"ok", "failed"}
  BY <1>1, <1>2 DEF WayOut
<1>4. todo' = <<>> /\ cleanup' \in Seq(Kinds)
  BY <1>2, <1>3
<1>5. cleanup = <<>> => \A object : ~InCleanup(object)
  <2>1. cleanup = <<>> => DOMAIN cleanup = {}
    BY EmptySeq
  <2> QED  BY <2>1 DEF InCleanup
<1>6. FailureLeavesLittle'
  <2>1. CASE status = "failing"
    <3>1. \A object \in device \ unsure : Stranded(object)
      BY <1>1, <1>2, <1>5, <2>1 DEF WayOut, Failing
    <3> QED  BY <1>2, <3>1 DEF FailureLeavesLittle, Stranded
  <2>2. CASE status = "leaving"
    <3>1. device \ unsure = {}
      BY <1>1, <1>2, <1>5, <2>2 DEF WayOut, Leaving
    <3> QED  BY <1>2, <3>1 DEF FailureLeavesLittle
  <2>3. CASE status = "running"
    BY <1>2, <2>3 DEF FailureLeavesLittle
  <2> QED  BY <1>2, <2>1, <2>2, <2>3
<1>7. SuccessLeavesPrinted'
  <2>1. CASE status = "running"
    <3>1. /\ unsure = {} /\ device = Objects(handles) /\ todo = <<>>
          /\ \E a, b \in Stages : /\ Stands(a, handles, made)
                                  /\ Leads(command, todo, a, b)
                                  /\ Ends(command, b)
      BY <1>2, <2>1 DEF ClientInductive, OnCourse
    <3>2. PICK a \in Stages, b \in Stages :
             /\ Stands(a, handles, made)
             /\ Leads(command, todo, a, b) /\ Ends(command, b)
      BY <3>1
    <3>3. a = b
      <4>1. Len(<<>>) = 0
        BY EmptySeq
      <4> QED  BY <3>1, <3>2, <4>1 DEF Leads
    <3>4. {object[1] : object \in Objects(handles)} = Holding(handles)
      <4>1. \A k \in Holding(handles) :
               /\ <<k, handles[k]>> \in Objects(handles)
               /\ <<k, handles[k]>>[1] = k
        BY DEF Objects
      <4>2. \A object \in Objects(handles) : object[1] \in Holding(handles)
        BY DEF Objects
      <4> HIDE DEF Objects, Holding
      <4> QED  BY <4>1, <4>2
    <3>5. Holding(handles) = Printed[command]
      BY <3>2, <3>3 DEF Stands, Ends
    <3>6. \A x, y \in device : x[1] = y[1] => x = y
      BY <3>1 DEF Objects
    <3>7. device \ unsure = device
      BY <3>1
    <3> QED  BY <1>2, <3>1, <3>4, <3>5, <3>6, <3>7
             DEF SuccessLeavesPrinted, Printed
  <2>2. CASE status = "leaving"
    <3>1. /\ device \ unsure = {} /\ OneOfAKind
          /\ command \in {"stream", "smoke"}
      BY <1>1, <1>2, <1>5, <2>2 DEF WayOut, Leaving
    <3>2. Printed[command] = {}
      BY <3>1 DEF Printed
    <3>3. {object[1] : object \in device \ unsure} = {}
      BY <3>1
    <3>4. status' = "ok" /\ unsure # {} => command = "smoke"
      <4>1. status' = IF command = "stream" /\ unsure # {} THEN "failed"
                                                          ELSE "ok"
        BY <1>2, <2>2
      <4>2. CASE command = "stream" /\ unsure # {}
        BY <4>1, <4>2
      <4> QED  BY <3>1, <4>2
    <3> QED  BY <1>2, <3>1, <3>2, <3>3, <3>4
             DEF SuccessLeavesPrinted, Printed, OneOfAKind
  <2>3. CASE status = "failing"
    BY <1>2, <2>3 DEF SuccessLeavesPrinted
  <2> QED  BY <1>2, <2>1, <2>2, <2>3
<1>8. OnCourse' /\ WayOut'
  BY <1>3, <1>4, <1>6 DEF OnCourse, WayOut, Cleaning, Failing, Leaving
<1>9. ClientTypeOK'
  <2>1. pc' = "idle"
    BY <1>1, <1>2, Idle DEF vars
  <2> QED  BY <1>1, <1>2, <1>3, <1>4, <2>1, TypeHolds
<1> QED  BY <1>7, <1>8, <1>9 DEF ClientInductive

------------------------------------------------------------------------------
\* A command starts on its course.
LEMMA ClientBegins ==
  ASSUME ClientInit, TypeOK
  PROVE  ClientInductive
<1>1. /\ command \in DOMAIN Script /\ todo \in Script[command]
      /\ cleanup = <<>> /\ status = "running"
      /\ made = Given(command) /\ unsure = {}
      /\ device = {"surface"} \X (1 .. made)
      /\ handles = [k \in Kinds |-> IF k = "surface" THEN made ELSE 0]
      /\ display \in Displays /\ picture = NoPicture /\ pc = "idle"
  BY DEF ClientInit, Init
<1>2. made \in {0, 1} /\ "surface" \in Kinds
  BY <1>1 DEF Given, Kinds
<1>3. Holding(handles) = IF made = 1 THEN {"surface"} ELSE {}
  BY <1>1, <1>2 DEF Holding
<1>4. device = Objects(handles)
  <2>1. CASE made = 0
    <3>1. 1 .. made = {} /\ Holding(handles) = {}
      BY <1>3, <2>1
    <3> QED  BY <1>1, <3>1 DEF Objects
  <2>2. CASE made = 1
    <3>1. 1 .. made = {1} /\ Holding(handles) = {"surface"}
      BY <1>3, <2>2
    <3>2. handles["surface"] = 1
      BY <1>1, <1>2, <2>2
    <3>3. device = {<<"surface", 1>>} /\ Objects(handles) = {<<"surface", 1>>}
      BY <1>1, <3>1, <3>2 DEF Objects
    <3> QED  BY <3>3
  <2> QED  BY <1>2, <2>1, <2>2
<1>5. PICK b \in Stages :
         Leads(command, todo, Begins(command), b) /\ Ends(command, b)
  BY <1>1, ScriptsLead
<1>6. /\ Begins(command).held = Holding(handles)
      /\ Begins(command).newest = "none" /\ Begins(command).before = "none"
  BY <1>1, <1>3 DEF Begins, Stage
<1>7. "none" \notin Kinds /\ Holding(handles) \subseteq Kinds
  BY DEF Kinds, Holding
<1>8. Stands(Begins(command), handles, made) /\ Begins(command) \in Stages
  BY <1>5, <1>6, <1>7 DEF Stands, Leads
<1>9. OnCourse
  BY <1>1, <1>4, <1>5, <1>8 DEF OnCourse
<1>10. WayOut /\ SuccessLeavesPrinted
  BY <1>1, EmptySeq
     DEF WayOut, Cleaning, Failing, Leaving, FailureLeavesLittle,
         SuccessLeavesPrinted
<1>11. ClientTypeOK
  <2>1. made \in Nat /\ handles \in [Kinds -> 0 .. made]
    BY <1>1, <1>2
  <2>2. device \subseteq Kinds \X (1 .. made)
    BY <1>1, <1>2
  <2>3. \A i \in DOMAIN cleanup : cleanup[i] \in Kinds
    BY <1>1, EmptySeq
  <2> QED  BY <1>1, <2>1, <2>2, <2>3 DEF ClientTypeOK
<1> QED  BY <1>9, <1>10, <1>11 DEF ClientInductive

\* Every step of a command.
LEMMA ClientStep ==
  ASSUME ClientInductive, Reclaimed, TypeOK, TypeOK',
         [ClientNext]_<<vars, clientVars>>
  PROVE  ClientInductive'
<1>1. CASE UploadStarts
  BY <1>1, UploadStartsHolds
<1>2. CASE UploadSteps \/ UNCHANGED <<vars, clientVars>>
  BY <1>2, UploadStepsHolds
<1>3. CASE UploadSucceeds
  BY <1>3, UploadSucceedsHolds
<1>4. CASE UploadFails
  BY <1>4, UploadFailsHolds
<1>5. CASE CaptureOk /\ UNCHANGED vars
  <2>1. /\ Running("capture") /\ Succeed /\ UNCHANGED objects
        /\ picture' \in [requested : Rotations \cup {AutoRotation},
                         size : Pictures]
    BY <1>5 DEF CaptureOk
  <2> QED  BY <1>5, <2>1, AsksHold
<1>6. CASE CaptureFails /\ UNCHANGED vars
  <2>1. /\ Running("capture") /\ UNCHANGED <<objects, picture>>
        /\ \/ Abandon
           \/ Quit("leaving") /\ Head(todo).undo # <<>>
    BY <1>6 DEF CaptureFails
  <2> QED  BY <1>6, <2>1, AskFailsHolds, LeavesHold
<1>7. CASE Request /\ UNCHANGED <<vars, picture>>
  <2>1. CASE MakeOk \/ MakeFails \/ MakeLost
    BY <1>7, <2>1, MakeHolds
  <2>2. CASE ConsumeOk \/ ConsumeFails \/ ConsumeLost
    BY <1>7, <2>2, ConsumeHolds
  <2>3. CASE DropOk \/ DropFails
    BY <1>7, <2>3, DropHolds
  <2>4. CASE AskOk
    <3>1. Running("ask") /\ Succeed /\ UNCHANGED objects
      BY <2>4 DEF AskOk
    <3> QED  BY <1>7, <3>1, AsksHold
  <2>5. CASE AskFails
    <3>1. Running("ask") /\ Abandon /\ UNCHANGED objects
      BY <2>5 DEF AskFails
    <3> QED  BY <1>7, <3>1, AskFailsHolds
  <2>6. CASE Leaves
    <3>1. Running("leave") /\ Quit("leaving") /\ UNCHANGED objects
      BY <2>6 DEF Leaves
    <3> QED  BY <1>7, <3>1, LeavesHold
  <2>7. CASE Undo
    BY <1>7, <2>7, UndoHolds
  <2>8. CASE Exit
    BY <1>7, <2>8, ExitHolds
  <2> QED  BY <1>7, <2>1, <2>2, <2>3, <2>4, <2>5, <2>6, <2>7, <2>8 DEF Request
<1> QED  BY <1>1, <1>2, <1>3, <1>4, <1>5, <1>6, <1>7 DEF ClientNext

\* The invariant holds throughout.
LEMMA ClientInvariant == ClientSpec => [](ClientInductive /\ Reclaimed)
<1>1. ClientInit /\ Inductive => ClientInductive /\ Reclaimed
  <2>1. Init => Reclaimed
    BY DEF Init, Reclaimed
  <2> QED  BY <2>1, ClientBegins DEF ClientInit, Inductive
<1>2. /\ ClientInductive /\ Reclaimed /\ Inductive /\ Inductive'
      /\ [ClientNext]_<<vars, clientVars>>
      => (ClientInductive /\ Reclaimed)'
  <2> SUFFICES ASSUME ClientInductive, Reclaimed, Inductive, Inductive',
                      [ClientNext]_<<vars, clientVars>>
               PROVE  ClientInductive' /\ Reclaimed'
    OBVIOUS
  <2>1. TypeOK /\ Outcome /\ TypeOK'
    BY DEF Inductive
  <2>2. Reclaimed'
    BY <2>1, ClientUploads, ReclaimedStep
  <2>3. ClientInductive'
    BY <2>1, ClientStep
  <2> QED  BY <2>2, <2>3
<1> QED  BY <1>1, <1>2, InductiveInvariant, PTL DEF ClientSpec

------------------------------------------------------------------------------
(* A screenshot becomes a frame                                            *)

Sizes == (Nat \ {0}) \X (Nat \ {0})
Spots == Int \X Int

\* Where a place comes from after k of n quarter turns have been undone.
Undone(p, image, n, k) ==
  LET Bottom(i) == Rotated(image, 90 * (n - i))[2] - 1
  IN  IF k = 0 THEN p
      ELSE IF k = 1 THEN <<p[2], Bottom(1) - p[1]>>
      ELSE IF k = 2 THEN <<Bottom(1) - p[1], Bottom(2) - p[2]>>
      ELSE <<Bottom(2) - p[2], Bottom(3) - (Bottom(1) - p[1])>>

\* The reference, its recursion unrolled.
LEMMA TurnedUndone ==
  ASSUME NEW image, NEW p, NEW n \in 0 .. 3
  PROVE  Turned(p, image, n) = Undone(p, image, n, n)
<1> DEFINE Joins(f) ==
             f = [k \in 0 .. n |->
                    IF k = 0 THEN p
                    ELSE LET turned == Rotated(image, 90 * (n - k))
                         IN  <<f[k - 1][2], turned[2] - 1 - f[k - 1][1]>>]
           g == [k \in 0 .. n |-> Undone(p, image, n, k)]
           t == CHOOSE f : Joins(f)
<1>1. Turned(p, image, n) = t[n]
  BY DEF Turned
<1>2. ASSUME NEW k \in 0 .. n
      PROVE  g[k] = IF k = 0 THEN p
                    ELSE LET turned == Rotated(image, 90 * (n - k))
                         IN  <<g[k - 1][2], turned[2] - 1 - g[k - 1][1]>>
  <2>1. g[k] = Undone(p, image, n, k)
    OBVIOUS
  <2>2. k # 0 => g[k - 1] = Undone(p, image, n, k - 1)
    OBVIOUS
  <2> HIDE DEF g
  <2>3. k \in {0, 1, 2, 3}
    OBVIOUS
  <2>4. CASE k = 0
    BY <2>1, <2>4 DEF Undone
  <2>5. CASE k = 1
    <3>1. k - 1 = 0 /\ k # 0
      BY <2>5
    <3> QED BY <2>1, <2>2, <2>5, <3>1 DEF Undone
  <2>6. CASE k = 2
    <3>1. k - 1 = 1 /\ k # 0
      BY <2>6
    <3> QED BY <2>1, <2>2, <2>6, <3>1 DEF Undone
  <2>7. CASE k = 3
    <3>1. k - 1 = 2 /\ k # 0
      BY <2>7
    <3> QED BY <2>1, <2>2, <2>7, <3>1 DEF Undone
  <2> QED  BY <2>3, <2>4, <2>5, <2>6, <2>7
<1>3. Joins(g)
  BY <1>2
<1>4. Joins(t)
  <2> HIDE DEF Joins, g
  <2> QED  BY <1>3
<1>5. ASSUME NEW k \in 0 .. n
      PROVE  t[k] = IF k = 0 THEN p
                    ELSE LET turned == Rotated(image, 90 * (n - k))
                         IN  <<t[k - 1][2], turned[2] - 1 - t[k - 1][1]>>
  <2> HIDE DEF t
  <2> QED  BY <1>4
<1> HIDE DEF t, g, Joins
<1>6. t[0] = Undone(p, image, n, 0)
  <2>1. 0 \in 0 .. n
    OBVIOUS
  <2>2. t[0] = p
    BY <1>5, <2>1
  <2> QED  BY <2>2 DEF Undone
<1>7. n >= 1 => t[1] = Undone(p, image, n, 1)
  <2>1. SUFFICES ASSUME n >= 1  PROVE t[1] = Undone(p, image, n, 1)
    OBVIOUS
  <2>2. 1 \in 0 .. n /\ 1 - 1 = 0 /\ 1 # 0
    BY <2>1
  <2>3. t[1] = <<t[0][2], Rotated(image, 90 * (n - 1))[2] - 1 - t[0][1]>>
    BY <1>5, <2>2
  <2> QED  BY <1>6, <2>3 DEF Undone
<1>8. n >= 2 => t[2] = Undone(p, image, n, 2)
  <2>1. SUFFICES ASSUME n >= 2  PROVE t[2] = Undone(p, image, n, 2)
    OBVIOUS
  <2>2. 2 \in 0 .. n /\ 2 - 1 = 1 /\ 2 # 0
    BY <2>1
  <2>3. t[2] = <<t[1][2], Rotated(image, 90 * (n - 2))[2] - 1 - t[1][1]>>
    BY <1>5, <2>2
  <2> QED  BY <1>7, <2>1, <2>3 DEF Undone
<1>9. n >= 3 => t[3] = Undone(p, image, n, 3)
  <2>1. SUFFICES ASSUME n >= 3  PROVE t[3] = Undone(p, image, n, 3)
    OBVIOUS
  <2>2. 3 \in 0 .. n /\ 3 - 1 = 2 /\ 3 # 0
    BY <2>1
  <2>3. t[3] = <<t[2][2], Rotated(image, 90 * (n - 3))[2] - 1 - t[2][1]>>
    BY <1>5, <2>2
  <2> QED  BY <1>8, <2>1, <2>3 DEF Undone
<1>10. n \in {0, 1, 2, 3}
  OBVIOUS
<1> QED  BY <1>1, <1>6, <1>7, <1>8, <1>9, <1>10

\* The code's four cases are quarter turns.
LEMMA TurnsSource ==
  ASSUME NEW image \in Sizes, NEW p \in Spots, NEW rotation \in Rotations
  PROVE  Source(p, image, rotation) = Turned(p, image, rotation \div 90)
<1>1. /\ image[1] \in Int /\ image[2] \in Int /\ p[1] \in Int /\ p[2] \in Int
      /\ image = <<image[1], image[2]>> /\ p = <<p[1], p[2]>>
  BY DEF Sizes, Spots
<1>2. CASE rotation = 0
  <2>1. rotation \div 90 = 0
    BY <1>2
  <2> QED BY <1>2, <2>1, TurnedUndone DEF Source, Undone
<1>3. CASE rotation = 90
  <2>1. rotation \div 90 = 1 /\ 90 * (1 - 1) = 0
    BY <1>3
  <2>2. Rotated(image, 0) = image
    BY DEF Rotated
  <2>3. Turned(p, image, 1) = Undone(p, image, 1, 1)
    BY TurnedUndone
  <2> QED BY <1>3, <2>1, <2>2, <2>3 DEF Source, Undone
<1>4. CASE rotation = 180
  <2>1. rotation \div 90 = 2 /\ 90 * (2 - 2) = 0 /\ 90 * (2 - 1) = 90
    BY <1>4
  <2>2. Rotated(image, 0) = image /\ Rotated(image, 90)[2] = image[1]
    BY DEF Rotated
  <2>3. Turned(p, image, 2) = Undone(p, image, 2, 2)
    BY TurnedUndone
  <2> QED BY <1>4, <2>1, <2>2, <2>3 DEF Source, Undone
<1>5. CASE rotation = 270
  <2>1. rotation \div 90 = 3 /\ 90 * (3 - 3) = 0 /\ 90 * (3 - 2) = 90
        /\ 90 * (3 - 1) = 180
    BY <1>5
  <2>2. /\ Rotated(image, 0) = image /\ Rotated(image, 90)[2] = image[1]
        /\ Rotated(image, 180) = image
    BY DEF Rotated
  <2>3. Turned(p, image, 3) = Undone(p, image, 3, 3)
    BY TurnedUndone
  <2>4. image[2] - 1 - (image[2] - 1 - p[1]) = p[1]
    BY <1>1
  <2> QED BY <1>5, <2>1, <2>2, <2>3, <2>4 DEF Source, Undone
<1> QED BY <1>2, <1>3, <1>4, <1>5 DEF Rotations

\* Division of a natural number rounds down.
LEMMA Quotient ==
  ASSUME NEW a \in Nat, NEW b \in Nat \ {0}
  PROVE  /\ a \div b \in Nat
         /\ (a \div b) * b <= a
         /\ a < ((a \div b) + 1) * b
<1>1. a \div b \in Int /\ (a \div b) >= 0
  OBVIOUS
<1>2. (a \div b) * b <= a
  OBVIOUS
<1>3. a < ((a \div b) + 1) * b
  OBVIOUS
<1> QED  BY <1>1, <1>2, <1>3

\* Factors may be left out on both sides of a comparison.
LEMMA Factor ==
  ASSUME NEW a \in Int, NEW b \in Int, NEW c \in Nat \ {0}
  PROVE  /\ a * c < b * c => a < b
         /\ a <= b => a * c <= b * c
         /\ a < b => a * c < b * c
  OBVIOUS

\* The other side of the image when one side fills the screen: fitted
\* has the proportions of full and side, but for rounding.
LEMMA Fitted ==
  ASSUME NEW side \in Nat \ {0}, NEW full \in Nat \ {0},
         NEW width \in Nat \ {0}, NEW bound \in Nat \ {0},
         side * full <= bound * width
  PROVE  LET fitted == AtLeastOne((side * full) \div width)
         IN  /\ fitted \in Nat \ {0} /\ fitted <= bound
             /\ fitted * width <= full * side \/ fitted = 1
             /\ (fitted + 1) * width > full * side
<1> DEFINE q == (side * full) \div width
<1>1. side * full \in Nat /\ full * side = side * full
  OBVIOUS
<1>2. q \in Nat /\ q * width <= side * full /\ side * full < (q + 1) * width
  BY <1>1, Quotient
<1> HIDE DEF q
<1>3. q <= bound
  <2>1. q * width < (bound + 1) * width
    <3>1. q * width <= bound * width
      <4>1. q * width \in Int /\ bound * width \in Int
        BY <1>2
      <4> QED  BY <1>1, <1>2, <4>1
    <3>2. bound * width < (bound + 1) * width
      BY Factor
    <3> QED  BY <1>2, <3>1, <3>2
  <2>2. q < bound + 1
    BY <1>2, <2>1, Factor
  <2> QED  BY <1>2, <2>2
<1>4. CASE q = 0
  <2>1. AtLeastOne(q) = 1
    BY <1>4 DEF AtLeastOne
  <2>2. full * side < (1 + 1) * width
    <3>1. (0 + 1) * width = width /\ (1 + 1) * width = width + width
      OBVIOUS
    <3> QED  BY <1>1, <1>2, <1>4, <3>1
  <2> QED  BY <2>1, <2>2 DEF q
<1>5. CASE q # 0
  <2>1. AtLeastOne(q) = q
    BY <1>5 DEF AtLeastOne
  <2> QED  BY <1>1, <1>2, <1>3, <1>5, <2>1 DEF q
<1> QED  BY <1>4, <1>5

\* The scaled image fits the screen and fills it in direction i.
LEMMA ScaledFits ==
  ASSUME NEW rotated \in Sizes, NEW screen \in Sizes
  PROVE  LET scaled == Scaled(rotated, screen) IN
         /\ scaled \in Sizes
         /\ scaled[1] <= screen[1] /\ scaled[2] <= screen[2]
         /\ \E i \in 1 .. 2 : LET j == 3 - i IN
              /\ scaled[i] = screen[i]
              /\ scaled[j] * rotated[i] <= screen[i] * rotated[j]
                   \/ scaled[j] = 1
              /\ (scaled[j] + 1) * rotated[i] > screen[i] * rotated[j]
<1> DEFINE r1 == rotated[1]
           r2 == rotated[2]
           d1 == screen[1]
           d2 == screen[2]
           s  == Scaled(rotated, screen)
<1>1. /\ r1 \in Nat \ {0} /\ r2 \in Nat \ {0}
      /\ d1 \in Nat \ {0} /\ d2 \in Nat \ {0}
  BY DEF Sizes
<1>2. CASE r1 * d2 > d1 * r2
  <2>1. s = <<d1, AtLeastOne((r2 * d1) \div r1)>>
    BY <1>2 DEF Scaled
  <2>2. r2 * d1 <= d2 * r1
    BY <1>1, <1>2
  <2> HIDE DEF r1, r2, d1, d2, s
  <2>3. /\ AtLeastOne((r2 * d1) \div r1) \in Nat \ {0}
        /\ AtLeastOne((r2 * d1) \div r1) <= d2
        /\ \/ AtLeastOne((r2 * d1) \div r1) * r1 <= d1 * r2
           \/ AtLeastOne((r2 * d1) \div r1) = 1
        /\ (AtLeastOne((r2 * d1) \div r1) + 1) * r1 > d1 * r2
    BY <1>1, <2>2, Fitted
  <2>4. /\ s[1] = d1 /\ s[2] = AtLeastOne((r2 * d1) \div r1) /\ s \in Sizes
    BY <1>1, <2>1, <2>3 DEF Sizes
  <2>5. /\ s[1] = d1 /\ s[2] <= d2 /\ s[1] <= d1 /\ s \in Sizes
        /\ s[2] * r1 <= d1 * r2 \/ s[2] = 1
        /\ (s[2] + 1) * r1 > d1 * r2
    BY <1>1, <2>3, <2>4
  <2>6. 1 \in 1 .. 2 /\ 3 - 1 = 2
    OBVIOUS
  <2> QED  BY <2>5, <2>6 DEF r1, r2, d1, d2, s
<1>3. CASE ~(r1 * d2 > d1 * r2)
  <2>1. s = <<AtLeastOne((r1 * d2) \div r2), d2>>
    BY <1>3 DEF Scaled
  <2>2. r1 * d2 <= d1 * r2
    BY <1>1, <1>3
  <2> HIDE DEF r1, r2, d1, d2, s
  <2>3. /\ AtLeastOne((r1 * d2) \div r2) \in Nat \ {0}
        /\ AtLeastOne((r1 * d2) \div r2) <= d1
        /\ \/ AtLeastOne((r1 * d2) \div r2) * r2 <= d2 * r1
           \/ AtLeastOne((r1 * d2) \div r2) = 1
        /\ (AtLeastOne((r1 * d2) \div r2) + 1) * r2 > d2 * r1
    BY <1>1, <2>2, Fitted
  <2>4. /\ s[2] = d2 /\ s[1] = AtLeastOne((r1 * d2) \div r2) /\ s \in Sizes
    BY <1>1, <2>1, <2>3 DEF Sizes
  <2>5. /\ s[2] = d2 /\ s[1] <= d1 /\ s[2] <= d2 /\ s \in Sizes
        /\ s[1] * r2 <= d2 * r1 \/ s[1] = 1
        /\ (s[1] + 1) * r2 > d2 * r1
    BY <1>1, <2>3, <2>4
  <2>6. 2 \in 1 .. 2 /\ 3 - 2 = 1
    OBVIOUS
  <2> QED  BY <2>5, <2>6 DEF r1, r2, d1, d2, s
<1> QED  BY <1>2, <1>3

\* The border keeps the scaled image inside of the screen.
LEMMA Centered ==
  ASSUME NEW s \in Nat \ {0}, NEW d \in Nat \ {0}, s <= d,
         NEW p \in 0 .. s - 1
  PROVE  p + ((d - s) \div 2) \in 0 .. d - 1
<1>1. d - s \in Nat
  OBVIOUS
<1> DEFINE q == (d - s) \div 2
<1>2. q \in Nat /\ q * 2 <= d - s
  BY <1>1, Quotient
<1> HIDE DEF q
<1>3. p + q \in 0 .. d - 1
  BY <1>2
<1> QED  BY <1>3 DEF q

\* A line of the scaled image shows one of the r lines of the other; the
\* code's check that it is not beyond the last never bites.
LEMMA SampleInside ==
  ASSUME NEW r \in Nat \ {0}, NEW s \in Nat \ {0}, NEW p \in 0 .. s - 1
  PROVE  (p * r) \div s \in 0 .. r - 1
<1>1. p * r \in Nat
  OBVIOUS
<1> DEFINE q == (p * r) \div s
<1>2. q \in Nat /\ q * s <= p * r
  BY <1>1, Quotient
<1> HIDE DEF q
<1>3. q * s < r * s
  <2>1. p * r < s * r /\ s * r = r * s /\ q * s \in Int /\ r * s \in Int
    BY <1>2, Factor
  <2> QED  BY <1>1, <1>2, <2>1
<1>4. q < r
  BY <1>2, <1>3, Factor
<1> QED  BY <1>2, <1>4 DEF q

\* Enlarging shows every line.
LEMMA LineShown ==
  ASSUME NEW r \in Nat \ {0}, NEW s \in Nat \ {0}, r <= s, NEW n \in 0 .. r - 1
  PROVE  \E p \in 0 .. s - 1 : (p * r) \div s = n
<1> DEFINE a == n * s + (r - 1)
           p == a \div r
<1>1. n * s \in Nat /\ a \in Nat
  OBVIOUS
<1>2. p \in Nat /\ p * r <= a /\ a < (p + 1) * r
  BY <1>1, Quotient
<1>3. (p + 1) * r = p * r + r /\ p * r \in Nat
  <2> HIDE DEF p
  <2> QED  BY <1>2
<1>4. a = n * s + (r - 1)
  OBVIOUS
<1> HIDE DEF a, p
<1>5. n * s <= p * r
  BY <1>1, <1>2, <1>3, <1>4
<1>6. p * r < (n + 1) * s
  <2>1. (n + 1) * s = n * s + s
    OBVIOUS
  <2> QED  BY <1>1, <1>2, <1>3, <1>4, <2>1
<1>7. p < s
  <2>1. /\ (n + 1) * s <= r * s /\ r * s = s * r
        /\ (n + 1) * s \in Int /\ s * r \in Int
    BY Factor
  <2>2. p * r < s * r
    BY <1>3, <1>6, <2>1
  <2> QED  BY <1>2, <2>2, Factor
<1> DEFINE q == (p * r) \div s
<1>8. q \in Nat /\ q * s <= p * r /\ p * r < (q + 1) * s
  BY <1>3, Quotient
<1> HIDE DEF q
<1>9. q < n + 1 /\ n < q + 1
  <2>1. q * s < (n + 1) * s
    BY <1>3, <1>6, <1>8
  <2>2. n * s < (q + 1) * s
    BY <1>1, <1>3, <1>5, <1>8
  <2> QED  BY <1>8, <2>1, <2>2, Factor
<1>10. q = n
  BY <1>8, <1>9
<1>11. (p * r) \div s = n
  BY <1>10 DEF q
<1>12. p \in 0 .. s - 1
  BY <1>2, <1>7
<1> QED  BY <1>11, <1>12

\* Turning back leads into the image.
LEMMA SourceInside ==
  ASSUME NEW image \in Sizes, NEW rotation \in Rotations,
         NEW r \in Places(Rotated(image, rotation))
  PROVE  Source(r, image, rotation) \in Places(image)
<1>1. /\ image[1] \in Nat \ {0} /\ image[2] \in Nat \ {0}
  BY DEF Sizes
<1>2. CASE rotation \in {0, 180}
  <2>1. r[1] \in 0 .. image[1] - 1 /\ r[2] \in 0 .. image[2] - 1
        /\ r = <<r[1], r[2]>>
    BY <1>2 DEF Rotated, Places
  <2> QED  BY <1>1, <1>2, <2>1 DEF Source, Places
<1>3. CASE rotation \in {90, 270}
  <2>1. r[1] \in 0 .. image[2] - 1 /\ r[2] \in 0 .. image[1] - 1
    BY <1>3 DEF Rotated, Places
  <2> QED  BY <1>1, <1>3, <2>1 DEF Source, Places
<1> QED  BY <1>2, <1>3 DEF Rotations

\* All of it together.
LEMMA FrameCompletes ==
  ASSUME NEW image \in Sizes, NEW screen \in Sizes,
         NEW requested \in Rotations \cup {AutoRotation}
  PROVE  FrameComplete(requested, image, screen)
<1> DEFINE rotation == Rotation(requested, image, screen)
           rotated  == Rotated(image, rotation)
           scaled   == Scaled(rotated, screen)
           offset   == Offset(scaled, screen)
           Shown    == [p \in Places(scaled) |-> Sampled(p, rotated, scaled)]
<1>1. rotation \in Rotations
  BY DEF Rotation, Rotations, AutoRotation
<1>2. rotated \in Sizes
  BY DEF Rotated, Sizes
<1>3. /\ scaled \in Sizes
      /\ scaled[1] <= screen[1] /\ scaled[2] <= screen[2]
      /\ \E i \in 1 .. 2 : LET j == 3 - i IN
           /\ scaled[i] = screen[i]
           /\ scaled[j] * rotated[i] <= screen[i] * rotated[j] \/ scaled[j] = 1
           /\ (scaled[j] + 1) * rotated[i] > screen[i] * rotated[j]
  <2> HIDE DEF rotated
  <2> QED  BY <1>2, ScaledFits
<1>4. offset = <<(screen[1] - scaled[1]) \div 2,
                 (screen[2] - scaled[2]) \div 2>>
  BY DEF Offset
<1> HIDE DEF rotation, rotated, scaled, offset
<1>5. \A i \in 1 .. 2 : /\ rotated[i] \in Nat \ {0} /\ scaled[i] \in Nat \ {0}
                        /\ screen[i] \in Nat \ {0} /\ scaled[i] <= screen[i]
  BY <1>2, <1>3 DEF Sizes
<1>6. ASSUME NEW p \in Places(scaled), NEW i \in 1 .. 2
      PROVE  /\ p[i] \in 0 .. scaled[i] - 1
             /\ Shown[p][i] = (p[i] * rotated[i]) \div scaled[i]
             /\ Shown[p][i] \in 0 .. rotated[i] - 1
             /\ p[i] + offset[i] \in 0 .. screen[i] - 1
  <2>1. p[i] \in 0 .. scaled[i] - 1
    BY DEF Places
  <2>2. (p[i] * rotated[i]) \div scaled[i] \in 0 .. rotated[i] - 1
    BY <1>5, <2>1, SampleInside
  <2>3. Shown[p][i] = LET r == (p[i] * rotated[i]) \div scaled[i]
                      IN  IF r >= rotated[i] THEN rotated[i] - 1 ELSE r
    BY DEF Sampled
  <2>4. Shown[p][i] = (p[i] * rotated[i]) \div scaled[i]
    <3> DEFINE r == (p[i] * rotated[i]) \div scaled[i]
    <3>1. ~(r >= rotated[i])
      <4>1. r \in 0 .. rotated[i] - 1
        BY <2>2
      <4> HIDE DEF r
      <4> QED  BY <1>5, <4>1
    <3> HIDE DEF Shown
    <3> QED  BY <2>3, <3>1
  <2>5. p[i] + ((screen[i] - scaled[i]) \div 2) \in 0 .. screen[i] - 1
    BY <1>5, <2>1, Centered
  <2>6. offset[i] = (screen[i] - scaled[i]) \div 2
    BY <1>4
  <2> QED  BY <2>1, <2>2, <2>4, <2>5, <2>6
<1>7. ASSUME NEW p \in Places(scaled)
      PROVE  /\ <<p[1] + offset[1], p[2] + offset[2]>> \in Places(screen)
             /\ Shown[p] \in Places(rotated)
             /\ Source(Shown[p], image, rotation) \in Places(image)
  <2>1. <<p[1] + offset[1], p[2] + offset[2]>> \in Places(screen)
    <3>1. /\ p[1] + offset[1] \in 0 .. screen[1] - 1
          /\ p[2] + offset[2] \in 0 .. screen[2] - 1
      <4> HIDE DEF Shown
      <4> QED  BY <1>6
    <3> QED  BY <3>1 DEF Places
  <2>2. Shown[p] \in Places(rotated)
    <3>1. Shown[p] = <<Shown[p][1], Shown[p][2]>>
      BY DEF Sampled
    <3>2. /\ Shown[p][1] \in 0 .. rotated[1] - 1
          /\ Shown[p][2] \in 0 .. rotated[2] - 1
      BY <1>6
    <3> HIDE DEF Shown
    <3> QED  BY <3>1, <3>2 DEF Places
  <2> HIDE DEF Shown
  <2>3. Source(Shown[p], image, rotation) \in Places(image)
    BY <1>1, <2>2, SourceInside DEF rotated
  <2> QED  BY <2>1, <2>2, <2>3
<1>8. ASSUME NEW r \in Places(rotated)
      PROVE  Source(r, image, rotation) = Turned(r, image, rotation \div 90)
  <2>1. r \in Spots
    BY <1>5 DEF Places, Spots
  <2> QED  BY <1>1, <2>1, TurnsSource
<1>9. ASSUME NEW i \in 1 .. 2, rotated[i] <= scaled[i],
             NEW n \in 0 .. rotated[i] - 1
      PROVE  \E p \in Places(scaled) : Shown[p][i] = n
  <2> HIDE DEF Shown
  <2>0. rotated[i] \in Nat \ {0} /\ scaled[i] \in Nat \ {0}
    BY <1>5
  <2>1. PICK x \in 0 .. scaled[i] - 1 : (x * rotated[i]) \div scaled[i] = n
    BY <1>9, <2>0, LineShown
  <2> DEFINE p == IF i = 1 THEN <<x, 0>> ELSE <<0, x>>
  <2>2. p \in Places(scaled) /\ p[i] = x
    <3>1. CASE i = 1
      <4>1. x \in 0 .. scaled[1] - 1 /\ 0 \in 0 .. scaled[2] - 1
        BY <1>5, <2>1, <3>1
      <4>2. <<x, 0>> \in Places(scaled)
        BY <4>1 DEF Places
      <4> QED  BY <3>1, <4>2
    <3>2. CASE i = 2
      <4>1. x \in 0 .. scaled[2] - 1 /\ 0 \in 0 .. scaled[1] - 1
        BY <1>5, <2>1, <3>2
      <4>2. <<0, x>> \in Places(scaled)
        BY <4>1 DEF Places
      <4> QED  BY <3>2, <4>2
    <3> QED  BY <3>1, <3>2
  <2> HIDE DEF p
  <2>3. Shown[p][i] = n
    BY <1>6, <2>1, <2>2
  <2> QED  BY <2>2, <2>3
<1>10. FrameComplete(requested, image, screen) =
         (/\ \A p \in Places(scaled) :
               /\ <<p[1] + offset[1], p[2] + offset[2]>> \in Places(screen)
               /\ Shown[p] \in Places(rotated)
               /\ Source(Shown[p], image, rotation) \in Places(image)
          /\ \A r \in Places(rotated) :
               Source(r, image, rotation) = Turned(r, image, rotation \div 90)
          /\ \E i \in 1 .. 2 : LET j == 3 - i IN
               /\ scaled[i] = screen[i]
               /\ \/ scaled[j] * rotated[i] <= screen[i] * rotated[j]
                  \/ scaled[j] = 1
               /\ (scaled[j] + 1) * rotated[i] > screen[i] * rotated[j]
          /\ \A i \in 1 .. 2 : rotated[i] <= scaled[i] =>
               \A n \in 0 .. rotated[i] - 1 :
                 \E p \in Places(scaled) : Shown[p][i] = n)
  BY Zenon DEF FrameComplete, rotation, rotated, scaled, offset
<1> HIDE DEF Shown
<1> QED  BY <1>3, <1>7, <1>8, <1>9, <1>10

------------------------------------------------------------------------------
(* The theorems                                                            *)

(* Every variable of the upload keeps its type; at most MaxAttempts        *)
(* commits are made, whatever the device answers.                          *)
THEOREM TypeCorrect == ClientSpec => []TypeOK
<1>1. Inductive => TypeOK
  BY DEF Inductive
<1> QED  BY <1>1, InductiveInvariant, PTL

(* An upload that reports success left a committed resource whose chunks   *)
(* are all intact, however many of them were damaged before.               *)
THEOREM UploadsAreExact == ClientSpec => []UploadedIsExact
<1>1. Inductive => UploadedIsExact
  BY DEF Inductive
<1> QED  BY <1>1, InductiveInvariant, PTL

(* The retries are not used up by less damage than there are attempts,     *)
(* wherever it falls and whatever the commit makes of it.                  *)
THEOREM RetriesSuffice == ClientSpec => []RetriesCoverDamage
<1>1. Inductive => RetriesCoverDamage
  BY DEF Inductive
<1> QED  BY <1>1, InductiveInvariant, PTL

(* Every variable of a command keeps its type; an upload runs only inside  *)
(* of the call that is an upload.                                          *)
THEOREM ClientTypeCorrect == ClientSpec => []ClientTypeOK
<1>1. ClientInductive => ClientTypeOK
  BY DEF ClientInductive
<1> QED  BY <1>1, ClientInvariant, PTL

(* A command that succeeds leaves what it prints the handles of, whatever  *)
(* the number of frames it streamed.                                       *)
THEOREM SuccessIsPrinted == ClientSpec => []SuccessLeavesPrinted
<1>1. ClientInductive => SuccessLeavesPrinted
  BY DEF ClientInductive
<1> QED  BY <1>1, ClientInvariant, PTL

(* No path through a command destroys an object twice.                     *)
THEOREM HandlesFresh == ClientSpec => []NoStaleHandle
<1>1. ClientInductive => NoStaleHandle
  <2> SUFFICES ASSUME ClientInductive  PROVE NoStaleHandle
    OBVIOUS
  <2>1. ASSUME status \in {"failing", "leaving"}, cleanup # <<>>
        PROVE  Held(Head(cleanup)) \in device \cup unsure
    <3>1. /\ cleanup \in Seq(Kinds)
          /\ \A i \in DOMAIN cleanup : Held(cleanup[i]) \in device \cup unsure
      BY <2>1 DEF ClientInductive, WayOut, Cleaning
    <3>2. Head(cleanup) = cleanup[1] /\ 1 \in DOMAIN cleanup
      BY <2>1, <3>1
    <3> QED  BY <3>1, <3>2
  <2>2. ASSUME Running("drop")  PROVE Held(Kind) \in device
    <3>1. /\ device = Objects(handles) /\ Head(todo).op = "drop"
          /\ \E a \in Stages :
                Stands(a, handles, made) /\ Fits(command, Head(todo), a)
      BY <2>2, RunningIs
    <3>2. PICK a \in Stages :
                Stands(a, handles, made) /\ Fits(command, Head(todo), a)
      BY <3>1
    <3>3. Kind \in a.held
      BY <3>1, <3>2 DEF Fits, Kind
    <3> QED  BY <3>1, <3>2, <3>3, ClientTypes, HeldNumber DEF Held
  <2> QED  BY <2>1, <2>2 DEF NoStaleHandle
<1> QED  BY <1>1, ClientInvariant, PTL

(* A command that fails leaves little although it held the handle.         *)
THEOREM FailureIsSmall == ClientSpec => []FailureLeavesLittle
<1>1. ClientInductive => FailureLeavesLittle
  BY DEF ClientInductive, WayOut
<1> QED  BY <1>1, ClientInvariant, PTL

(* Every screenshot of every size, turned as asked for or as it fits best, *)
(* becomes a whole frame of the display.                                   *)
THEOREM PicturesShown == ClientSpec => []PictureShown
<1>1. ClientInductive => PictureShown
  <2> SUFFICES ASSUME ClientInductive, picture # NoPicture
               PROVE  FrameComplete(picture.requested, picture.size, display)
    BY DEF PictureShown
  <2>1. /\ picture.requested \in Rotations \cup {AutoRotation}
        /\ picture.size \in Pictures /\ display \in Displays
    BY DEF ClientInductive, ClientTypeOK
  <2>2. picture.size \in Sizes /\ display \in Sizes
    BY <2>1, SizesAssumption DEF Sizes
  <2> QED  BY <2>1, <2>2, FrameCompletes
<1> QED  BY <1>1, ClientInvariant, PTL

=============================================================================
