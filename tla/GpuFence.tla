------------------------------ MODULE GpuFence ------------------------------
(***************************************************************************)
(* What the render node promises about submissions: an accepted submission *)
(* is pending until it finishes, submissions finish in the order in which  *)
(* they were accepted (kernel/README.md:15, "an ordered kernel             *)
(* workqueue"), and a result, once given, never changes.  A device that    *)
(* goes away may refuse a submission, it never forgets an accepted one.    *)
(***************************************************************************)
EXTENDS Sequences

CONSTANT Seqnos, Results

VARIABLES fifo,    \* accepted and not finished, oldest first
          result   \* what WAIT reports of a finished submission

fenceState == <<fifo, result>>

Init == fifo = <<>> /\ result = [s \in Seqnos |-> "none"]

Accept(s) ==
  /\ result[s] = "none" /\ \A i \in DOMAIN fifo : fifo[i] # s
  /\ fifo' = Append(fifo, s)
  /\ UNCHANGED result

Finish ==
  /\ fifo # <<>>
  /\ \E r \in Results : result' = [result EXCEPT ![Head(fifo)] = r]
  /\ fifo' = Tail(fifo)

Next == Finish \/ \E s \in Seqnos : Accept(s)

Safety == Init /\ [][Next]_fenceState

Spec == Safety /\ WF_fenceState(Finish)

=============================================================================
