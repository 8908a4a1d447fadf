---------------------------- MODULE ConversionCall ----------------------------
(***************************************************************************)
(* What Client.Convert promises the pipeline: a call that was started      *)
(* returns once, and it returns a document only if the converter produced  *)
(* one for it.  ConverterTasks is shown to implement this.                 *)
(***************************************************************************)
CONSTANT Call

VARIABLES outcome,      \* what each call has come to
          converted     \* the calls whose document the converter has read
vars == <<outcome, converted>>

Init == /\ outcome = [c \in Call |-> "idle"]
        /\ converted = {}

Start(c) == /\ outcome[c] = "idle"
            /\ outcome' = [outcome EXCEPT ![c] = "running"]
            /\ UNCHANGED converted

\* The converter may still read the document of a call that has given up.
Read(c) == /\ outcome[c] # "idle"
           /\ converted' = converted \cup {c}
           /\ UNCHANGED outcome

Deliver(c) == /\ outcome[c] = "running"
              /\ c \in converted
              /\ outcome' = [outcome EXCEPT ![c] = "document"]
              /\ UNCHANGED converted

\* Also from idle: a submission that fails starts and ends the call in one step.
Fail(c) == /\ outcome[c] \in {"idle", "running"}
           /\ outcome' = [outcome EXCEPT ![c] = "failed"]
           /\ UNCHANGED converted

Next == \E c \in Call : Start(c) \/ Read(c) \/ Deliver(c) \/ Fail(c)

Return(c) == outcome[c] = "running" /\ (Deliver(c) \/ Fail(c))

Safety == Init /\ [][Next]_vars

Spec == Safety /\ \A c \in Call : WF_vars(Return(c))
===============================================================================
