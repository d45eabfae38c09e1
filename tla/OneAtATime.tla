---------------------------- MODULE OneAtATime ------------------------------
(***************************************************************************)
(* What the updater promises its operator: an operation is admitted only   *)
(* while none is under way, changes the installation at most once and only *)
(* while it is the one under way, and ends once, with a verdict that says  *)
(* what was done.  A failed operation says nothing: it may have changed    *)
(* the installation and have been given up while doing so.                 *)
(***************************************************************************)
CONSTANTS
  Ops,    \* the operations that may ever be asked for
  NoOp    \* no operation, not in Ops

VARIABLES
  current,  \* the operation under way, or NoOp
  asked,    \* what each operation is: "nothing" yet, a "check", a "change"
  effect,   \* what was done to the installation for it
  verdict   \* what the operator is told

promise == <<current, asked, effect, verdict>>

Init ==
  /\ current = NoOp
  /\ asked = [o \in Ops |-> "nothing"]
  /\ effect = [o \in Ops |-> "none"]
  /\ verdict = [o \in Ops |-> "none"]

Admit(o) ==
  /\ current = NoOp /\ asked[o] = "nothing"
  /\ current' = o
  /\ \E what \in {"check", "change"} : asked' = [asked EXCEPT ![o] = what]
  /\ UNCHANGED <<effect, verdict>>

CarryOut(o) ==
  /\ current = o /\ asked[o] = "change" /\ effect[o] = "none"
  /\ \E what \in {"applied", "rolled_back"} : effect' = [effect EXCEPT ![o] = what]
  /\ UNCHANGED <<current, asked, verdict>>

Truthful(o, told) ==
  /\ told = "completed" /\ asked[o] = "change" => effect[o] = "applied"
  /\ told = "rolled_back" => effect[o] = "rolled_back"

End(o) ==
  /\ current = o
  /\ current' = NoOp
  /\ \E told \in {"completed", "failed", "rolled_back"} :
       Truthful(o, told) /\ verdict' = [verdict EXCEPT ![o] = told]
  /\ UNCHANGED <<asked, effect>>

Next == \E o \in Ops : Admit(o) \/ CarryOut(o) \/ End(o)

Spec == Init /\ [][Next]_promise
=============================================================================
