----------------------------- MODULE Registers ------------------------------
(***************************************************************************)
(* What the register calls of internal/sidecarclient promise their caller: *)
(* a call takes effect at most once, and one that returns without an error *)
(* took effect before it returned; the value a read returns is the one the *)
(* register held at that moment.  A call that returned an error has taken  *)
(* effect, or may still do so, or never will.                              *)
(***************************************************************************)
CONSTANTS
  Calls,         \* the calls of a behaviour
  Addrs,         \* the registers
  Values,        \* their values
  InitialValue

VARIABLES
  regs,  \* the registers
  ops    \* the calls

-----------------------------------------------------------------------------
Kinds == {"read", "write"}

NoCall == [kind |-> "read", addr |-> CHOOSE a \in Addrs : TRUE, value |-> InitialValue,
           at |-> "none", done |-> FALSE]

Init ==
  /\ regs = [a \in Addrs |-> InitialValue]
  /\ ops = [c \in Calls |-> NoCall]

\* A call begins; a read has no value yet.
Invoke(c) ==
  /\ ops[c].at = "none"
  /\ \E k \in Kinds, a \in Addrs, v \in Values :
       /\ k = "read" => v = InitialValue
       /\ ops' = [ops EXCEPT ![c] = [kind |-> k, addr |-> a, value |-> v,
                                     at |-> "open", done |-> FALSE]]
  /\ UNCHANGED regs

\* Its one effect, which may come after an error has been returned.
Effect(c) ==
  /\ ops[c].at \in {"open", "error"}
  /\ ~ops[c].done
  /\ \/ /\ ops[c].kind = "read"
        /\ ops' = [ops EXCEPT ![c].done = TRUE, ![c].value = regs[ops[c].addr]]
        /\ UNCHANGED regs
     \/ /\ ops[c].kind = "write"
        /\ ops' = [ops EXCEPT ![c].done = TRUE]
        /\ regs' = [regs EXCEPT ![ops[c].addr] = ops[c].value]

Return(c) ==
  /\ ops[c].at = "open"
  /\ ops[c].done
  /\ ops' = [ops EXCEPT ![c].at = "ok"]
  /\ UNCHANGED regs

ReturnError(c) ==
  /\ ops[c].at = "open"
  /\ ops' = [ops EXCEPT ![c].at = "error"]
  /\ UNCHANGED regs

Next == \E c \in Calls : Invoke(c) \/ Effect(c) \/ Return(c) \/ ReturnError(c)

Spec == Init /\ [][Next]_<<regs, ops>>
=============================================================================
