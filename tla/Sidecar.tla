------------------------------ MODULE Sidecar -------------------------------
(***************************************************************************)
(* The sidecar and its client: internal/sidecarclient (one HTTP call at a  *)
(* time, behind controls.Locking, each with a timeout), the threads of     *)
(* sidecar/http_api.py, and the one locked socket of sidecar/transport.py. *)
(* The health endpoint is called too, by the liveness probe of the pod.    *)
(*                                                                         *)
(* Time is discrete.  Steps inside the pod take none: it passes while the  *)
(* socket is being connected or a frame is awaited, each for SocketTimeout *)
(* at most.  The datalogger and pysolarmanv5 are external: a frame is      *)
(* carried out while it is awaited or never, and a socket yields the       *)
(* answers in the order they arrive.                                       *)
(***************************************************************************)
EXTENDS Integers, Sequences

CONSTANTS
  Addrs, Values, InitialValue,
  SocketTimeout,   \* INVERTER_SOCKET_TIMEOUT (10 s)
  ClientTimeout,   \* defaultTimeout (15 s)
  MaxCalls,        \* bound on the calls of the manager
  MaxProbes,       \* bound on the health probes
  MaxFailures      \* bound on failing connects and frames

ASSUME SidecarAssumption ==
  /\ Addrs # {}
  /\ InitialValue \in Values
  /\ SocketTimeout \in Nat \ {0}
  /\ ClientTimeout \in Nat \ {0}
  /\ MaxCalls \in Nat
  /\ MaxProbes \in Nat
  /\ MaxFailures \in Nat

VARIABLES
  regs,      \* the inverter's registers
  thread,    \* the handler thread of each request
  lock,      \* the request that holds transport._lock, 0 for none
  busy,      \* how long it has been connecting, or waiting for its answer
  sock,      \* the socket: open or not, and the answers that have arrived
  caller,    \* the manager's side of each call
  age,       \* how long the open call has been waiting
  executed,  \* history: what the inverter answered to each call
  failures   \* what is left of MaxFailures

vars == <<regs, thread, lock, busy, sock, caller, age, executed, failures>>

-----------------------------------------------------------------------------
Calls == 1 .. MaxCalls
Probes == MaxCalls + 1 .. MaxCalls + MaxProbes
Requests == Calls \cup Probes

ProbeAddr == CHOOSE a \in Addrs : TRUE

Nothing == [kind |-> "read", addr |-> ProbeAddr, value |-> InitialValue, at |-> "none"]

NoAnswer == [done |-> FALSE, value |-> InitialValue]

At(r, place) == thread[r].at = place

Go(r, place) == thread' = [thread EXCEPT ![r].at = place]

Waiting == \E c \in Calls : caller[c].at = "open"

-----------------------------------------------------------------------------
(* The client.                                                             *)

\* ReadHolding and WriteHolding: the manager has one call open at a time.
Call(c) ==
  /\ ~Waiting
  /\ caller[c].at = "none"
  /\ \A d \in 1 .. c - 1 : caller[d].at # "none"
  /\ \E k \in {"read", "write"}, a \in Addrs, v \in Values :
       /\ k = "read" => v = InitialValue
       /\ thread' = [thread EXCEPT ![c] = [kind |-> k, addr |-> a, value |-> v, at |-> "queued"]]
  /\ caller' = [caller EXCEPT ![c].at = "open"]
  /\ age' = 0
  /\ UNCHANGED <<regs, lock, busy, sock, executed, failures>>

\* http.Client.Timeout: the call is an error, and its thread is left alone.
ClientTimesOut(c) ==
  /\ caller[c].at = "open"
  /\ age = ClientTimeout
  /\ caller' = [caller EXCEPT ![c].at = "error"]
  /\ age' = 0
  /\ UNCHANGED <<regs, thread, lock, busy, sock, executed, failures>>

\* GET /health, by the liveness probe.
Probe(p) ==
  /\ At(p, "none")
  /\ Go(p, "queued")
  /\ UNCHANGED <<regs, lock, busy, sock, caller, age, executed, failures>>

-----------------------------------------------------------------------------
(* A handler thread: do_POST or do_GET, then one transport call under its  *)
(* lock.                                                                   *)

\* with self._lock; _connect_if_needed reuses an open socket.
Acquire(r) ==
  /\ At(r, "queued")
  /\ lock = 0
  /\ lock' = r
  /\ busy' = 0
  /\ Go(r, IF sock.open THEN "send" ELSE "connect")
  /\ UNCHANGED <<regs, sock, caller, age, executed, failures>>

Connect(r) ==
  /\ At(r, "connect")
  /\ sock' = [open |-> TRUE, answers |-> <<>>]
  /\ busy' = 0
  /\ Go(r, "send")
  /\ UNCHANGED <<regs, lock, caller, age, executed, failures>>

\* Mutant: the lock outlives a failed connect.
ConnectFailsLocked(r) ==
  /\ At(r, "connect")
  /\ failures > 0
  /\ failures' = failures - 1
  /\ Go(r, "error")
  /\ UNCHANGED <<regs, lock, busy, sock, caller, age, executed>>

\* No connection within the timeout, or refused.
ConnectFails(r) ==
  /\ At(r, "connect")
  /\ failures > 0
  /\ failures' = failures - 1
  /\ lock' = 0
  /\ Go(r, "error")
  /\ UNCHANGED <<regs, busy, sock, caller, age, executed>>

Send(r) ==
  /\ At(r, "send")
  /\ Go(r, "sent")
  /\ UNCHANGED <<regs, lock, busy, sock, caller, age, executed, failures>>

\* The inverter carries out the frame and its answer arrives: the value read, or
\* the value written.
Execute(r) ==
  LET t == thread[r]
      answer == IF t.kind = "read" THEN regs[t.addr] ELSE t.value
  IN /\ At(r, "sent")
     /\ regs' = IF t.kind = "write" THEN [regs EXCEPT ![t.addr] = t.value] ELSE regs
     /\ sock' = [sock EXCEPT !.answers = Append(@, answer)]
     /\ executed' = [c \in Calls |-> IF c = r THEN [done |-> TRUE, value |-> answer]
                                     ELSE executed[c]]
     /\ Go(r, "await")
     /\ UNCHANGED <<lock, busy, caller, age, failures>>

\* The thread takes the first answer of the socket.
Receive(r) ==
  /\ At(r, "await")
  /\ sock.answers # <<>>
  /\ thread' = [thread EXCEPT ![r].at = "ok", ![r].value = Head(sock.answers)]
  /\ sock' = [sock EXCEPT !.answers = Tail(@)]
  /\ lock' = 0
  /\ UNCHANGED <<regs, busy, caller, age, executed, failures>>

\* Mutant: an error leaves the socket as it is.
KeepSocket == UNCHANGED sock

\* _disconnect: the socket is gone, and what it had to deliver with it.
Disconnect == sock' = [open |-> FALSE, answers |-> <<>>]

\* _call fails: no answer within the timeout, a bad frame, or a broken socket.
\* The frame was never carried out, or its answer is lost.
CallFails(r) ==
  /\ At(r, "sent") \/ At(r, "await")
  /\ failures > 0
  /\ failures' = failures - 1
  /\ Disconnect
  /\ lock' = 0
  /\ Go(r, "error")
  /\ UNCHANGED <<regs, busy, caller, age, executed>>

\* The response: it reaches the manager if it is still waiting for it.
Reply(r) ==
  /\ At(r, "ok") \/ At(r, "error")
  /\ Go(r, "done")
  /\ \/ /\ r \in Calls /\ caller[r].at = "open"
        /\ caller' = [caller EXCEPT ![r] = [at |-> thread[r].at, value |-> thread[r].value]]
        /\ age' = 0
     \/ /\ ~(r \in Calls /\ caller[r].at = "open")
        /\ UNCHANGED <<caller, age>>
  /\ UNCHANGED <<regs, lock, busy, sock, executed, failures>>

-----------------------------------------------------------------------------
\* Something inside the pod is about to happen.
Immediate ==
  \/ \E r \in Requests : At(r, "send") \/ At(r, "ok") \/ At(r, "error")
  \/ lock = 0 /\ \E r \in Requests : At(r, "queued")

\* Mutant: an http.Client without a timeout.
clientPatientForever == TRUE

\* Neither the client nor the socket waits longer than its timeout.
clientPatient == Waiting => age < ClientTimeout

socketPatient == lock # 0 => busy < SocketTimeout

Tick ==
  /\ ~Immediate
  /\ Waiting \/ lock # 0
  /\ clientPatient
  /\ socketPatient
  /\ age' = IF Waiting THEN age + 1 ELSE 0
  /\ busy' = IF lock # 0 THEN busy + 1 ELSE busy
  /\ UNCHANGED <<regs, thread, lock, sock, caller, executed, failures>>

-----------------------------------------------------------------------------
Init ==
  /\ regs = [a \in Addrs |-> InitialValue]
  /\ thread = [r \in Requests |-> Nothing]
  /\ lock = 0
  /\ busy = 0
  /\ sock = [open |-> FALSE, answers |-> <<>>]
  /\ caller = [c \in Calls |-> [at |-> "none", value |-> InitialValue]]
  /\ age = 0
  /\ executed = [c \in Calls |-> NoAnswer]
  /\ failures = MaxFailures

Work(r) ==
  \/ Acquire(r)
  \/ Connect(r) \/ ConnectFails(r)
  \/ Send(r) \/ Execute(r) \/ Receive(r) \/ CallFails(r)
  \/ Reply(r)

Next ==
  \/ \E c \in Calls : Call(c) \/ ClientTimesOut(c)
  \/ \E p \in Probes : Probe(p)
  \/ \E r \in Requests : Work(r)
  \/ Tick

Spec == Init /\ [][Next]_vars

\* A thread that has the lock goes on, within the socket's timeout; a queued one
\* gets the lock, which is never held for long and is asked for finitely often.
FairSpec == Spec /\ \A r \in Requests : WF_vars(Work(r))

-----------------------------------------------------------------------------
(* Properties.                                                             *)

TypeOK ==
  /\ regs \in [Addrs -> Values]
  /\ thread \in [Requests -> [kind : {"read", "write"}, addr : Addrs, value : Values,
                              at : {"none", "queued", "connect", "send", "sent", "await",
                                    "ok", "error", "done"}]]
  /\ lock \in Requests \cup {0}
  /\ busy \in 0 .. SocketTimeout
  /\ sock \in [open : BOOLEAN, answers : Seq(Values)]
  /\ caller \in [Calls -> [at : {"none", "open", "ok", "error"}, value : Values]]
  /\ age \in 0 .. ClientTimeout
  /\ executed \in [Calls -> [done : BOOLEAN, value : Values]]
  /\ failures \in 0 .. MaxFailures

\* How the manager sees its calls.  Until a call has returned its value is the one
\* the inverter saw or answered.
Seen(c) ==
  [kind  |-> thread[c].kind,
   addr  |-> thread[c].addr,
   value |-> IF caller[c].at = "ok" THEN caller[c].value
             ELSE IF executed[c].done THEN executed[c].value
             ELSE thread[c].value,
   at    |-> caller[c].at,
   done  |-> executed[c].done]

Abstract == INSTANCE Registers WITH ops <- [c \in Calls |-> Seen(c)]

\* The lock, and the disconnect after every failure, make the sidecar a register
\* service: no call takes effect twice, none succeeds without its effect, and none
\* is given the answer of another, whatever fails and however threads queue.
ImplementsRegisters == Abstract!Spec

\* Every accepted request is answered, and gives the lock to the next.
RequestsEnd == \A r \in Requests : At(r, "queued") ~> At(r, "done")
=============================================================================
