--------------------------- MODULE SidecarProofs ----------------------------
(***************************************************************************)
(* Proofs about Sidecar, for every set of registers and values, every pair *)
(* of timeouts, every number of calls, of probes and of failures: the      *)
(* sidecar implements Registers.                                           *)
(***************************************************************************)
EXTENDS Sidecar, SequenceTheorems, TLAPS

-----------------------------------------------------------------------------
(* The inductive invariant.                                                *)

\* The places of a thread before its frame is carried out, and those where it
\* holds transport._lock.
Unexecuted == {"none", "queued", "connect", "send", "sent"}

Locked == {"connect", "send", "sent", "await"}

\* The thread in the transport is the one that holds the lock.
LockOwned == \A r \in Requests : thread[r].at \in Locked <=> lock = r

\* The socket holds the answer to the frame that is awaited and nothing else, so
\* no answer is left over for the next thread.
AnswerMatches ==
  /\ (\A r \in Requests : thread[r].at # "await") => sock.answers = <<>>
  /\ \A r \in Requests : thread[r].at = "await" =>
       /\ Len(sock.answers) = 1
       /\ r \in Calls => sock.answers[1] = executed[r].value

\* A frame is carried out before it is answered; an answered thread has the
\* answer of its own frame.
ExecutedOnce ==
  \A c \in Calls :
    /\ thread[c].at \in Unexecuted => ~executed[c].done
    /\ thread[c].at \in {"await", "ok"} => executed[c].done
    /\ thread[c].at = "ok" => thread[c].value = executed[c].value

\* The manager's side of a call.
CallerKnows ==
  \A c \in Calls :
    /\ thread[c].at = "none" <=> caller[c].at = "none"
    /\ caller[c].at = "ok" => /\ thread[c].at = "done"
                              /\ executed[c].done
                              /\ caller[c].value = executed[c].value

ProbesRead == \A p \in Probes : thread[p].kind = "read"

ThreadInv == LockOwned /\ AnswerMatches /\ ExecutedOnce /\ CallerKnows /\ ProbesRead

IInv == TypeOK /\ ThreadInv

-----------------------------------------------------------------------------
(* The threads.                                                            *)

ThreadPlaces == {"none", "queued", "connect", "send", "sent", "await", "ok", "error", "done"}

Threads == [kind : {"read", "write"}, addr : Addrs, value : Values, at : ThreadPlaces]

\* One thread moves; it keeps its request, but for the value it receives.
Moved(r, place) ==
  /\ thread' \in [Requests -> Threads]
  /\ \A q \in Requests : q # r => thread'[q] = thread[q]
  /\ thread'[r].at = place
  /\ thread'[r].kind = thread[r].kind
  /\ thread'[r].addr = thread[r].addr

LEMMA RequestsApart ==
  /\ Calls \subseteq Requests
  /\ Probes \subseteq Requests
  /\ 0 \notin Requests
  /\ \A p \in Probes : p \notin Calls
BY SidecarAssumption DEF Calls, Probes, Requests

LEMMA GoMoves ==
  ASSUME TypeOK, NEW r \in Requests, NEW place \in ThreadPlaces, Go(r, place)
  PROVE  Moved(r, place) /\ thread'[r].value = thread[r].value
<1>1. thread \in [Requests -> Threads]
  BY DEF TypeOK, Threads, ThreadPlaces
<1>2. thread' = [thread EXCEPT ![r] = [thread[r] EXCEPT !.at = place]]
  BY DEF Go
<1>3. [thread[r] EXCEPT !.at = place] =
        [kind |-> thread[r].kind, addr |-> thread[r].addr, value |-> thread[r].value, at |-> place]
  BY <1>1 DEF Threads
<1>4. [kind |-> thread[r].kind, addr |-> thread[r].addr, value |-> thread[r].value, at |-> place]
        \in Threads
  BY <1>1 DEF Threads
<1> QED
  BY <1>1, <1>2, <1>3, <1>4 DEF Moved

\* A call that begins, or a thread that receives, replaces its record.
LEMMA ReplaceMoves ==
  ASSUME TypeOK, NEW r \in Requests, NEW t \in Threads, thread' = [thread EXCEPT ![r] = t]
  PROVE  /\ thread' \in [Requests -> Threads]
         /\ \A q \in Requests : q # r => thread'[q] = thread[q]
         /\ thread'[r] = t
BY DEF TypeOK, Threads, ThreadPlaces

LEMMA ReceiveMoves ==
  ASSUME TypeOK, ThreadInv, NEW r \in Requests, Receive(r)
  PROVE  /\ Moved(r, "ok")
         /\ thread'[r].value = sock.answers[1]
         /\ sock'.open = sock.open /\ sock'.answers = <<>>
         /\ sock' \in [open : BOOLEAN, answers : Seq(Values)]
<1>1. thread \in [Requests -> Threads]
  BY DEF TypeOK, Threads, ThreadPlaces
<1>2. Len(sock.answers) = 1 /\ sock.answers \in Seq(Values) /\ sock.open \in BOOLEAN
  BY DEF Receive, At, ThreadInv, AnswerMatches, TypeOK
<1>3. Head(sock.answers) = sock.answers[1] /\ sock.answers[1] \in Values
  BY <1>2
<1>4. Tail(sock.answers) = <<>>
  <2>1. sock.answers # <<>>
    BY DEF Receive
  <2>2. Tail(sock.answers) \in Seq(Values) /\ Len(Tail(sock.answers)) = Len(sock.answers) - 1
    BY <1>2, <2>1, HeadTailProperties
  <2>3. Len(Tail(sock.answers)) = 0
    BY <1>2, <2>2
  <2> QED
    BY <2>2, <2>3, EmptySeq
<1> DEFINE t == [kind |-> thread[r].kind, addr |-> thread[r].addr,
                 value |-> sock.answers[1], at |-> "ok"]
<1>5. thread' = [thread EXCEPT ![r] = t]
  <2>1. [[thread EXCEPT ![r].at = "ok"] EXCEPT ![r].value = Head(sock.answers)] =
          [thread EXCEPT ![r] = [[thread[r] EXCEPT !.at = "ok"] EXCEPT !.value = sock.answers[1]]]
    BY <1>1, <1>3
  <2>2. [[thread[r] EXCEPT !.at = "ok"] EXCEPT !.value = sock.answers[1]] = t
    <3> DEFINE u == [thread[r] EXCEPT !.at = "ok"]
    <3>1. u = [kind |-> thread[r].kind, addr |-> thread[r].addr, value |-> thread[r].value,
               at |-> "ok"]
      BY <1>1 DEF Threads
    <3> HIDE DEF u
    <3>2. [u EXCEPT !.value = sock.answers[1]] = t
      BY <3>1
    <3> QED
      BY <3>2 DEF u
  <2> QED
    BY <2>1, <2>2 DEF Receive
<1>6. t \in Threads
  BY <1>1, <1>3 DEF Threads, ThreadPlaces
<1>7. sock' = [open |-> sock.open, answers |-> <<>>]
  BY <1>4 DEF Receive, TypeOK
<1>8. Moved(r, "ok") /\ thread'[r].value = sock.answers[1]
  BY <1>5, <1>6, ReplaceMoves DEF Moved
<1>9. <<>> \in Seq(Values)
  OBVIOUS
<1> QED
  BY <1>2, <1>7, <1>8, <1>9

\* What the inverter answers to the frame of a thread.
answerTo(r) == IF thread[r].kind = "read" THEN regs[thread[r].addr] ELSE thread[r].value

LEMMA ExecuteShape ==
  ASSUME TypeOK, ThreadInv, NEW r \in Requests, Execute(r)
  PROVE  /\ Moved(r, "await") /\ thread'[r].value = thread[r].value
         /\ answerTo(r) \in Values
         /\ sock' = [open |-> sock.open, answers |-> <<answerTo(r)>>]
         /\ executed' = [c \in Calls |-> IF c = r THEN [done |-> TRUE, value |-> answerTo(r)]
                                         ELSE executed[c]]
         /\ regs' = IF thread[r].kind = "write"
                    THEN [regs EXCEPT ![thread[r].addr] = thread[r].value] ELSE regs
<1>1. Moved(r, "await") /\ thread'[r].value = thread[r].value
  BY GoMoves DEF Execute, ThreadPlaces
<1>2. answerTo(r) \in Values
  BY DEF answerTo, TypeOK
<1>3. thread[r].at = "sent" /\ lock = r
  BY DEF Execute, At, ThreadInv, LockOwned, Locked
<1>4. \A q \in Requests : thread[q].at # "await"
  BY <1>3 DEF ThreadInv, LockOwned, Locked
<1>5. sock.answers = <<>>
  BY <1>4 DEF ThreadInv, AnswerMatches
<1>6. sock' = [sock EXCEPT !.answers = Append(sock.answers, answerTo(r))]
  BY DEF Execute, answerTo
<1>7. Append(sock.answers, answerTo(r)) = <<answerTo(r)>>
  BY <1>5
<1>8. sock' = [open |-> sock.open, answers |-> <<answerTo(r)>>]
  BY <1>6, <1>7 DEF TypeOK
<1> QED
  BY <1>1, <1>2, <1>8 DEF Execute, answerTo

-----------------------------------------------------------------------------
(* The lock, the answers and the callers.                                  *)

LEMMA CallThreadInv ==
  ASSUME TypeOK, ThreadInv, NEW c \in Calls, Call(c)
  PROVE  ThreadInv'
<1>1. PICK t \in Threads : t.at = "queued" /\ thread' = [thread EXCEPT ![c] = t]
  BY DEF Call, Threads, ThreadPlaces
<1>2. /\ c \in Requests /\ \A p \in Probes : p # c
      /\ \A q \in Requests : q # c => thread'[q] = thread[q]
      /\ thread'[c].at = "queued"
  BY <1>1, RequestsApart, ReplaceMoves
<1>3. \A d \in Calls : caller'[d].at = IF d = c THEN "open" ELSE caller[d].at
  BY DEF Call, TypeOK
<1>4. \A d \in Calls : d # c => caller'[d] = caller[d]
  BY DEF Call, TypeOK
<1>5. thread[c].at = "none"
  BY DEF Call, ThreadInv, CallerKnows
<1>6. UNCHANGED <<lock, sock, executed>>
  BY DEF Call
<1>7. LockOwned'
  BY <1>2, <1>5, <1>6 DEF ThreadInv, LockOwned, Locked
<1>8. AnswerMatches'
  BY <1>2, <1>5, <1>6 DEF ThreadInv, AnswerMatches
<1>9. ExecutedOnce'
  BY <1>2, <1>5, <1>6, RequestsApart DEF ThreadInv, ExecutedOnce, Unexecuted
<1>10. CallerKnows'
  BY <1>2, <1>3, <1>4, <1>6, RequestsApart DEF ThreadInv, CallerKnows
<1>11. ProbesRead'
  BY <1>2, RequestsApart DEF ThreadInv, ProbesRead
<1> QED
  BY <1>7, <1>8, <1>9, <1>10, <1>11 DEF ThreadInv

LEMMA ClientTimesOutThreadInv ==
  ASSUME TypeOK, ThreadInv, NEW c \in Calls, ClientTimesOut(c)
  PROVE  ThreadInv'
<1>1. \A d \in Calls : /\ d # c => caller'[d] = caller[d]
                       /\ d = c => caller'[d].at = "error"
  BY DEF ClientTimesOut, TypeOK
<1>2. caller[c].at = "open" /\ UNCHANGED <<thread, lock, sock, executed>>
  BY DEF ClientTimesOut
<1>3. CallerKnows'
  BY <1>1, <1>2 DEF ThreadInv, CallerKnows
<1> QED
  BY <1>2, <1>3 DEF ThreadInv, LockOwned, AnswerMatches, ExecutedOnce, ProbesRead

\* A thread takes the lock, holds it or gives it back, before its frame is
\* carried out.
LEMMA BeforeFrameThreadInv ==
  ASSUME TypeOK, ThreadInv, NEW r \in Requests, NEW place \in ThreadPlaces \ {"await", "ok", "none"},
         Moved(r, place), thread[r].at \notin {"await", "done"},
         place \in Unexecuted => thread[r].at \in Unexecuted,
         thread[r].at = "none" => r \notin Calls,
         place \in Locked <=> lock' = r, lock \in {0, r}, lock' \in {0, r},
         sock'.answers = sock.answers \/ sock'.answers = <<>>,
         UNCHANGED <<executed, caller>>
  PROVE  ThreadInv'
<1> USE DEF Moved
<1>1. LockOwned'
  BY RequestsApart DEF ThreadInv, LockOwned
<1>2. AnswerMatches'
  <2>1. \A q \in Requests : thread[q].at # "await"
    BY RequestsApart DEF ThreadInv, LockOwned, Locked
  <2> QED
    BY <2>1 DEF ThreadInv, AnswerMatches
<1>3. ExecutedOnce'
  BY RequestsApart DEF ThreadInv, ExecutedOnce
<1>4. CallerKnows'
  BY RequestsApart DEF ThreadInv, CallerKnows
<1>5. ProbesRead'
  BY RequestsApart DEF ThreadInv, ProbesRead
<1> QED
  BY <1>1, <1>2, <1>3, <1>4, <1>5 DEF ThreadInv

LEMMA ProbeThreadInv ==
  ASSUME TypeOK, ThreadInv, NEW p \in Probes, Probe(p)
  PROVE  ThreadInv'
<1>1. p \in Requests /\ p \notin Calls /\ thread[p].at = "none"
  BY RequestsApart DEF Probe, At
<1>2. Moved(p, "queued")
  BY <1>1, GoMoves DEF Probe, ThreadPlaces
<1>3. UNCHANGED <<lock, sock, caller, executed>>
  BY DEF Probe
<1>4. LockOwned'
  BY <1>1, <1>2, <1>3 DEF ThreadInv, LockOwned, Locked, Moved
<1>5. AnswerMatches'
  BY <1>1, <1>2, <1>3 DEF ThreadInv, AnswerMatches, Moved
<1>6. \A c \in Calls : thread'[c] = thread[c]
  BY <1>1, <1>2, RequestsApart DEF Moved
<1>7. ProbesRead'
  BY <1>2, RequestsApart DEF ThreadInv, ProbesRead, Moved
<1> QED
  BY <1>3, <1>4, <1>5, <1>6, <1>7 DEF ThreadInv, ExecutedOnce, CallerKnows

LEMMA BeforeFrame ==
  ASSUME TypeOK, ThreadInv, NEW r \in Requests,
         Acquire(r) \/ Connect(r) \/ ConnectFails(r) \/ Send(r)
  PROVE  ThreadInv'
<1>0. r # 0
  BY RequestsApart
<1>1. CASE Acquire(r)
  <2>1. PICK place \in {"send", "connect"} : Go(r, place)
    BY <1>1 DEF Acquire
  <2>2. Moved(r, place)
    BY <2>1, GoMoves DEF ThreadPlaces
  <2>3. /\ thread[r].at = "queued" /\ lock = 0 /\ lock' = r
        /\ UNCHANGED <<sock, executed, caller>>
    BY <1>1 DEF Acquire, At
  <2> QED
    BY <2>2, <2>3, BeforeFrameThreadInv DEF ThreadPlaces, Unexecuted, Locked
<1>2. CASE Connect(r)
  <2>1. Moved(r, "send")
    BY <1>2, GoMoves DEF Connect, ThreadPlaces
  <2>2. /\ thread[r].at = "connect" /\ sock'.answers = <<>>
        /\ UNCHANGED <<lock, executed, caller>>
    BY <1>2 DEF Connect, At
  <2>3. lock = r
    BY <2>2 DEF ThreadInv, LockOwned, Locked
  <2> QED
    BY <2>1, <2>2, <2>3, BeforeFrameThreadInv DEF ThreadPlaces, Unexecuted, Locked
<1>3. CASE ConnectFails(r)
  <2>1. Moved(r, "error")
    BY <1>3, GoMoves DEF ConnectFails, ThreadPlaces
  <2>2. /\ thread[r].at = "connect" /\ lock' = 0
        /\ UNCHANGED <<sock, executed, caller>>
    BY <1>3 DEF ConnectFails, At
  <2>3. lock = r
    BY <2>2 DEF ThreadInv, LockOwned, Locked
  <2> QED
    BY <1>0, <2>1, <2>2, <2>3, BeforeFrameThreadInv DEF ThreadPlaces, Unexecuted, Locked
<1>4. CASE Send(r)
  <2>1. Moved(r, "sent")
    BY <1>4, GoMoves DEF Send, ThreadPlaces
  <2>2. thread[r].at = "send" /\ UNCHANGED <<lock, sock, executed, caller>>
    BY <1>4 DEF Send, At
  <2>3. lock = r
    BY <2>2 DEF ThreadInv, LockOwned, Locked
  <2> QED
    BY <2>1, <2>2, <2>3, BeforeFrameThreadInv DEF ThreadPlaces, Unexecuted, Locked
<1> QED
  BY <1>1, <1>2, <1>3, <1>4

\* The frame of one thread is answered on a socket that holds nothing else.
LEMMA ExecuteThreadInv ==
  ASSUME TypeOK, ThreadInv, NEW r \in Requests, Execute(r)
  PROVE  ThreadInv'
<1>1. /\ Moved(r, "await") /\ thread'[r].value = thread[r].value
      /\ sock'.answers = <<answerTo(r)>>
      /\ executed' = [c \in Calls |-> IF c = r THEN [done |-> TRUE, value |-> answerTo(r)]
                                      ELSE executed[c]]
  BY ExecuteShape
<1>2. thread[r].at = "sent" /\ UNCHANGED <<lock, caller>>
  BY DEF Execute, At
<1>3. lock = r
  BY <1>2 DEF ThreadInv, LockOwned, Locked
<1>4. LockOwned'
  BY <1>1, <1>2, <1>3 DEF ThreadInv, LockOwned, Locked, Moved
<1>5. \A q \in Requests : q # r => thread'[q].at # "await"
  BY <1>2, <1>3, <1>4 DEF LockOwned, Locked
<1>6. AnswerMatches'
  BY <1>1, <1>5 DEF AnswerMatches, Moved
<1>7. ExecutedOnce'
  BY <1>1, RequestsApart DEF ThreadInv, ExecutedOnce, Moved, Unexecuted
<1>8. CallerKnows'
  BY <1>1, <1>2, RequestsApart DEF ThreadInv, CallerKnows, Moved
<1>9. ProbesRead'
  BY <1>1, RequestsApart DEF ThreadInv, ProbesRead, Moved
<1> QED
  BY <1>4, <1>6, <1>7, <1>8, <1>9 DEF ThreadInv

\* The thread takes the one answer, its own, or gives up with the socket: in
\* either case nothing is left for the next.
LEMMA LeaveThreadInv ==
  ASSUME TypeOK, ThreadInv, NEW r \in Requests, Receive(r) \/ CallFails(r)
  PROVE  ThreadInv'
<1>1. /\ thread[r].at \in {"sent", "await"} /\ lock' = 0
      /\ UNCHANGED <<caller, executed>>
  BY DEF Receive, CallFails, At
<1>2. lock = r /\ r # 0
  BY <1>1, RequestsApart DEF ThreadInv, LockOwned, Locked
<1>3. sock'.answers = <<>>
  <2>1. CASE Receive(r)
    BY <2>1, ReceiveMoves
  <2>2. CASE CallFails(r)
    BY <2>2 DEF CallFails, Disconnect
  <2> QED
    BY <2>1, <2>2
<1>4. \/ Moved(r, "error")
      \/ thread[r].at = "await" /\ Moved(r, "ok") /\ thread'[r].value = sock.answers[1]
  <2>1. CASE Receive(r)
    BY <2>1, ReceiveMoves DEF Receive, At
  <2>2. CASE CallFails(r)
    BY <2>2, GoMoves DEF CallFails, ThreadPlaces
  <2> QED
    BY <2>1, <2>2
<1>5. /\ \A q \in Requests : q # r => thread'[q] = thread[q]
      /\ thread'[r].at \in {"ok", "error"}
      /\ thread'[r].kind = thread[r].kind
  BY <1>4 DEF Moved
<1>6. LockOwned'
  BY <1>1, <1>2, <1>5, RequestsApart DEF ThreadInv, LockOwned, Locked
<1>7. AnswerMatches'
  <2>1. \A q \in Requests : thread'[q].at # "await"
    BY <1>1, <1>6, RequestsApart DEF LockOwned, Locked
  <2> QED
    BY <1>3, <2>1 DEF AnswerMatches
<1>8. ExecutedOnce'
  <2>1. ASSUME r \in Calls, thread'[r].at = "ok"
        PROVE  executed[r].done /\ thread'[r].value = executed[r].value
    <3>1. thread[r].at = "await" /\ thread'[r].value = sock.answers[1]
      BY <1>4, <2>1 DEF Moved
    <3> QED
      BY <2>1, <3>1 DEF ThreadInv, AnswerMatches, ExecutedOnce
  <2> QED
    BY <1>1, <1>5, <2>1, RequestsApart DEF ThreadInv, ExecutedOnce, Unexecuted
<1>9. CallerKnows'
  BY <1>1, <1>5, RequestsApart DEF ThreadInv, CallerKnows
<1>10. ProbesRead'
  BY <1>5, RequestsApart DEF ThreadInv, ProbesRead
<1> QED
  BY <1>6, <1>7, <1>8, <1>9, <1>10 DEF ThreadInv

LEMMA ReplyThreadInv ==
  ASSUME TypeOK, ThreadInv, NEW r \in Requests, Reply(r)
  PROVE  ThreadInv'
<1>1. Moved(r, "done") /\ thread[r].at \in {"ok", "error"}
  BY GoMoves DEF Reply, At, ThreadPlaces
<1>2. UNCHANGED <<lock, sock, executed>>
  BY DEF Reply
<1>3. LockOwned'
  BY <1>1, <1>2 DEF ThreadInv, LockOwned, Locked, Moved
<1>4. AnswerMatches'
  BY <1>1, <1>2 DEF ThreadInv, AnswerMatches, Moved
<1>5. ExecutedOnce'
  BY <1>1, <1>2, RequestsApart DEF ThreadInv, ExecutedOnce, Unexecuted, Moved
<1>6. ASSUME NEW c \in Calls
      PROVE  \/ caller'[c] = caller[c]
             \/ c = r /\ caller'[c].at = thread[c].at /\ caller'[c].value = thread[c].value
  <2>1. CASE UNCHANGED caller
    BY <2>1
  <2>2. CASE caller' = [caller EXCEPT ![r] = [at |-> thread[r].at, value |-> thread[r].value]]
    BY <2>2 DEF TypeOK
  <2> QED
    BY <2>1, <2>2 DEF Reply
<1>7. CallerKnows'
  <2> SUFFICES ASSUME NEW c \in Calls
               PROVE  /\ thread'[c].at = "none" <=> caller'[c].at = "none"
                      /\ caller'[c].at = "ok" => /\ thread'[c].at = "done"
                                                 /\ executed[c].done
                                                 /\ caller'[c].value = executed[c].value
    BY <1>2 DEF CallerKnows
  <2>1. CASE c = r
    BY <1>1, <1>6, <2>1 DEF ThreadInv, CallerKnows, ExecutedOnce, Moved
  <2>2. CASE c # r
    BY <1>1, <1>6, <2>2, RequestsApart DEF ThreadInv, CallerKnows, Moved
  <2> QED
    BY <2>1, <2>2
<1>8. ProbesRead'
  BY <1>1, RequestsApart DEF ThreadInv, ProbesRead, Moved
<1> QED
  BY <1>3, <1>4, <1>5, <1>7, <1>8 DEF ThreadInv

LEMMA NextThreadInv ==
  ASSUME TypeOK, ThreadInv, [Next]_vars
  PROVE  ThreadInv'
<1>1. CASE UNCHANGED <<thread, lock, sock, caller, executed>>
  BY <1>1 DEF ThreadInv, LockOwned, AnswerMatches, ExecutedOnce, CallerKnows, ProbesRead
<1>2. CASE Tick \/ UNCHANGED vars
  BY <1>1, <1>2 DEF Tick, vars
<1> QED
  BY <1>2, CallThreadInv, ClientTimesOutThreadInv, ProbeThreadInv, BeforeFrame,
     ExecuteThreadInv, LeaveThreadInv, ReplyThreadInv DEF Next, Work

-----------------------------------------------------------------------------
(* Types.                                                                  *)

\* The types, with the records named.
LEMMA TypeParts ==
  TypeOK <=> /\ regs \in [Addrs -> Values]
             /\ thread \in [Requests -> Threads]
             /\ lock \in Requests \cup {0}
             /\ busy \in 0 .. SocketTimeout
             /\ sock \in [open : BOOLEAN, answers : Seq(Values)]
             /\ caller \in [Calls -> [at : {"none", "open", "ok", "error"}, value : Values]]
             /\ age \in 0 .. ClientTimeout
             /\ executed \in [Calls -> [done : BOOLEAN, value : Values]]
             /\ failures \in 0 .. MaxFailures
BY DEF TypeOK, Threads, ThreadPlaces

LEMMA CallerType ==
  ASSUME TypeOK, NEW c \in Calls, NEW place \in {"open", "error"},
         caller' = [caller EXCEPT ![c].at = place]
  PROVE  caller' \in [Calls -> [at : {"none", "open", "ok", "error"}, value : Values]]
<1>1. caller \in [Calls -> [at : {"none", "open", "ok", "error"}, value : Values]]
  BY DEF TypeOK
<1>2. caller' = [caller EXCEPT ![c] = [caller[c] EXCEPT !.at = place]]
  OBVIOUS
<1>3. [caller[c] EXCEPT !.at = place] = [at |-> place, value |-> caller[c].value]
  BY <1>1
<1> QED
  BY <1>1, <1>2, <1>3

LEMMA ClientType ==
  ASSUME TypeOK, NEW c \in Calls, Call(c) \/ ClientTimesOut(c)
  PROVE  TypeOK'
<1>1. c \in Requests
  BY RequestsApart
<1>2. age' \in 0 .. ClientTimeout
  BY SidecarAssumption DEF Call, ClientTimesOut
<1>3. caller' \in [Calls -> [at : {"none", "open", "ok", "error"}, value : Values]]
  BY CallerType DEF Call, ClientTimesOut
<1>4. thread' \in [Requests -> Threads]
  <2>1. CASE Call(c)
    <3>1. PICK t \in Threads : thread' = [thread EXCEPT ![c] = t]
      BY <2>1 DEF Call, Threads, ThreadPlaces
    <3> QED
      BY <1>1, <3>1, ReplaceMoves
  <2>2. CASE ClientTimesOut(c)
    BY <2>2, TypeParts DEF ClientTimesOut
  <2> QED
    BY <2>1, <2>2
<1>5. UNCHANGED <<regs, lock, busy, sock, executed, failures>>
  BY DEF Call, ClientTimesOut
<1> QED
  BY <1>2, <1>3, <1>4, <1>5 DEF TypeOK, Threads, ThreadPlaces

LEMMA FailureType ==
  ASSUME TypeOK, failures > 0, failures' = failures - 1
  PROVE  failures' \in 0 .. MaxFailures
BY SidecarAssumption DEF TypeOK

LEMMA TransportType ==
  ASSUME TypeOK, NEW r \in Requests,
         Acquire(r) \/ Connect(r) \/ ConnectFails(r) \/ Send(r) \/ CallFails(r)
  PROVE  TypeOK'
<1>1. thread' \in [Requests -> Threads]
  <2>1. PICK place \in ThreadPlaces : Go(r, place)
    BY DEF Acquire, Connect, ConnectFails, Send, CallFails, ThreadPlaces
  <2> QED
    BY <2>1, GoMoves DEF Moved
<1>2. lock' \in Requests \cup {0} /\ busy' \in 0 .. SocketTimeout
  BY SidecarAssumption DEF Acquire, Connect, ConnectFails, Send, CallFails, TypeOK
<1>3. sock' \in [open : BOOLEAN, answers : Seq(Values)]
  <2>1. /\ [open |-> TRUE, answers |-> <<>>] \in [open : BOOLEAN, answers : Seq(Values)]
        /\ [open |-> FALSE, answers |-> <<>>] \in [open : BOOLEAN, answers : Seq(Values)]
    OBVIOUS
  <2>2. \/ sock' = sock
        \/ sock' = [open |-> TRUE, answers |-> <<>>]
        \/ sock' = [open |-> FALSE, answers |-> <<>>]
    BY DEF Acquire, Connect, ConnectFails, Send, CallFails, Disconnect
  <2> QED
    BY <2>1, <2>2 DEF TypeOK
<1>4. failures' \in 0 .. MaxFailures
  BY FailureType DEF Acquire, Connect, ConnectFails, Send, CallFails, TypeOK
<1>5. UNCHANGED <<regs, caller, age, executed>>
  BY DEF Acquire, Connect, ConnectFails, Send, CallFails
<1> QED
  BY <1>1, <1>2, <1>3, <1>4, <1>5 DEF TypeOK, Threads, ThreadPlaces

LEMMA ExecuteType ==
  ASSUME TypeOK, ThreadInv, NEW r \in Requests, Execute(r)
  PROVE  TypeOK'
<1>1. thread' \in [Requests -> Threads]
  BY ExecuteShape DEF Moved
<1>2. answerTo(r) \in Values
  BY ExecuteShape
<1>3. executed' \in [Calls -> [done : BOOLEAN, value : Values]]
  <2>1. [done |-> TRUE, value |-> answerTo(r)] \in [done : BOOLEAN, value : Values]
    BY <1>2
  <2>2. executed \in [Calls -> [done : BOOLEAN, value : Values]]
    BY DEF TypeOK
  <2>3. executed' = [c \in Calls |-> IF c = r THEN [done |-> TRUE, value |-> answerTo(r)]
                                     ELSE executed[c]]
    BY ExecuteShape
  <2> QED
    BY <2>1, <2>2, <2>3
<1>4. sock' \in [open : BOOLEAN, answers : Seq(Values)]
  <2>1. <<answerTo(r)>> \in Seq(Values) /\ sock.open \in BOOLEAN
    BY <1>2 DEF TypeOK
  <2>2. sock' = [open |-> sock.open, answers |-> <<answerTo(r)>>]
    BY ExecuteShape
  <2> QED
    BY <2>1, <2>2
<1>5. regs' \in [Addrs -> Values]
  BY ExecuteShape DEF TypeOK
<1>6. UNCHANGED <<lock, busy, caller, age, failures>>
  BY DEF Execute
<1> QED
  BY <1>1, <1>3, <1>4, <1>5, <1>6 DEF TypeOK, Threads, ThreadPlaces

LEMMA ReceiveType ==
  ASSUME TypeOK, ThreadInv, NEW r \in Requests, Receive(r)
  PROVE  TypeOK'
<1>1. thread' \in [Requests -> Threads] /\ sock' \in [open : BOOLEAN, answers : Seq(Values)]
  BY ReceiveMoves DEF Moved
<1>2. lock' = 0 /\ UNCHANGED <<regs, busy, caller, age, executed, failures>>
  BY DEF Receive
<1> QED
  BY <1>1, <1>2 DEF TypeOK, Threads, ThreadPlaces

LEMMA ReplyType ==
  ASSUME TypeOK, NEW r \in Requests, Reply(r)
  PROVE  TypeOK'
<1>1. thread' \in [Requests -> Threads]
  BY GoMoves DEF Reply, ThreadPlaces, Moved
<1>2. [at |-> thread[r].at, value |-> thread[r].value]
        \in [at : {"none", "open", "ok", "error"}, value : Values]
  BY DEF Reply, At, TypeOK
<1>3. caller' \in [Calls -> [at : {"none", "open", "ok", "error"}, value : Values]]
  <2>1. caller \in [Calls -> [at : {"none", "open", "ok", "error"}, value : Values]]
    BY DEF TypeOK
  <2>2. \/ caller' = caller
        \/ caller' = [caller EXCEPT ![r] = [at |-> thread[r].at, value |-> thread[r].value]]
    BY DEF Reply
  <2> QED
    BY <1>2, <2>1, <2>2
<1>4. age' \in 0 .. ClientTimeout
  BY SidecarAssumption DEF Reply, TypeOK
<1>5. UNCHANGED <<regs, lock, busy, sock, executed, failures>>
  BY DEF Reply
<1> QED
  BY <1>1, <1>3, <1>4, <1>5 DEF TypeOK, Threads, ThreadPlaces

LEMMA NextType ==
  ASSUME TypeOK, ThreadInv, [Next]_vars
  PROVE  TypeOK'
<1>1. ASSUME NEW p \in Probes, Probe(p) PROVE TypeOK'
  <2>1. thread' \in [Requests -> Threads]
    BY <1>1, GoMoves, RequestsApart DEF Probe, Moved, ThreadPlaces
  <2> QED
    BY <1>1, <2>1 DEF Probe, TypeOK, Threads, ThreadPlaces
<1>2. CASE Tick
  <2>1. age' \in 0 .. ClientTimeout /\ busy' \in 0 .. SocketTimeout
    BY <1>2, SidecarAssumption DEF Tick, clientPatient, socketPatient, TypeOK
  <2> QED
    BY <1>2, <2>1 DEF Tick, TypeOK
<1>3. CASE UNCHANGED vars
  BY <1>3 DEF vars, TypeOK
<1> QED
  BY <1>1, <1>2, <1>3, ClientType, TransportType, ExecuteType, ReceiveType, ReplyType
  DEF Next, Work

LEMMA Inductive == Spec => []IInv
<1>1. Init => IInv
  <2>1. Init => TypeOK
    <3>1. Nothing \in Threads
      BY SidecarAssumption DEF Nothing, ProbeAddr, Threads, ThreadPlaces
    <3>2. Init => /\ regs \in [Addrs -> Values]
                  /\ thread \in [Requests -> Threads]
                  /\ caller \in [Calls -> [at : {"none", "open", "ok", "error"}, value : Values]]
                  /\ executed \in [Calls -> [done : BOOLEAN, value : Values]]
      BY <3>1, SidecarAssumption DEF Init, NoAnswer
    <3>3. Init => /\ lock \in Requests \cup {0}
                  /\ busy \in 0 .. SocketTimeout
                  /\ age \in 0 .. ClientTimeout
                  /\ failures \in 0 .. MaxFailures
      BY SidecarAssumption DEF Init
    <3>4. Init => sock \in [open : BOOLEAN, answers : Seq(Values)]
      BY DEF Init
    <3> QED
      BY <3>2, <3>3, <3>4 DEF TypeOK, Threads, ThreadPlaces
  <2>2. Init => ThreadInv
    BY RequestsApart DEF Init, Nothing, NoAnswer, ThreadInv, LockOwned, AnswerMatches,
       ExecutedOnce, CallerKnows, ProbesRead, Locked, Unexecuted
  <2> QED
    BY <2>1, <2>2 DEF IInv
<1>2. IInv /\ [Next]_vars => IInv'
  BY NextType, NextThreadInv DEF IInv
<1> QED
  BY <1>1, <1>2, PTL DEF Spec

-----------------------------------------------------------------------------
(* The theorems.                                                           *)

\* Every variable keeps its type: the client and the socket never wait longer
\* than their timeouts.
THEOREM TypeCorrect == Spec => []TypeOK
<1>1. IInv => TypeOK
  BY DEF IInv
<1> QED
  BY <1>1, Inductive, PTL

-----------------------------------------------------------------------------
(* The refinement.                                                         *)

Ops == [c \in Calls |-> Seen(c)]

\* A call is seen as before when neither its caller nor its effect changes.
LEMMA SeenKept ==
  ASSUME NEW c \in Calls,
         thread'[c].kind = thread[c].kind, thread'[c].addr = thread[c].addr,
         thread'[c].value = thread[c].value \/ executed[c].done,
         UNCHANGED executed[c], UNCHANGED caller[c]
  PROVE  Seen(c)' = Seen(c)
BY DEF Seen

LEMMA OpsKept ==
  ASSUME \A c \in Calls : Seen(c)' = Seen(c)
  PROVE  Ops' = Ops
BY DEF Ops

LEMMA OpsReplaced ==
  ASSUME NEW c \in Calls, \A d \in Calls : d # c => Seen(d)' = Seen(d)
  PROVE  Ops' = [Ops EXCEPT ![c] = Seen(c)']
BY DEF Ops

LEMMA InitRefines == Init => Abstract!Init
<1> SUFFICES ASSUME Init PROVE Abstract!Init
  OBVIOUS
<1>1. \A c \in Calls : Seen(c) = Abstract!NoCall
  BY RequestsApart DEF Init, Seen, Nothing, NoAnswer, ProbeAddr, Abstract!NoCall
<1>2. [c \in Calls |-> Seen(c)] = [c \in Calls |-> Abstract!NoCall]
  BY <1>1
<1> QED
  BY <1>2 DEF Abstract!Init, Init

LEMMA CallRefines ==
  ASSUME IInv, NEW c \in Calls, Call(c)
  PROVE  Abstract!Invoke(c)
<1>1. PICK k \in {"read", "write"}, a \in Addrs, v \in Values :
        /\ k = "read" => v = InitialValue
        /\ thread' = [thread EXCEPT ![c] = [kind |-> k, addr |-> a, value |-> v, at |-> "queued"]]
  BY DEF Call
<1>2. \A d \in Calls : d # c => thread'[d] = thread[d] /\ caller'[d] = caller[d]
  BY <1>1, RequestsApart DEF Call, IInv, TypeOK
<1>3. thread'[c] = [kind |-> k, addr |-> a, value |-> v, at |-> "queued"]
  BY <1>1, RequestsApart DEF IInv, TypeOK
<1>4. caller'[c].at = "open"
  BY DEF Call, IInv, TypeOK
<1>5. ~executed[c].done /\ UNCHANGED <<executed, regs>> /\ caller[c].at = "none"
  BY DEF Call, IInv, ThreadInv, CallerKnows, ExecutedOnce, Unexecuted
<1>6. executed[c].done = FALSE
  BY <1>5 DEF IInv, TypeOK
<1>7. Seen(c)' = [kind |-> k, addr |-> a, value |-> v, at |-> "open", done |-> FALSE]
  <2>1. thread'[c].kind = k /\ thread'[c].addr = a /\ thread'[c].value = v
    BY <1>3
  <2>2. executed'[c].done = FALSE
    BY <1>5, <1>6
  <2>3. (IF caller'[c].at = "ok" THEN caller'[c].value
         ELSE IF executed'[c].done THEN executed'[c].value ELSE thread'[c].value) = v
    BY <1>4, <2>1, <2>2
  <2> QED
    BY <1>4, <2>1, <2>2, <2>3, Zenon DEF Seen
<1>8. Ops' = [Ops EXCEPT ![c] = [kind |-> k, addr |-> a, value |-> v, at |-> "open",
                                 done |-> FALSE]]
  BY <1>2, <1>5, <1>7, SeenKept, OpsReplaced
<1>9. Ops[c].at = "none"
  BY <1>5 DEF Ops, Seen
<1> QED
  BY <1>1, <1>5, <1>8, <1>9 DEF Abstract!Invoke, Abstract!Kinds, Ops

\* The manager's side of a call returns: its request and its effect are seen as
\* before.
LEMMA ReturnSeen ==
  ASSUME IInv, NEW c \in Calls, NEW place \in {"ok", "error"},
         UNCHANGED executed,
         \A d \in Calls : /\ thread'[d].kind = thread[d].kind
                          /\ thread'[d].addr = thread[d].addr
                          /\ thread'[d].value = thread[d].value
                          /\ d # c => caller'[d] = caller[d],
         caller[c].at = "open", caller'[c].at = place,
         place = "ok" => executed[c].done /\ caller'[c].value = executed[c].value
  PROVE  Ops' = [Ops EXCEPT ![c].at = place]
<1>1. \A d \in Calls : d # c => Seen(d)' = Seen(d)
  BY SeenKept
<1>2. (IF caller'[c].at = "ok" THEN caller'[c].value
       ELSE IF executed'[c].done THEN executed'[c].value ELSE thread'[c].value)
      = (IF caller[c].at = "ok" THEN caller[c].value
         ELSE IF executed[c].done THEN executed[c].value ELSE thread[c].value)
  OBVIOUS
<1>3. Seen(c)' = [kind  |-> thread[c].kind,
                  addr  |-> thread[c].addr,
                  value |-> IF caller[c].at = "ok" THEN caller[c].value
                            ELSE IF executed[c].done THEN executed[c].value
                            ELSE thread[c].value,
                  at    |-> place,
                  done  |-> executed[c].done]
  BY <1>2 DEF Seen
<1>4. [Seen(c) EXCEPT !.at = place] = Seen(c)'
  BY <1>3 DEF Seen
<1>5. Ops[c] = Seen(c)
  BY DEF Ops
<1>6. Ops' = [Ops EXCEPT ![c] = [Ops[c] EXCEPT !.at = place]]
  BY <1>1, <1>4, <1>5, OpsReplaced
<1> QED
  BY <1>6

LEMMA ClientTimesOutRefines ==
  ASSUME IInv, NEW c \in Calls, ClientTimesOut(c)
  PROVE  Abstract!ReturnError(c)
<1>1. /\ \A d \in Calls : d # c => caller'[d] = caller[d]
      /\ caller[c].at = "open" /\ caller'[c].at = "error"
      /\ UNCHANGED <<thread, executed, regs>>
  BY DEF ClientTimesOut, IInv, TypeOK
<1>2. Ops' = [Ops EXCEPT ![c].at = "error"]
  BY <1>1, ReturnSeen
<1>3. Ops[c].at = "open"
  BY <1>1 DEF Ops, Seen
<1> QED
  BY <1>1, <1>2, <1>3 DEF Abstract!ReturnError, Ops

\* The answer reaches the manager while its call is open: a result, of a frame that
\* was carried out, or an error.
LEMMA ReplyRefines ==
  ASSUME IInv, NEW c \in Calls, Reply(c), caller[c].at = "open"
  PROVE  Abstract!Return(c) \/ Abstract!ReturnError(c)
<1>1. c \in Requests
  BY RequestsApart
<1>2. Moved(c, "done") /\ thread'[c].value = thread[c].value /\ thread[c].at \in {"ok", "error"}
  BY <1>1, GoMoves DEF Reply, IInv, At, ThreadPlaces
<1>3. caller' = [caller EXCEPT ![c] = [at |-> thread[c].at, value |-> thread[c].value]]
  BY DEF Reply
<1>4. /\ \A d \in Calls : d # c => caller'[d] = caller[d]
      /\ caller'[c].at = thread[c].at /\ caller'[c].value = thread[c].value
  BY <1>3 DEF IInv, TypeOK
<1>5. UNCHANGED <<executed, regs>>
  BY DEF Reply
<1>6. thread[c].at = "ok" => executed[c].done /\ thread[c].value = executed[c].value
  BY DEF IInv, ThreadInv, ExecutedOnce
<1>7. \A d \in Calls : /\ thread'[d].kind = thread[d].kind
                       /\ thread'[d].addr = thread[d].addr
                       /\ thread'[d].value = thread[d].value
  BY <1>2, RequestsApart DEF Moved
<1>8. Ops' = [Ops EXCEPT ![c].at = thread[c].at]
  BY <1>2, <1>4, <1>5, <1>6, <1>7, ReturnSeen
<1>9. Ops[c].at = "open" /\ Ops[c].done = executed[c].done
  BY DEF Ops, Seen
<1>10. CASE thread[c].at = "ok"
  BY <1>5, <1>6, <1>8, <1>9, <1>10 DEF Abstract!Return, Ops
<1>11. CASE thread[c].at = "error"
  BY <1>5, <1>8, <1>9, <1>11 DEF Abstract!ReturnError, Ops
<1> QED
  BY <1>2, <1>10, <1>11

\* A call as Registers records it, and the updates of Effect.
callRecord(k, a, v, p, d) == [kind |-> k, addr |-> a, value |-> v, at |-> p, done |-> d]

LEMMA DoneUpdate ==
  ASSUME NEW k, NEW a, NEW v, NEW p, NEW d, NEW b
  PROVE  [callRecord(k, a, v, p, d) EXCEPT !.done = b] = callRecord(k, a, v, p, b)
BY DEF callRecord

LEMMA ValueUpdate ==
  ASSUME NEW k, NEW a, NEW v, NEW p, NEW d, NEW w
  PROVE  [callRecord(k, a, v, p, d) EXCEPT !.value = w] = callRecord(k, a, w, p, d)
BY DEF callRecord

\* The frame of a call is carried out, once, whether its caller still waits or not.
LEMMA ExecuteRefines ==
  ASSUME IInv, NEW c \in Calls, Execute(c)
  PROVE  Abstract!Effect(c)
<1>1. c \in Requests
  BY RequestsApart
<1>2. /\ Moved(c, "await") /\ thread'[c].value = thread[c].value
      /\ executed' = [d \in Calls |-> IF d = c THEN [done |-> TRUE, value |-> answerTo(c)]
                                      ELSE executed[d]]
      /\ regs' = IF thread[c].kind = "write"
                 THEN [regs EXCEPT ![thread[c].addr] = thread[c].value] ELSE regs
  BY <1>1, ExecuteShape DEF IInv
<1>3. thread[c].at = "sent" /\ UNCHANGED caller
  BY DEF Execute, At
<1>4. /\ ~executed[c].done /\ caller[c].at \in {"open", "error"}
  BY <1>3 DEF IInv, ThreadInv, ExecutedOnce, CallerKnows, Unexecuted, TypeOK
<1>5. \A d \in Calls : d # c => Seen(d)' = Seen(d)
  <2>1. \A d \in Calls : d # c => thread'[d] = thread[d] /\ executed'[d] = executed[d]
    BY <1>2, RequestsApart DEF Moved
  <2> QED
    BY <1>3, <2>1, SeenKept
<1>6. thread[c].kind \in {"read", "write"}
  BY <1>1 DEF IInv, TypeOK
<1>7. /\ Ops[c].kind = thread[c].kind /\ Ops[c].addr = thread[c].addr
      /\ Ops[c].value = thread[c].value /\ Ops[c].at = caller[c].at
      /\ ~Ops[c].done
  BY <1>4 DEF Ops, Seen
<1> DEFINE yes == executed'[c].done
<1>8. yes = TRUE /\ executed'[c].value = answerTo(c)
  BY <1>2
<1>9. Seen(c)' = callRecord(thread[c].kind, thread[c].addr, answerTo(c), caller[c].at, yes)
  <2>1. (IF caller'[c].at = "ok" THEN caller'[c].value
         ELSE IF executed'[c].done THEN executed'[c].value ELSE thread'[c].value) = answerTo(c)
    BY <1>3, <1>4, <1>8
  <2> QED
    BY <1>2, <1>3, <2>1, Zenon DEF Seen, Moved, callRecord
<1> HIDE DEF yes
<1> DEFINE o == Seen(c)
<1>10. o = callRecord(thread[c].kind, thread[c].addr, thread[c].value, caller[c].at,
                     executed[c].done)
  BY <1>4 DEF Seen, callRecord
<1>11. Ops[c] = o
  BY DEF Ops
<1>12. CASE thread[c].kind = "read"
  <2>1. answerTo(c) = regs[Ops[c].addr]
    BY <1>7, <1>12 DEF answerTo
  <2>2. [[o EXCEPT !.done = yes] EXCEPT !.value = regs[Ops[c].addr]] = Seen(c)'
    <3> HIDE DEF o
    <3> DEFINE u == [o EXCEPT !.done = yes]
    <3>1. u = callRecord(thread[c].kind, thread[c].addr, thread[c].value, caller[c].at, yes)
      BY <1>10, DoneUpdate
    <3> HIDE DEF u
    <3>2. [u EXCEPT !.value = regs[Ops[c].addr]] = Seen(c)'
      BY <1>9, <2>1, <3>1, ValueUpdate
    <3> QED
      BY <3>2 DEF u
  <2>3. Ops' = [Ops EXCEPT ![c] = [[Ops[c] EXCEPT !.done = yes] EXCEPT !.value = regs[Ops[c].addr]]]
    BY <1>5, <1>11, <2>2, OpsReplaced
  <2>4. Ops' = [Ops EXCEPT ![c].done = yes, ![c].value = regs[Ops[c].addr]]
    BY <2>3 DEF Ops
  <2>5. Ops' = [Ops EXCEPT ![c].done = TRUE, ![c].value = regs[Ops[c].addr]]
    BY <1>8, <2>4, Zenon
  <2> QED
    BY <1>2, <1>4, <1>7, <1>12, <2>5 DEF Abstract!Effect, Ops
<1>13. CASE thread[c].kind = "write"
  <2>1. answerTo(c) = thread[c].value
    BY <1>13 DEF answerTo
  <2>2. [o EXCEPT !.done = yes] = Seen(c)'
    <3> HIDE DEF o
    <3> QED
      BY <1>10, <1>9, <2>1, DoneUpdate
  <2>3. Ops' = [Ops EXCEPT ![c].done = yes]
    BY <1>5, <1>11, <2>2, OpsReplaced
  <2>4. Ops' = [Ops EXCEPT ![c].done = TRUE]
    BY <1>8, <2>3, Zenon
  <2> QED
    BY <1>2, <1>4, <1>7, <1>13, <2>4 DEF Abstract!Effect, Ops
<1> QED
  BY <1>6, <1>12, <1>13

\* The steps inside the pod, and those of the probes, are not seen.
LEMMA UnseenSteps ==
  ASSUME IInv, NEW r \in Requests,
         \/ Acquire(r) \/ Connect(r) \/ ConnectFails(r) \/ Send(r) \/ CallFails(r)
         \/ Receive(r)
         \/ Reply(r) /\ ~(r \in Calls /\ caller[r].at = "open")
         \/ Execute(r) /\ r \in Probes
         \/ Probe(r)
  PROVE  UNCHANGED <<regs, Ops>>
<1>1. PICK place \in ThreadPlaces : Moved(r, place)
  <2>1. CASE Receive(r)
    BY <2>1, ReceiveMoves DEF IInv, ThreadPlaces
  <2>2. CASE ~Receive(r)
    <3>1. PICK place \in ThreadPlaces : Go(r, place)
      BY <2>2 DEF Acquire, Connect, ConnectFails, Send, CallFails, Reply, Execute, Probe,
                  ThreadPlaces
    <3> QED
      BY <3>1, GoMoves DEF IInv
  <2> QED
    BY <2>1, <2>2
<1>2. r \in Calls => thread'[r].value = thread[r].value \/ executed[r].done
  <2>1. CASE Receive(r)
    BY <2>1 DEF Receive, At, IInv, ThreadInv, ExecutedOnce
  <2>2. CASE ~Receive(r)
    <3>1. PICK place2 \in ThreadPlaces : Go(r, place2)
      BY <2>2 DEF Acquire, Connect, ConnectFails, Send, CallFails, Reply, Execute, Probe,
                  ThreadPlaces
    <3> QED
      BY <3>1, GoMoves DEF IInv
  <2> QED
    BY <2>1, <2>2
<1>3. UNCHANGED <<regs, caller, executed>>
  <2>1. CASE Execute(r) /\ r \in Probes
    <3>1. thread[r].kind = "read" /\ r \notin Calls
      BY <2>1, RequestsApart DEF IInv, ThreadInv, ProbesRead
    <3>2. regs' = regs
      BY <2>1, <3>1 DEF Execute
    <3>3. executed' = [c \in Calls |-> executed[c]]
      BY <2>1, <3>1, ExecuteShape DEF IInv
    <3>4. executed' = executed
      BY <3>3 DEF IInv, TypeOK
    <3> QED
      BY <2>1, <3>2, <3>4 DEF Execute
  <2> QED
    BY <2>1 DEF Acquire, Connect, ConnectFails, Send, CallFails, Receive, Reply, Probe
<1>4. \A c \in Calls : Seen(c)' = Seen(c)
  BY <1>1, <1>2, <1>3, SeenKept, RequestsApart DEF Moved
<1> QED
  BY <1>3, <1>4, OpsKept

LEMMA NextRefines ==
  ASSUME IInv, [Next]_vars
  PROVE  [Abstract!Next]_<<regs, Ops>>
<1>1. CASE Tick \/ UNCHANGED vars
  <2>1. UNCHANGED <<regs, thread, caller, executed>>
    BY <1>1 DEF Tick, vars
  <2>2. \A c \in Calls : Seen(c)' = Seen(c)
    BY <2>1, SeenKept
  <2> QED
    BY <2>1, <2>2, OpsKept
<1>2. ASSUME NEW c \in Calls, Call(c) \/ ClientTimesOut(c)
      PROVE  Abstract!Next
  BY <1>2, CallRefines, ClientTimesOutRefines DEF Abstract!Next
<1>3. ASSUME NEW p \in Probes, Probe(p)
      PROVE  UNCHANGED <<regs, Ops>>
  BY <1>3, UnseenSteps, RequestsApart
<1>4. ASSUME NEW r \in Requests, Work(r)
      PROVE  Abstract!Next \/ UNCHANGED <<regs, Ops>>
  <2>1. CASE Execute(r)
    <3>1. CASE r \in Calls
      BY <2>1, <3>1, ExecuteRefines DEF Abstract!Next
    <3>2. CASE r \in Probes
      BY <2>1, <3>2, UnseenSteps
    <3> QED
      BY <3>1, <3>2 DEF Requests
  <2>2. CASE Reply(r)
    <3>1. CASE r \in Calls /\ caller[r].at = "open"
      BY <2>2, <3>1, ReplyRefines DEF Abstract!Next
    <3>2. CASE ~(r \in Calls /\ caller[r].at = "open")
      BY <2>2, <3>2, UnseenSteps
    <3> QED
      BY <3>1, <3>2
  <2> QED
    BY <1>4, <2>1, <2>2, UnseenSteps DEF Work
<1> QED
  BY <1>1, <1>2, <1>3, <1>4 DEF Next

\* transport._lock and the disconnect after every failure (transport.py), under
\* the callers of sidecarclient that give up: no call takes effect twice, none
\* succeeds without its effect, and none is given the answer of another.
THEOREM RefinesRegisters == Spec => ImplementsRegisters
<1>1. IInv /\ [Next]_vars => [Abstract!Next]_<<regs, [c \in Calls |-> Seen(c)]>>
  BY NextRefines DEF Ops
<1> QED
  BY <1>1, InitRefines, Inductive, PTL DEF Spec, ImplementsRegisters, Abstract!Spec
=============================================================================
