---------------------------- MODULE StackProofs -----------------------------
(* The invariant of a host's supervisors and the queues they read: every step of *)
(* Stack keeps it.  What follows from it, and that Stack implements PeerPresence. *)
EXTENDS Stack, TLAPS

Requests ==
    [op : {"attach"}, conn : Conns] \union [op : {"gone"}, conn : Conns]
    \union [op : {"handles"}] \union [op : {"close"}] \union [op : {"leave"}, by : Leavers]

Attach(c) == [op |-> "attach", conn |-> c]

Leave(d) == [op |-> "leave", by |-> d]

\* The requests that are made once: a view's hand-over and a Disconnect.
Tracked == {r \in Requests : r.op \in {"attach", "leave"}}

Held(q) == {r \in Tracked : \E i \in DOMAIN q : q[i] = r}

Once(q) == \A i, j \in DOMAIN q : q[i] = q[j] /\ q[i] \in Tracked => i = j

Queue == {q \in Seq(Requests) : Once(q)}

SupervisorType ==
    /\ alive \in [Nodes -> BOOLEAN]
    /\ wake \in [Nodes -> BOOLEAN]
    /\ inbox \in [Nodes -> Queue]
    /\ reqs \in [Nodes -> Queue]
    /\ step \in [Nodes -> {"select", "drain", "exit"}]
    /\ conn \in [Nodes -> Conns \union {None}]
    /\ adm \in [Nodes -> Conns \union {None}]
    /\ owned \in [Nodes -> SUBSET Conns]
    /\ handles \in [Nodes -> SUBSET (Conns \X Families)]
    /\ stage \in [Nodes -> {"open", "cancelled", "signalled", "closed"}]
    /\ raw \in [Conns -> {"none", "up", "down"}]
    /\ phase \in [Nodes -> [Conns -> {"none", "queued", "greeting", "boxed", "live", "over"}]]
    /\ reader \in [Nodes -> [Conns -> {"none", "run", "ended"}]]
    /\ leaver \in [Leavers -> {"idle", "wait", "returned"}]

\* Where the supervisor is decides what it holds.
Loop(n) ==
    /\ step[n] # "drain" => reqs[n] = <<>>
    /\ step[n] = "drain" => alive[n] /\ reqs[n] # <<>>
    /\ step[n] = "exit" => alive[n] /\ conn[n] = None
    /\ adm[n] # None => step[n] = "drain" /\ conn[n] = None /\ reqs[n][1] = Attach(adm[n])

\* Without a supervisor there is nothing of it, and none after Close.
Absent(n) ==
    /\ ~alive[n] => conn[n] = None /\ owned[n] = {} /\ inbox[n] = <<>>
    /\ stage[n] = "closed" => ~alive[n]

\* A request in the inbox comes with a wake, or with a Close that will give one.
Woken(n) == inbox[n] # <<>> => wake[n] \/ stage[n] = "cancelled"

\* The views in the queues are those handed over and not yet decided about.
Waits(n) == Held(inbox[n]) \union Held(reqs[n])

Boxed(n) ==
    /\ \A x \in Held(inbox[n]) : x \notin Held(reqs[n])
    /\ \A d \in Leavers : Leave(d) \in Waits(n) => leaver[d] # "idle"
    /\ \A c \in Conns : phase[n][c] = "boxed" <=> Attach(c) \in Waits(n)
    /\ \A c \in Conns : phase[n][c] = "live" <=> c = conn[n]

\* A view has been read from once it was installed, and not before.
Unread(n) ==
    /\ \A c \in Conns : phase[n][c] \in {"none", "queued", "greeting", "boxed"} => reader[n][c] = "none"
    /\ \A c \in Conns : raw[c] = "none" => phase[n][c] = "none"

\* Handles are the current view's.
Handled(n) == \A h \in handles[n] : h[1] = conn[n]

NodeInv(n) == Loop(n) /\ Absent(n) /\ Woken(n) /\ Boxed(n) /\ Unread(n) /\ Handled(n)

\* The inductive invariant.
StackInv == SupervisorType /\ \A n \in Nodes : NodeInv(n)

\* What it says of a node.
Mine(n) == <<alive[n], wake[n], inbox[n], reqs[n], step[n], conn[n], adm[n], owned[n],
             handles[n], stage[n], phase[n]>>

\* A connection that was dialed stays dialed, a Disconnect that was called stays
\* called, and a view is not read from before it is installed.
RawKept == \A c \in Conns : raw'[c] = "none" => raw[c] = "none"

LeaverKept ==
    /\ leaver' \in [Leavers -> {"idle", "wait", "returned"}]
    /\ \A d \in Leavers : leaver'[d] = "idle" => leaver[d] = "idle"

UnreadKept(n) == \A c \in Conns : reader[n][c] = "none" => reader'[n][c] = "none"

-----------------------------------------------------------------------------
(* Queues of requests. *)

LEMMA QueueEmpty == <<>> \in Queue /\ Held(<<>>) = {}
BY DEF Queue, Once, Held

LEMMA QueueAppend ==
    ASSUME NEW q \in Queue, NEW r \in Requests, r \notin Held(q)
    PROVE  /\ Append(q, r) \in Queue
           /\ Append(q, r) # <<>>
           /\ \A x \in Tracked : x \in Held(Append(q, r)) <=> x \in Held(q) \/ x = r
<1> DEFINE p == Append(q, r)
<1>1. q \in Seq(Requests) /\ Len(q) \in Nat /\ DOMAIN q = 1..Len(q)
  BY DEF Queue
<1>2. /\ p \in Seq(Requests) /\ p # <<>>
      /\ DOMAIN p = 1..(Len(q) + 1)
      /\ \A i \in 1..Len(q) : p[i] = q[i]
      /\ p[Len(q) + 1] = r
  BY <1>1
<1> HIDE DEF p
<1>3. Once(p)
  <2> SUFFICES ASSUME NEW i \in DOMAIN p, NEW j \in DOMAIN p, p[i] = p[j],
                      p[i] \in Tracked
               PROVE  i = j
    BY Zenon DEF Once
  <2>1. CASE i \in 1..Len(q) /\ j \in 1..Len(q)
    <3>1. Once(q)
      BY Zenon DEF Queue
    <3> QED
      BY Zenon, <2>1, <3>1, <1>1, <1>2 DEF Once
  <2>2. CASE i = Len(q) + 1 /\ j \in 1..Len(q)
    BY Zenon, <2>2, <1>1, <1>2 DEF Held
  <2>3. CASE j = Len(q) + 1 /\ i \in 1..Len(q)
    BY Zenon, <2>3, <1>1, <1>2 DEF Held
  <2>4. CASE i = Len(q) + 1 /\ j = Len(q) + 1
    BY Zenon, <2>4
  <2> QED
    BY <2>1, <2>2, <2>3, <2>4, <1>1, <1>2
<1>4. ASSUME NEW x \in Tracked
      PROVE  x \in Held(p) <=> x \in Held(q) \/ x = r
  <2>1. ASSUME NEW i \in DOMAIN p, p[i] = x
        PROVE  x \in Held(q) \/ x = r
    BY <2>1, <1>1, <1>2 DEF Held
  <2>2. ASSUME NEW i \in DOMAIN q, q[i] = x
        PROVE  x \in Held(p)
    BY <2>2, <1>1, <1>2 DEF Held
  <2>3. ASSUME x = r
        PROVE  x \in Held(p)
    <3>1. Len(q) + 1 \in DOMAIN p
      BY <1>1, <1>2
    <3> QED
      BY Zenon, <2>3, <3>1, <1>2 DEF Held
  <2> QED
    BY Zenon, <2>1, <2>2, <2>3 DEF Held
<1> QED
  BY Zenon, <1>2, <1>3, <1>4 DEF Queue, p

LEMMA QueueTail ==
    ASSUME NEW q \in Queue, q # <<>>
    PROVE  /\ Tail(q) \in Queue
           /\ q[1] \in Requests
           /\ Len(q) > 1 <=> Tail(q) # <<>>
           /\ \A x \in Tracked : /\ x \in Held(Tail(q)) <=> x \in Held(q) /\ q[1] # x
                                 /\ q[1] = x => x \in Held(q)
<1> DEFINE t == Tail(q)
<1>1. q \in Seq(Requests) /\ Len(q) \in Nat /\ Len(q) > 0 /\ DOMAIN q = 1..Len(q) /\ Once(q)
  BY DEF Queue
<1>2. /\ t \in Seq(Requests)
      /\ Len(t) = Len(q) - 1
      /\ DOMAIN t = 1..(Len(q) - 1)
      /\ \A i \in 1..(Len(q) - 1) : t[i] = q[i + 1]
  BY <1>1
<1> HIDE DEF t
<1>3. Len(q) > 1 <=> t # <<>>
  <2>1. t = <<>> <=> Len(t) = 0
    BY <1>2
  <2> QED
    BY <2>1, <1>1, <1>2
<1>4. Once(t)
  <2> SUFFICES ASSUME NEW i \in DOMAIN t, NEW j \in DOMAIN t, t[i] = t[j],
                      t[i] \in Tracked
               PROVE  i = j
    BY Zenon DEF Once
  <2>1. i + 1 \in DOMAIN q /\ j + 1 \in DOMAIN q /\ q[i + 1] = t[i] /\ q[j + 1] = t[j]
    BY <1>1, <1>2
  <2>2. i + 1 = j + 1
    BY Zenon, <1>1, <2>1 DEF Once
  <2> QED
    BY <2>2, <1>1, <1>2
<1>5. 1 \in DOMAIN q /\ q[1] \in Requests
  BY <1>1
<1>6. ASSUME NEW x \in Tracked
      PROVE  /\ x \in Held(t) <=> x \in Held(q) /\ q[1] # x
             /\ q[1] = x => x \in Held(q)
  <2>1. ASSUME NEW i \in DOMAIN t, t[i] = x
        PROVE  x \in Held(q) /\ q[1] # x
    <3>1. i + 1 \in DOMAIN q /\ q[i + 1] = x /\ i + 1 # 1
      BY <1>1, <1>2, <2>1
    <3>2. q[1] # x
      BY Zenon, <1>1, <1>5, <3>1 DEF Once
    <3> QED
      BY Zenon, <3>1, <3>2 DEF Held
  <2>2. ASSUME NEW i \in DOMAIN q, q[i] = x, q[1] # x
        PROVE  x \in Held(t)
    <3>1. i - 1 \in DOMAIN t /\ t[i - 1] = x
      BY <1>1, <1>2, <2>2
    <3> QED
      BY Zenon, <3>1 DEF Held
  <2> QED
    BY Zenon, <1>5, <2>1, <2>2 DEF Held
<1> QED
  BY Zenon, <1>2, <1>3, <1>4, <1>5, <1>6 DEF Queue, t

-----------------------------------------------------------------------------
(* The invariant. *)

LEMMA Marks ==
    /\ \A c \in Conns : Attach(c) \in Tracked
    /\ \A d \in Leavers : Leave(d) \in Tracked
    /\ \A b, c \in Conns : Attach(b) = Attach(c) => b = c
    /\ \A d, e \in Leavers : Leave(d) = Leave(e) => d = e
    /\ \A c \in Conns, d \in Leavers : Attach(c) # Leave(d)
    /\ \A c \in Conns : Attach(c).op = "attach" /\ Attach(c).conn = c
    /\ \A d \in Leavers : Leave(d).op = "leave" /\ Leave(d).by = d
BY Zenon DEF Attach, Leave, Tracked, Requests

LEMMA Shapes ==
    /\ \A r \in Requests : r.op = "attach" => r.conn \in Conns /\ r = Attach(r.conn)
    /\ \A r \in Requests : r.op = "leave" => r.by \in Leavers /\ r = Leave(r.by)
BY DEF Attach, Leave, Requests

LEMMA NoneFresh == None \notin Conns /\ None \notin Nodes /\ None \notin Callers /\ None \notin Leavers
BY Zenon, StackAssumption

\* What the phases of a node's views say.
LEMMA Phases ==
    ASSUME StackInv, NEW n \in Nodes
    PROVE  /\ \A d \in Leavers : Leave(d) \in Waits(n) => leaver[d] # "idle"
           /\ \A c \in Conns : phase[n][c] = "boxed" <=> Attach(c) \in Waits(n)
           /\ \A c \in Conns : phase[n][c] = "live" <=> c = conn[n]
BY Zenon DEF StackInv, NodeInv, Boxed

LEMMA Untouched ==
    ASSUME NEW n \in Nodes, NodeInv(n), Mine(n)' = Mine(n), RawKept, UnreadKept(n),
           LeaverKept
    PROVE  NodeInv(n)'
<1>1. Loop(n)' /\ Absent(n)' /\ Woken(n)'
  BY Zenon DEF NodeInv, Loop, Absent, Woken, Mine
<1>2. Boxed(n)'
  <2>1. /\ inbox'[n] = inbox[n] /\ reqs'[n] = reqs[n] /\ phase'[n] = phase[n] /\ conn'[n] = conn[n]
        /\ Boxed(n)
    BY Zenon DEF NodeInv, Mine
  <2>2. Waits(n)' = Waits(n)
    BY Zenon, <2>1 DEF Waits
  <2> QED
    BY ZenonT(40), <2>1, <2>2 DEF Boxed, LeaverKept
<1>3. Unread(n)'
  BY Zenon DEF NodeInv, Unread, Mine, RawKept, UnreadKept
<1>4. Handled(n)'
  BY Zenon DEF NodeInv, Handled, Mine
<1> QED
  BY Zenon, <1>1, <1>2, <1>3, <1>4 DEF NodeInv

\* What drainInbox takes, and what it leaves.
LEMMA BatchIs ==
    ASSUME StackInv, NEW n \in Nodes, Waking(n) \/ step[n] = "drain", Batch(n) # <<>>
    PROVE  /\ alive[n]
           /\ Batch(n) \in Queue
           /\ Waking(n) => Batch(n) = inbox[n] /\ reqs[n] = <<>> /\ adm[n] = None
           /\ ~Waking(n) => Batch(n) = reqs[n]
BY Zenon DEF StackInv, SupervisorType, NodeInv, Loop, Waking, Batch

LEMMA RequestTaken ==
    ASSUME StackInv, NEW n \in Nodes, Waking(n) \/ step[n] = "drain", Batch(n) # <<>>,
           RequestDone(n)
    PROVE  /\ inbox' \in [Nodes -> Queue] /\ reqs' \in [Nodes -> Queue]
           /\ wake' \in [Nodes -> BOOLEAN] /\ step' \in [Nodes -> {"select", "drain", "exit"}]
           /\ \A m \in Nodes \ {n} : /\ inbox'[m] = inbox[m] /\ reqs'[m] = reqs[m]
                                     /\ wake'[m] = wake[m] /\ step'[m] = step[m]
           /\ step'[n] # "drain" => reqs'[n] = <<>>
           /\ step'[n] = "drain" => reqs'[n] # <<>>
           /\ step'[n] = "exit" => conn'[n] = None
           /\ inbox'[n] # <<>> => inbox[n] # <<>> /\ wake'[n] = wake[n]
           /\ \A x \in Held(inbox'[n]) : x \notin Held(reqs'[n])
           /\ Batch(n)[1] \in Requests
           /\ \A x \in Tracked : /\ x \in Waits(n)' <=> x \in Waits(n) /\ Batch(n)[1] # x
                                 /\ Batch(n)[1] = x => x \in Waits(n)
<1> DEFINE q == Batch(n)
           t == Tail(q)
<1>1. /\ alive[n] /\ q \in Queue
      /\ Waking(n) => q = inbox[n] /\ reqs[n] = <<>>
      /\ ~Waking(n) => q = reqs[n]
  BY Zenon, BatchIs
<1>2. /\ t \in Queue
      /\ Len(q) > 1 <=> t # <<>>
      /\ q[1] \in Requests
      /\ \A x \in Tracked : /\ x \in Held(t) <=> x \in Held(q) /\ q[1] # x
                            /\ q[1] = x => x \in Held(q)
  BY Zenon, <1>1, QueueTail
<1>3. /\ reqs' = [reqs EXCEPT ![n] = t]
      /\ step' = [step EXCEPT ![n] = IF Len(q) > 1 THEN "drain" ELSE LoopEnd(n)]
      /\ inbox' = IF Waking(n) THEN [inbox EXCEPT ![n] = <<>>] ELSE inbox
      /\ wake' = IF Waking(n) THEN [wake EXCEPT ![n] = FALSE] ELSE wake
  BY Zenon DEF RequestDone, TakeBatch
<1>4. /\ inbox \in [Nodes -> Queue] /\ reqs \in [Nodes -> Queue] /\ wake \in [Nodes -> BOOLEAN]
      /\ step \in [Nodes -> {"select", "drain", "exit"}]
      /\ \A x \in Held(inbox[n]) : x \notin Held(reqs[n])
  BY Zenon DEF StackInv, SupervisorType, NodeInv, Boxed
<1>5. LoopEnd(n) \in {"select", "exit"} /\ (LoopEnd(n) = "exit" => conn'[n] = None)
  BY Zenon DEF LoopEnd
<1> HIDE DEF q, t
<1>6. /\ inbox' \in [Nodes -> Queue] /\ reqs' \in [Nodes -> Queue]
      /\ wake' \in [Nodes -> BOOLEAN] /\ step' \in [Nodes -> {"select", "drain", "exit"}]
      /\ \A m \in Nodes \ {n} : /\ inbox'[m] = inbox[m] /\ reqs'[m] = reqs[m]
                                /\ wake'[m] = wake[m] /\ step'[m] = step[m]
      /\ inbox'[n] # <<>> => inbox[n] # <<>> /\ wake'[n] = wake[n]
      /\ reqs'[n] = t
      /\ step'[n] = IF Len(q) > 1 THEN "drain" ELSE LoopEnd(n)
      /\ inbox'[n] = IF Waking(n) THEN <<>> ELSE inbox[n]
  BY Zenon, <1>2, <1>3, <1>4, <1>5, QueueEmpty
<1>7. /\ step'[n] # "drain" => reqs'[n] = <<>>
      /\ step'[n] = "drain" => reqs'[n] # <<>>
      /\ step'[n] = "exit" => conn'[n] = None
  BY Zenon, <1>2, <1>5, <1>6
<1>8. /\ \A x \in Held(inbox'[n]) : x \notin Held(reqs'[n])
      /\ \A x \in Tracked : /\ x \in Waits(n)' <=> x \in Waits(n) /\ q[1] # x
                            /\ q[1] = x => x \in Waits(n)
  <2> USE DEF Waits
  <2>1. CASE Waking(n)
    BY Zenon, <2>1, <1>1, <1>2, <1>4, <1>6, QueueEmpty
  <2>2. CASE ~Waking(n)
    <3>1. inbox'[n] = inbox[n] /\ q = reqs[n] /\ reqs'[n] = t
      BY Zenon, <2>2, <1>1, <1>6
    <3> HIDE DEF Waits
    <3>2. Held(q) = Held(reqs[n])
      BY Zenon, <3>1
    <3>3. \A x \in Held(inbox[n]) : x \notin Held(q)
      BY Zenon, <3>2, <1>4
    <3>4. \A x \in Tracked : q[1] = x => x \notin Held(inbox[n])
      <4> SUFFICES ASSUME NEW x \in Tracked, q[1] = x, x \in Held(inbox[n]) PROVE FALSE
        BY Zenon
      <4>1. x \in Held(q)
        BY Zenon, <1>2
      <4> QED
        BY Zenon, <4>1, <3>3
    <3>5. \A x : x \in Held(t) \/ x \in Held(inbox[n]) => x \in Tracked
      BY Zenon DEF Held
    <3>6. \A x \in Held(inbox[n]) : x \notin Held(t)
      <4> SUFFICES ASSUME NEW x \in Held(inbox[n]), x \in Held(t) PROVE FALSE
        BY Zenon
      <4>1. x \in Held(q)
        BY Zenon, <3>5, <1>2
      <4> QED
        BY Zenon, <4>1, <3>3
    <3>7. \A x \in Tracked : x \in Waits(n)' <=> x \in Held(inbox[n]) \/ x \in Held(t)
      BY Zenon, <3>1 DEF Waits
    <3>8. \A x \in Tracked : x \in Waits(n) <=> x \in Held(inbox[n]) \/ x \in Held(q)
      BY Zenon, <3>2 DEF Waits
    <3> QED
      BY SMTT(20), <3>1, <3>4, <3>6, <3>7, <3>8, <1>2
  <2> QED
    BY Zenon, <2>1, <2>2
<1> QED
  BY Zenon, <1>2, <1>6, <1>7, <1>8 DEF q

LEMMA CloseControlReads ==
    ASSUME SupervisorType, NEW n \in Nodes, NEW c \in Conns, NEW g, CloseControl(n, c, g)
    PROVE  /\ reader' \in [Nodes -> [Conns -> {"none", "run", "ended"}]]
           /\ \A m \in Nodes : UnreadKept(m)
           /\ \A m \in Nodes, b \in Conns : reader'[m][b] = "none" => reader[m][b] = "none"
<1>1. CASE reader' = reader
  BY Zenon, <1>1 DEF SupervisorType, UnreadKept
<1>2. CASE reader' = [reader EXCEPT ![n][c] = "ended"] /\ reader[n][c] = "run"
  BY Zenon, <1>2 DEF SupervisorType, UnreadKept
<1> QED
  BY Zenon, <1>1, <1>2 DEF CloseControl

-----------------------------------------------------------------------------
(* Connect, connections and requests. *)

\* Calls of Connect between their handshakes, and the end of a connection.
LEMMA QuietStep ==
    ASSUME StackInv, RawKept, LeaverKept, raw' \in [Conns -> {"none", "up", "down"}],
           UNCHANGED <<alive, wake, inbox, reqs, step, conn, adm, owned, handles, stage,
                       phase, reader>>
    PROVE  StackInv'
<1>1. SupervisorType'
  BY Zenon DEF StackInv, SupervisorType, LeaverKept
<1>2. ASSUME NEW n \in Nodes PROVE NodeInv(n)'
  <2>1. Mine(n)' = Mine(n) /\ UnreadKept(n)
    BY Zenon DEF Mine, UnreadKept
  <2> QED
    BY Zenon, <2>1, Untouched DEF StackInv
<1> QED
  BY Zenon, <1>1, <1>2 DEF StackInv

LEMMA ConnectSteps ==
    ASSUME StackInv, NEW k \in Callers,
           \/ Connect(k) \/ Awaken(k) \/ WaitCancelled(k) \/ Cancel(k) \/ Finish(k)
           \/ \E l \in {left[k] - 1, 0} : DialFails(k, l)
    PROVE  StackInv'
<1>1. UNCHANGED <<connVars, endVars, stage, supVars, leaver>>
  BY Zenon DEF Connect, Awaken, WaitCancelled, Cancel, Finish, DialFails, stackVars, leaveVars
<1>2. RawKept /\ LeaverKept /\ raw' \in [Conns -> {"none", "up", "down"}]
  BY Zenon, <1>1 DEF StackInv, SupervisorType, RawKept, LeaverKept, connVars
<1> QED
  BY Zenon, <1>1, <1>2, QuietStep DEF connVars, endVars, supVars

LEMMA ConnDownStep ==
    ASSUME StackInv, NEW c \in Conns, ConnDown(c)
    PROVE  StackInv'
<1>1. UNCHANGED <<endVars, stackVars, supVars, leaver>> /\ raw' = [raw EXCEPT ![c] = "down"]
  BY Zenon DEF ConnDown
<1>2. RawKept /\ LeaverKept /\ raw' \in [Conns -> {"none", "up", "down"}]
  BY Zenon, <1>1 DEF StackInv, SupervisorType, RawKept, LeaverKept
<1> QED
  BY Zenon, <1>1, <1>2, QuietStep DEF endVars, stackVars, supVars

LEMMA DialStep ==
    ASSUME StackInv, NEW k \in Callers, NEW c \in Conns, NEW w \in BOOLEAN, NEW t \in BOOLEAN,
           Dial(k, c, w, t)
    PROVE  StackInv'
<1>1. /\ UNCHANGED <<reader, stackVars, supVars, leaver>>
      /\ raw' = [raw EXCEPT ![c] = "up"]
      /\ raw[c] = "none"
  BY Zenon DEF Dial, IsNext
<1>2. /\ phase' \in [Nodes -> [Conns -> {"none", "queued", "greeting", "boxed", "live", "over"}]]
      /\ \A n \in Nodes, b \in Conns :
           phase'[n][b] # phase[n][b] => b = c /\ phase'[n][b] \in {"queued", "greeting", "over"}
  <2> DEFINE n == CallerNode(k)
             m == Other(n)
  <2>1. PICK u, v \in {"queued", "greeting", "over"} :
            phase' = [phase EXCEPT ![n][c] = u, ![m][c] = v]
    BY Zenon DEF Dial, Opened
  <2>2. phase \in [Nodes -> [Conns -> {"none", "queued", "greeting", "boxed", "live", "over"}]]
    BY Zenon DEF StackInv, SupervisorType
  <2> HIDE DEF n, m
  <2> QED
    BY Zenon, <2>1, <2>2
<1>3. SupervisorType'
  BY Zenon, <1>1, <1>2 DEF StackInv, SupervisorType, supVars, stackVars
<1>4. ASSUME NEW n \in Nodes PROVE NodeInv(n)'
  <2>1. NodeInv(n) /\ phase[n][c] = "none"
    BY ZenonT(40), <1>1 DEF StackInv, NodeInv, Unread
  <2>2. Loop(n)' /\ Absent(n)' /\ Woken(n)' /\ Handled(n)'
    BY Zenon, <1>1, <2>1 DEF NodeInv, Loop, Absent, Woken, Handled, supVars, stackVars
  <2>3. Boxed(n)'
    <3>1. /\ inbox' = inbox /\ reqs' = reqs /\ conn' = conn /\ leaver' = leaver
          /\ Waits(n)' = Waits(n)
      BY Zenon, <1>1 DEF supVars, Waits
    <3>2. \A b \in Conns : /\ phase'[n][b] = "boxed" <=> phase[n][b] = "boxed"
                           /\ phase'[n][b] = "live" <=> phase[n][b] = "live"
      BY Zenon, <1>2, <2>1
    <3>3. \A x \in Held(inbox'[n]) : x \notin Held(reqs'[n])
      BY Zenon, <2>1, <3>1 DEF NodeInv, Boxed
    <3>4. \A d \in Leavers : Leave(d) \in Waits(n)' => leaver'[d] # "idle"
      <4>1. \A d \in Leavers : Leave(d) \in Waits(n) => leaver[d] # "idle"
        BY Zenon, Phases
      <4> QED
        BY ONLY <3>1, <4>1
    <3>5. \A b \in Conns : phase'[n][b] = "boxed" <=> Attach(b) \in Waits(n)'
      <4>1. \A b \in Conns : phase[n][b] = "boxed" <=> Attach(b) \in Waits(n)
        BY Zenon, Phases
      <4> QED
        BY ONLY <3>1, <3>2, <4>1
    <3>6. \A b \in Conns : phase'[n][b] = "live" <=> b = conn'[n]
      BY ZenonT(40), <3>1, <3>2, Phases
    <3> QED
      BY Zenon, <3>1, <3>3, <3>4, <3>5, <3>6 DEF Boxed
  <2>4. Unread(n)'
    <3>1. raw \in [Conns -> {"none", "up", "down"}]
      BY Zenon DEF StackInv, SupervisorType
    <3> QED
      BY ZenonT(40), <1>1, <1>2, <2>1, <3>1 DEF NodeInv, Unread
  <2> QED
    BY Zenon, <2>2, <2>3, <2>4 DEF NodeInv
<1> QED
  BY Zenon, <1>3, <1>4 DEF StackInv

\* A view at its handshake is in no queue and is not current.
LEMMA Greeting ==
    ASSUME StackInv, NEW n \in Nodes, NEW c \in Conns, phase[n][c] = "greeting"
    PROVE  Attach(c) \notin Waits(n) /\ conn[n] # c /\ reader[n][c] = "none" /\ raw[c] # "none"
BY Zenon DEF StackInv, NodeInv, Boxed, Unread

\* A view ends at its handshake.
LEMMA HandshakeOver ==
    ASSUME StackInv, NEW n \in Nodes, NEW c \in Conns, NEW g,
           phase[n][c] = "greeting",
           phase' = [phase EXCEPT ![n][c] = "over"],
           CloseControl(n, c, g),
           UNCHANGED <<raw, stage, supVars, leaver>>
    PROVE  StackInv'
<1>1. /\ reader' \in [Nodes -> [Conns -> {"none", "run", "ended"}]]
      /\ \A m \in Nodes : UnreadKept(m)
  BY Zenon, CloseControlReads DEF StackInv
<1>2. SupervisorType'
  BY Zenon, <1>1 DEF StackInv, SupervisorType, supVars
<1>3. RawKept /\ LeaverKept
  BY Zenon DEF StackInv, SupervisorType, RawKept, LeaverKept
<1>4. ASSUME NEW m \in Nodes, m # n PROVE NodeInv(m)'
  <2>1. Mine(m)' = Mine(m)
    BY Zenon, <1>4 DEF Mine, supVars, StackInv, SupervisorType
  <2> QED
    BY Zenon, <2>1, <1>1, <1>3, Untouched DEF StackInv
<1>5. NodeInv(n)'
  <2>1. NodeInv(n) /\ Attach(c) \notin Waits(n) /\ conn[n] # c
    BY Zenon, Greeting DEF StackInv
  <2>2. /\ phase'[n][c] = "over"
        /\ \A b \in Conns : b # c => phase'[n][b] = phase[n][b]
    BY Zenon DEF StackInv, SupervisorType
  <2>3. Loop(n)' /\ Absent(n)' /\ Woken(n)' /\ Handled(n)'
    BY Zenon, <2>1 DEF NodeInv, Loop, Absent, Woken, Handled, supVars
  <2>4. Boxed(n)'
    BY <2>1, <2>2 DEF NodeInv, Boxed, Waits, supVars
  <2>5. Unread(n)'
    <3>1. raw[c] # "none"
      BY Zenon, Greeting
    <3> QED
      BY <1>1, <2>1, <2>2, <3>1 DEF NodeInv, Unread, UnreadKept
  <2> QED
    BY Zenon, <2>3, <2>4, <2>5 DEF NodeInv
<1> QED
  BY Zenon, <1>2, <1>4, <1>5 DEF StackInv

LEMMA ReadHelloStep ==
    ASSUME StackInv, NEW n \in Nodes, NEW c \in Conns, NEW late \in BOOLEAN, ReadHello(n, c, late)
    PROVE  StackInv'
<1>1. phase[n][c] = "greeting" /\ UNCHANGED <<raw, stage, leaver>>
  BY Zenon DEF ReadHello, connVars, stackVars, leaveVars
<1>2. CASE Ended(n)
  <2>1. /\ phase' = [phase EXCEPT ![n][c] = "over"]
        /\ CloseControl(n, c, TRUE)
        /\ UNCHANGED supVars
    BY Zenon, <1>2 DEF ReadHello, supVars
  <2> QED
    BY Zenon, <1>1, <2>1, HandshakeOver
<1>3. CASE ~Ended(n)
  <2>1. /\ phase' = [phase EXCEPT ![n][c] = "boxed"]
        /\ alive' = [alive EXCEPT ![n] = TRUE]
        /\ inbox' = [inbox EXCEPT ![n] = Append(@, Attach(c))]
        /\ wake' = [wake EXCEPT ![n] = TRUE]
        /\ UNCHANGED <<reqs, step, conn, adm, owned, handles>>
        /\ CloseControl(n, c, TRUE) \/ reader' = reader
    BY Zenon, <1>3 DEF ReadHello, Enqueue, Attach
  <2>2. stage[n] = "open"
    BY Zenon, <1>3 DEF Ended
  <2>3. /\ reader' \in [Nodes -> [Conns -> {"none", "run", "ended"}]]
        /\ \A m \in Nodes : UnreadKept(m)
    BY Zenon, <2>1, CloseControlReads DEF StackInv, SupervisorType, UnreadKept
  <2>4. NodeInv(n) /\ Attach(c) \notin Waits(n) /\ conn[n] # c /\ reader[n][c] = "none" /\ raw[c] # "none"
    BY Zenon, <1>1, Greeting DEF StackInv
  <2>5. inbox[n] \in Queue /\ Attach(c) \in Requests /\ Attach(c) \notin Held(inbox[n])
    BY <2>4, Marks DEF StackInv, SupervisorType, Waits, Tracked
  <2>6. /\ Append(inbox[n], Attach(c)) \in Queue
        /\ \A x \in Tracked : x \in Held(Append(inbox[n], Attach(c)))
                                <=> x \in Held(inbox[n]) \/ x = Attach(c)
    BY Zenon, <2>5, QueueAppend
  <2>7. SupervisorType'
    BY Zenon, <1>1, <2>1, <2>3, <2>6 DEF StackInv, SupervisorType
  <2>8. RawKept /\ LeaverKept
    BY Zenon, <1>1 DEF StackInv, SupervisorType, RawKept, LeaverKept
  <2>9. ASSUME NEW m \in Nodes, m # n PROVE NodeInv(m)'
    <3>1. Mine(m)' = Mine(m)
      BY Zenon, <1>1, <2>1, <2>9 DEF Mine, StackInv, SupervisorType
    <3> QED
      BY Zenon, <3>1, <2>3, <2>8, Untouched DEF StackInv
  <2>10. NodeInv(n)'
    <3>1. /\ phase'[n][c] = "boxed"
          /\ \A b \in Conns : b # c => phase'[n][b] = phase[n][b]
          /\ alive'[n] /\ wake'[n]
          /\ inbox'[n] = Append(inbox[n], Attach(c))
      BY Zenon, <2>1 DEF StackInv, SupervisorType
    <3>2. Loop(n)' /\ Absent(n)' /\ Woken(n)' /\ Handled(n)'
      BY Zenon, <1>1, <2>1, <2>2, <2>4, <3>1 DEF NodeInv, Loop, Absent, Woken, Handled
    <3>3. \A x \in Tracked : x \in Waits(n)' <=> x \in Waits(n) \/ x = Attach(c)
      BY Zenon, <2>1, <2>6, <3>1 DEF Waits
    <3>4. \A x \in Held(inbox'[n]) : x \notin Held(reqs'[n])
      <4> SUFFICES ASSUME NEW x \in Held(inbox'[n]), x \in Held(reqs[n]) PROVE FALSE
        BY Zenon, <2>1
      <4>1. x \in Tracked
        BY Zenon DEF Held
      <4>2. CASE x = Attach(c)
        BY Zenon, <4>2, <2>4 DEF Waits
      <4>3. CASE x \in Held(inbox[n])
        BY Zenon, <4>3, <2>4 DEF NodeInv, Boxed
      <4> QED
        BY Zenon, <4>1, <4>2, <4>3, <2>6, <3>1
    <3>5. Boxed(n)'
      <4>1. \A d \in Leavers : Leave(d) \in Waits(n)' => leaver'[d] # "idle"
        BY <1>1, <3>3, Marks, Phases
      <4>2. ASSUME NEW b \in Conns
            PROVE  /\ phase'[n][b] = "boxed" <=> Attach(b) \in Waits(n)'
                   /\ phase'[n][b] = "live" <=> b = conn[n]
        <5>1. CASE b = c
          BY Zenon, <5>1, <2>4, <3>1, <3>3, Marks
        <5>2. CASE b # c
          <6>1. Attach(b) \in Waits(n)' <=> Attach(b) \in Waits(n)
            BY Zenon, <5>2, <3>3, Marks
          <6>2. /\ phase[n][b] = "boxed" <=> Attach(b) \in Waits(n)
                /\ phase[n][b] = "live" <=> b = conn[n]
            BY Zenon DEF StackInv, NodeInv, Boxed
          <6> QED
            BY ONLY b \in Conns, <5>2, <3>1, <6>1, <6>2
        <5> QED
          BY Zenon, <5>1, <5>2
      <4> QED
        BY Zenon, <2>1, <3>4, <4>1, <4>2 DEF Boxed
    <3>6. Unread(n)'
      BY <1>1, <2>3, <2>4, <3>1 DEF NodeInv, Unread, UnreadKept
    <3> QED
      BY Zenon, <3>2, <3>5, <3>6 DEF NodeInv
  <2> QED
    BY Zenon, <2>7, <2>9, <2>10 DEF StackInv
<1> QED
  BY Zenon, <1>2, <1>3

LEMMA HandshakeFailsStep ==
    ASSUME StackInv, NEW n \in Nodes, NEW c \in Conns, HandshakeFails(n, c)
    PROVE  StackInv'
<1>1. /\ phase[n][c] = "greeting"
      /\ phase' = [phase EXCEPT ![n][c] = "over"]
      /\ CloseControl(n, c, TRUE)
      /\ UNCHANGED <<raw, stage, supVars, leaver>>
  BY ZenonT(40) DEF HandshakeFails, connVars, stackVars
<1> QED
  BY Zenon, <1>1, HandshakeOver

\* A request other than a view's hand-over is put in the inbox of a supervisor.
LEMMA PostStep ==
    ASSUME StackInv, NEW n \in Nodes, alive[n],
           NEW r \in Requests, r.op # "attach", r \notin Waits(n),
           \A d \in Leavers : r = Leave(d) => leaver'[d] # "idle",
           LeaverKept,
           inbox' = [inbox EXCEPT ![n] = Append(@, r)],
           wake' \in [Nodes -> BOOLEAN],
           stage' \in [Nodes -> {"open", "cancelled", "signalled", "closed"}],
           wake'[n] \/ stage'[n] = "cancelled",
           stage'[n] = "closed" => stage[n] = "closed",
           handles' \in [Nodes -> SUBSET (Conns \X Families)],
           handles'[n] \subseteq handles[n],
           reader' \in [Nodes -> [Conns -> {"none", "run", "ended"}]],
           \A m \in Nodes : UnreadKept(m),
           \A m \in Nodes \ {n} : wake'[m] = wake[m] /\ stage'[m] = stage[m] /\ handles'[m] = handles[m],
           UNCHANGED <<raw, alive, reqs, step, conn, adm, owned, phase>>
    PROVE  StackInv'
<1>1. inbox[n] \in Queue /\ r \notin Held(inbox[n]) /\ NodeInv(n)
  BY Zenon DEF StackInv, SupervisorType, Waits
<1>2. /\ Append(inbox[n], r) \in Queue
      /\ \A x \in Tracked : x \in Held(Append(inbox[n], r)) <=> x \in Held(inbox[n]) \/ x = r
  BY Zenon, <1>1, QueueAppend
<1>3. SupervisorType'
  BY Zenon, <1>2 DEF StackInv, SupervisorType, LeaverKept
<1>4. inbox'[n] = Append(inbox[n], r) /\ \A m \in Nodes \ {n} : inbox'[m] = inbox[m]
  BY Zenon DEF StackInv, SupervisorType
<1>5. ASSUME NEW m \in Nodes, m # n PROVE NodeInv(m)'
  <2>1. Mine(m)' = Mine(m) /\ UnreadKept(m) /\ RawKept
    BY ZenonT(40), <1>4, <1>5 DEF Mine, RawKept
  <2> QED
    BY ONLY StackInv, m \in Nodes, LeaverKept, <2>1, Untouched DEF StackInv
<1>6. NodeInv(n)'
  <2>1. Loop(n)' /\ Absent(n)' /\ Woken(n)' /\ Handled(n)'
    BY Zenon, <1>1 DEF NodeInv, Loop, Absent, Woken, Handled
  <2>2. \A x \in Tracked : x \in Waits(n)' <=> x \in Waits(n) \/ x = r
    BY Zenon, <1>2, <1>4 DEF Waits
  <2>3. \A x \in Held(inbox'[n]) : x \notin Held(reqs'[n])
    <3> SUFFICES ASSUME NEW x \in Held(inbox'[n]), x \in Held(reqs[n]) PROVE FALSE
      BY Zenon
    <3>1. x \in Tracked
      BY Zenon DEF Held
    <3>2. CASE x = r
      BY Zenon, <3>2 DEF Waits
    <3>3. CASE x \in Held(inbox[n])
      BY Zenon, <3>3, <1>1 DEF NodeInv, Boxed
    <3> QED
      BY Zenon, <3>1, <3>2, <3>3, <1>2, <1>4
  <2>4. Boxed(n)'
    <3>1. ASSUME NEW d \in Leavers, Leave(d) \in Waits(n)' PROVE leaver'[d] # "idle"
      <4>1. Leave(d) \in Waits(n) \/ Leave(d) = r
        BY Zenon, <2>2, <3>1, Marks
      <4> QED
        BY ZenonT(40), <4>1, Phases DEF LeaverKept
    <3>2. ASSUME NEW c \in Conns PROVE Attach(c) \in Waits(n)' <=> Attach(c) \in Waits(n)
      <4>1. Attach(c) \in Tracked /\ Attach(c) # r
        BY ONLY Marks, c \in Conns, r.op # "attach"
      <4> QED
        BY ZenonT(40), <2>2, <4>1
    <3> QED
      BY ZenonT(40), <1>1, <2>3, <3>1, <3>2 DEF NodeInv, Boxed
  <2>5. Unread(n)'
    BY ZenonT(40), <1>1 DEF NodeInv, Unread, UnreadKept
  <2> QED
    BY Zenon, <2>1, <2>4, <2>5 DEF NodeInv
<1> QED
  BY Zenon, <1>3, <1>5, <1>6 DEF StackInv

\* The requests of which there may be more than one.
LEMMA Untracked ==
    /\ \A c \in Conns, n \in Nodes : /\ [op |-> "gone", conn |-> c] \in Requests
                                     /\ [op |-> "gone", conn |-> c] \notin Waits(n)
    /\ \A n \in Nodes : /\ [op |-> "handles"] \in Requests /\ [op |-> "handles"] \notin Waits(n)
                        /\ [op |-> "close"] \in Requests /\ [op |-> "close"] \notin Waits(n)
BY Zenon DEF Requests, Waits, Held, Tracked

LEMMA ReadGoAwayStep ==
    ASSUME StackInv, NEW n \in Nodes, NEW c \in Conns, ReadGoAway(n, c)
    PROVE  StackInv'
<1> DEFINE r == [op |-> "gone", conn |-> c]
<1>1. /\ reader[n][c] = "run" /\ reader' = [reader EXCEPT ![n][c] = "ended"]
      /\ Post(n, c, r)
      /\ UNCHANGED <<raw, phase, stage, alive, reqs, step, conn, adm, owned, handles, leaver>>
  BY Zenon DEF ReadGoAway, connVars, stackVars, leaveVars
<1>2. /\ reader' \in [Nodes -> [Conns -> {"none", "run", "ended"}]]
      /\ \A m \in Nodes : UnreadKept(m)
      /\ LeaverKept /\ RawKept
  BY Zenon, <1>1 DEF StackInv, SupervisorType, UnreadKept, LeaverKept, RawKept
<1>3. CASE c \in owned[n]
  <2>1. inbox' = [inbox EXCEPT ![n] = Append(@, r)] /\ wake' = [wake EXCEPT ![n] = TRUE]
    BY Zenon, <1>1, <1>3 DEF Post, Enqueue
  <2>2. alive[n]
    BY ZenonT(40), <1>3 DEF StackInv, NodeInv, Absent
  <2>3. r \in Requests /\ r \notin Waits(n) /\ r.op # "attach" /\ \A d \in Leavers : r # Leave(d)
    BY Zenon, Untracked DEF Leave
  <2> HIDE DEF r
  <2>4. /\ wake' \in [Nodes -> BOOLEAN] /\ wake'[n] /\ \A m \in Nodes \ {n} : wake'[m] = wake[m]
        /\ stage' \in [Nodes -> {"open", "cancelled", "signalled", "closed"}]
        /\ handles' \in [Nodes -> SUBSET (Conns \X Families)]
    BY Zenon, <1>1, <2>1 DEF StackInv, SupervisorType
  <2>5. /\ \A m \in Nodes \ {n} : wake'[m] = wake[m] /\ stage'[m] = stage[m] /\ handles'[m] = handles[m]
        /\ handles'[n] \subseteq handles[n]
        /\ stage'[n] = "closed" => stage[n] = "closed"
        /\ wake'[n] \/ stage'[n] = "cancelled"
        /\ \A d \in Leavers : r = Leave(d) => leaver'[d] # "idle"
        /\ UNCHANGED <<raw, alive, reqs, step, conn, adm, owned, phase>>
    BY Zenon, <1>1, <2>3, <2>4
  <2> QED
    BY Zenon, <1>2, <2>1, <2>2, <2>3, <2>4, <2>5, PostStep
<1>4. CASE c \notin owned[n]
  <2>1. UNCHANGED <<inbox, wake>>
    BY Zenon, <1>1, <1>4 DEF Post
  <2>2. SupervisorType'
    BY Zenon, <1>1, <1>2, <2>1 DEF StackInv, SupervisorType, LeaverKept
  <2>3. \A m \in Nodes : NodeInv(m)'
    BY ZenonT(40), <1>1, <1>2, <2>1, Untouched DEF StackInv, Mine
  <2> QED
    BY Zenon, <2>2, <2>3 DEF StackInv
<1> QED
  BY Zenon, <1>3, <1>4

LEMMA PeerCloseStep ==
    ASSUME StackInv, NEW n \in Nodes, NEW f \in Families, PeerClose(n, f)
    PROVE  StackInv'
<1> DEFINE r == [op |-> "handles"]
<1>1. /\ conn[n] # None
      /\ handles' = [handles EXCEPT ![n] = @ \ {<<conn[n], f>>}]
      /\ Post(n, conn[n], r)
      /\ UNCHANGED <<raw, phase, reader, stage, alive, reqs, step, conn, adm, owned, leaver>>
  BY Zenon DEF PeerClose, connVars, endVars, stackVars
<1>2. /\ LeaverKept /\ RawKept /\ \A m \in Nodes : UnreadKept(m)
      /\ handles' \in [Nodes -> SUBSET (Conns \X Families)]
      /\ handles'[n] \subseteq handles[n]
      /\ \A m \in Nodes \ {n} : handles'[m] = handles[m]
  BY Zenon, <1>1 DEF StackInv, SupervisorType, UnreadKept, LeaverKept, RawKept
<1>3. CASE conn[n] \in owned[n]
  <2>1. inbox' = [inbox EXCEPT ![n] = Append(@, r)] /\ wake' = [wake EXCEPT ![n] = TRUE]
    BY Zenon, <1>1, <1>3 DEF Post, Enqueue
  <2>2. alive[n]
    BY Zenon, <1>3 DEF StackInv, NodeInv, Absent
  <2>3. r \in Requests /\ r \notin Waits(n) /\ r.op # "attach" /\ \A d \in Leavers : r # Leave(d)
    BY Zenon, Untracked DEF Leave
  <2> HIDE DEF r
  <2>4. /\ wake' \in [Nodes -> BOOLEAN] /\ wake'[n] /\ \A m \in Nodes \ {n} : wake'[m] = wake[m]
        /\ stage' \in [Nodes -> {"open", "cancelled", "signalled", "closed"}]
        /\ reader' \in [Nodes -> [Conns -> {"none", "run", "ended"}]]
    BY ZenonT(40), <1>1, <2>1 DEF StackInv, SupervisorType
  <2>5. /\ \A m \in Nodes \ {n} : wake'[m] = wake[m] /\ stage'[m] = stage[m] /\ handles'[m] = handles[m]
        /\ handles'[n] \subseteq handles[n]
        /\ stage'[n] = "closed" => stage[n] = "closed"
        /\ wake'[n] \/ stage'[n] = "cancelled"
        /\ \A d \in Leavers : r = Leave(d) => leaver'[d] # "idle"
        /\ UNCHANGED <<raw, alive, reqs, step, conn, adm, owned, phase>>
    BY Zenon, <1>1, <1>2, <2>3, <2>4
  <2> QED
    BY ZenonT(40), <1>2, <2>1, <2>2, <2>3, <2>4, <2>5, PostStep
<1>4. CASE conn[n] \notin owned[n]
  <2>1. UNCHANGED <<inbox, wake>>
    BY Zenon, <1>1, <1>4 DEF Post
  <2>2. SupervisorType'
    BY Zenon, <1>1, <1>2, <2>1 DEF StackInv, SupervisorType, LeaverKept
  <2>3. ASSUME NEW m \in Nodes, m # n PROVE NodeInv(m)'
    <3>1. Mine(m)' = Mine(m)
      BY Zenon, <1>1, <1>2, <2>1, <2>3 DEF Mine
    <3> QED
      BY Zenon, <1>2, <3>1, Untouched DEF StackInv
  <2>4. NodeInv(n)'
    <3>1. NodeInv(n)
      BY Zenon DEF StackInv
    <3>2. Loop(n)' /\ Absent(n)' /\ Woken(n)' /\ Handled(n)'
      BY Zenon, <1>1, <1>2, <2>1, <3>1 DEF NodeInv, Loop, Absent, Woken, Handled
    <3>3. Boxed(n)' /\ Unread(n)'
      BY Zenon, <1>1, <2>1, <3>1 DEF NodeInv, Boxed, Waits, Unread
    <3> QED
      BY Zenon, <3>2, <3>3 DEF NodeInv
  <2> QED
    BY Zenon, <2>2, <2>3, <2>4 DEF StackInv
<1> QED
  BY Zenon, <1>3, <1>4

LEMMA CloseViewStep ==
    ASSUME StackInv, NEW n \in Nodes, NEW c \in Conns, CloseView(n, c)
    PROVE  StackInv'
<1> DEFINE d == waiting[n][c]
<1>1. /\ CloseControl(n, c, closer[n][c] = "bye")
      /\ leaver' = IF d # None THEN [leaver EXCEPT ![d] = "returned"] ELSE leaver
      /\ UNCHANGED <<raw, phase, stage, supVars>>
  BY Zenon DEF CloseView, connVars
<1>2. /\ reader' \in [Nodes -> [Conns -> {"none", "run", "ended"}]]
      /\ \A m \in Nodes : UnreadKept(m)
  BY Zenon, <1>1, CloseControlReads DEF StackInv
<1> HIDE DEF d
<1>3. LeaverKept /\ RawKept
  BY Zenon, <1>1 DEF StackInv, SupervisorType, LeaverKept, RawKept
<1>4. SupervisorType'
  BY Zenon, <1>1, <1>2, <1>3 DEF StackInv, SupervisorType, supVars, LeaverKept
<1>5. ASSUME NEW m \in Nodes PROVE NodeInv(m)'
  <2>1. Mine(m)' = Mine(m)
    BY Zenon, <1>1 DEF Mine, supVars
  <2> QED
    BY Zenon, <2>1, <1>2, <1>3, Untouched DEF StackInv
<1> QED
  BY Zenon, <1>4, <1>5 DEF StackInv

LEMMA DisconnectStep ==
    ASSUME StackInv, NEW d \in Leavers, Disconnect(d)
    PROVE  StackInv'
<1> DEFINE n == LeaverNode[d]
<1> DEFINE r == Leave(d)
<1>1. /\ leaver[d] = "idle"
      /\ leaver' = [leaver EXCEPT ![d] = IF alive[n] THEN "wait" ELSE "returned"]
      /\ IF alive[n] THEN Enqueue(n, r) ELSE UNCHANGED <<inbox, wake>>
      /\ UNCHANGED <<raw, phase, reader, stage, alive, reqs, step, conn, adm, owned, handles>>
  BY Zenon DEF Disconnect, connVars, endVars, stackVars, Leave
<1>2. n \in Nodes
  BY Zenon, StackAssumption
<1> HIDE DEF n
<1>3. LeaverKept /\ RawKept /\ (\A m \in Nodes : UnreadKept(m)) /\ leaver'[d] # "idle"
  BY Zenon, <1>1 DEF StackInv, SupervisorType, UnreadKept, LeaverKept, RawKept
<1>4. CASE alive[n]
  <2>1. inbox' = [inbox EXCEPT ![n] = Append(@, r)] /\ wake' = [wake EXCEPT ![n] = TRUE]
    BY Zenon, <1>1, <1>4 DEF Enqueue
  <2>2. r \in Requests /\ r.op # "attach" /\ \A e \in Leavers : r = Leave(e) => leaver'[e] # "idle"
    BY Zenon, <1>3 DEF Leave, Requests
  <2>3. r \notin Waits(n)
    BY Zenon, <1>1, <1>2 DEF StackInv, NodeInv, Boxed
  <2> HIDE DEF r
  <2>4. /\ wake' \in [Nodes -> BOOLEAN]
        /\ wake'[n] \/ stage'[n] = "cancelled"
        /\ stage' \in [Nodes -> {"open", "cancelled", "signalled", "closed"}]
        /\ reader' \in [Nodes -> [Conns -> {"none", "run", "ended"}]]
        /\ handles' \in [Nodes -> SUBSET (Conns \X Families)]
        /\ \A m \in Nodes \ {n} : wake'[m] = wake[m] /\ stage'[m] = stage[m] /\ handles'[m] = handles[m]
        /\ handles'[n] \subseteq handles[n]
        /\ stage'[n] = "closed" => stage[n] = "closed"
        /\ UNCHANGED <<raw, alive, reqs, step, conn, adm, owned, phase>>
    BY Zenon, <1>1, <1>2, <2>1 DEF StackInv, SupervisorType
  <2> QED
    BY Zenon, <1>2, <1>3, <1>4, <2>1, <2>2, <2>3, <2>4, PostStep
<1>5. CASE ~alive[n]
  <2>1. UNCHANGED <<inbox, wake>> /\ raw' \in [Conns -> {"none", "up", "down"}]
    BY Zenon, <1>1, <1>5 DEF StackInv, SupervisorType
  <2> QED
    BY Zenon, <1>1, <1>3, <2>1, QuietStep
<1> QED
  BY Zenon, <1>4, <1>5

LEMMA CloseBeginStep ==
    ASSUME StackInv, NEW n \in Nodes, CloseBegin(n)
    PROVE  StackInv'
<1> DEFINE r == [op |-> "close"]
<1>1. /\ stage[n] = "open" /\ stage' = [stage EXCEPT ![n] = "cancelled"]
      /\ inbox' = IF alive[n] THEN [inbox EXCEPT ![n] = Append(@, r)] ELSE inbox
      /\ UNCHANGED <<raw, phase, reader, alive, wake, reqs, step, conn, adm, owned, handles, leaver>>
  BY Zenon DEF CloseBegin, connVars, endVars
<1>2. LeaverKept /\ RawKept /\ \A m \in Nodes : UnreadKept(m)
  BY Zenon, <1>1 DEF StackInv, SupervisorType, UnreadKept, LeaverKept, RawKept
<1>3. /\ wake' \in [Nodes -> BOOLEAN] /\ stage'[n] = "cancelled"
      /\ stage' \in [Nodes -> {"open", "cancelled", "signalled", "closed"}]
      /\ reader' \in [Nodes -> [Conns -> {"none", "run", "ended"}]]
      /\ handles' \in [Nodes -> SUBSET (Conns \X Families)]
      /\ \A m \in Nodes \ {n} : wake'[m] = wake[m] /\ stage'[m] = stage[m] /\ handles'[m] = handles[m]
  BY Zenon, <1>1 DEF StackInv, SupervisorType
<1>4. CASE alive[n]
  <2>1. r \in Requests /\ r \notin Waits(n) /\ r.op # "attach" /\ \A d \in Leavers : r # Leave(d)
    BY Zenon, Untracked DEF Leave
  <2> HIDE DEF r
  <2>2. /\ inbox' = [inbox EXCEPT ![n] = Append(@, r)]
        /\ handles'[n] \subseteq handles[n]
        /\ stage'[n] = "closed" => stage[n] = "closed"
        /\ wake'[n] \/ stage'[n] = "cancelled"
        /\ \A d \in Leavers : r = Leave(d) => leaver'[d] # "idle"
        /\ UNCHANGED <<raw, alive, reqs, step, conn, adm, owned, phase>>
    BY Zenon, <1>1, <1>3, <1>4, <2>1
  <2> QED
    BY Zenon, <1>2, <1>3, <1>4, <2>1, <2>2, PostStep
<1>5. CASE ~alive[n]
  <2>1. SupervisorType'
    BY Zenon, <1>1, <1>2, <1>3, <1>5 DEF StackInv, SupervisorType, LeaverKept
  <2>2. ASSUME NEW m \in Nodes PROVE NodeInv(m)'
    <3>1. NodeInv(m) /\ inbox' = inbox /\ (m = n => stage'[m] = "cancelled") /\ (m # n => stage'[m] = stage[m])
      BY Zenon, <1>1, <1>3, <1>5 DEF StackInv
    <3>2. Loop(m)' /\ Absent(m)' /\ Woken(m)' /\ Handled(m)'
      BY Zenon, <1>1, <3>1 DEF NodeInv, Loop, Absent, Woken, Handled
    <3>3. Boxed(m)' /\ Unread(m)'
      BY Zenon, <1>1, <3>1 DEF NodeInv, Boxed, Waits, Unread
    <3> QED
      BY Zenon, <3>2, <3>3 DEF NodeInv
  <2> QED
    BY Zenon, <2>1, <2>2 DEF StackInv
<1> QED
  BY Zenon, <1>4, <1>5

LEMMA ClosingSteps ==
    ASSUME StackInv, NEW n \in Nodes, Closing(n)
    PROVE  StackInv'
<1>1. /\ stage' = [stage EXCEPT ![n] = "signalled"] \/ stage' = [stage EXCEPT ![n] = "closed"]
      /\ stage' = [stage EXCEPT ![n] = "closed"] => ~alive[n]
      /\ wake' = IF alive[n] THEN [wake EXCEPT ![n] = TRUE] ELSE wake
      /\ UNCHANGED <<raw, phase, reader, alive, inbox, reqs, step, conn, adm, owned, handles, leaver>>
  <2>1. CASE CloseSignal(n)
    <3>1. stage' # [stage EXCEPT ![n] = "closed"]
      BY Zenon, <2>1 DEF CloseSignal, StackInv, SupervisorType
    <3> QED
      BY Zenon, <2>1, <3>1 DEF CloseSignal, connVars, endVars, leaveVars
  <2>2. CASE CloseReturn(n)
    BY Zenon, <2>2 DEF CloseReturn, connVars, endVars, supVars, leaveVars
  <2> QED
    BY Zenon, <2>1, <2>2 DEF Closing
<1>2. SupervisorType'
  BY Zenon, <1>1 DEF StackInv, SupervisorType
<1>3. ASSUME NEW m \in Nodes PROVE NodeInv(m)'
  <2>1. /\ NodeInv(m)
        /\ m # n => stage'[m] = stage[m] /\ wake'[m] = wake[m]
        /\ m = n => (stage'[m] = "closed" => ~alive[m]) /\ (alive[m] => wake'[m])
    BY ZenonT(40), <1>1 DEF StackInv, SupervisorType
  <2>2. Loop(m)' /\ Absent(m)' /\ Woken(m)' /\ Handled(m)'
    BY Zenon, <1>1, <2>1 DEF NodeInv, Loop, Absent, Woken, Handled
  <2>3. Boxed(m)' /\ Unread(m)'
    BY Zenon, <1>1, <2>1 DEF NodeInv, Boxed, Waits, Unread
  <2> QED
    BY Zenon, <2>2, <2>3 DEF NodeInv
<1> QED
  BY Zenon, <1>2, <1>3 DEF StackInv

\* The supervisor of n is through with a request.
LEMMA Served ==
    ASSUME StackInv, NEW n \in Nodes, Waking(n) \/ step[n] = "drain", Batch(n) # <<>>,
           RequestDone(n), LeaverKept,
           UNCHANGED <<raw, stage, alive>>,
           conn' \in [Nodes -> Conns \union {None}],
           adm' \in [Nodes -> Conns \union {None}],
           owned' \in [Nodes -> SUBSET Conns],
           handles' \in [Nodes -> SUBSET (Conns \X Families)],
           phase' \in [Nodes -> [Conns -> {"none", "queued", "greeting", "boxed", "live", "over"}]],
           reader' \in [Nodes -> [Conns -> {"none", "run", "ended"}]],
           \A m \in Nodes \ {n} : /\ conn'[m] = conn[m] /\ adm'[m] = adm[m] /\ owned'[m] = owned[m]
                                  /\ handles'[m] = handles[m] /\ phase'[m] = phase[m]
                                  /\ UnreadKept(m),
           adm'[n] = None,
           \A c \in Conns :
              /\ phase'[n][c] = "boxed" <=> phase[n][c] = "boxed" /\ Batch(n)[1] # Attach(c)
              /\ phase'[n][c] = "live" <=> c = conn'[n]
              /\ phase'[n][c] \in {"none", "queued", "greeting", "boxed"}
                   => reader'[n][c] = reader[n][c] /\ phase'[n][c] = phase[n][c]
              /\ phase[n][c] = "none" => phase'[n][c] = "none",
           \A h \in handles'[n] : h[1] = conn'[n]
    PROVE  StackInv'
<1>1. NodeInv(n) /\ alive[n] /\ alive'[n]
  BY Zenon, BatchIs DEF StackInv
<1>2. /\ inbox' \in [Nodes -> Queue] /\ reqs' \in [Nodes -> Queue]
      /\ wake' \in [Nodes -> BOOLEAN] /\ step' \in [Nodes -> {"select", "drain", "exit"}]
      /\ \A m \in Nodes \ {n} : /\ inbox'[m] = inbox[m] /\ reqs'[m] = reqs[m]
                                /\ wake'[m] = wake[m] /\ step'[m] = step[m]
  BY ZenonT(40), RequestTaken
<1>3. /\ step'[n] # "drain" => reqs'[n] = <<>>
      /\ step'[n] = "drain" => reqs'[n] # <<>>
      /\ step'[n] = "exit" => conn'[n] = None
      /\ inbox'[n] # <<>> => inbox[n] # <<>> /\ wake'[n] = wake[n]
  BY Zenon, RequestTaken
<1>4. /\ \A x \in Held(inbox'[n]) : x \notin Held(reqs'[n])
      /\ \A x \in Tracked : /\ x \in Waits(n)' <=> x \in Waits(n) /\ Batch(n)[1] # x
                            /\ Batch(n)[1] = x => x \in Waits(n)
  BY Zenon, RequestTaken
<1>5. SupervisorType'
  BY Zenon, <1>2 DEF StackInv, SupervisorType, LeaverKept
<1>6. ASSUME NEW m \in Nodes, m # n PROVE NodeInv(m)'
  <2>1. Mine(m)' = Mine(m) /\ UnreadKept(m)
    <3>1. m \in Nodes \ {n}
      BY Zenon, <1>6
    <3> QED
      BY ZenonT(40), <1>2, <3>1 DEF Mine
  <2>2. RawKept
    BY Zenon DEF RawKept
  <2> QED
    BY Zenon, <2>1, <2>2, Untouched DEF StackInv
<1>7. NodeInv(n)'
  <2>1. Loop(n)' /\ Absent(n)' /\ Woken(n)' /\ Handled(n)'
    BY ZenonT(40), <1>1, <1>3 DEF NodeInv, Loop, Absent, Woken, Handled
  <2>2. Boxed(n)'
    <3>1. \A d \in Leavers : Leave(d) \in Waits(n)' => leaver'[d] # "idle"
      <4>1. \A d \in Leavers : Leave(d) \in Waits(n)' => Leave(d) \in Waits(n)
        BY Zenon, <1>4, Marks
      <4> QED
        BY ONLY StackInv, n \in Nodes, LeaverKept, <4>1, Phases DEF LeaverKept
    <3>2. ASSUME NEW c \in Conns PROVE phase'[n][c] = "boxed" <=> Attach(c) \in Waits(n)'
      <4>1. Attach(c) \in Tracked /\ (phase[n][c] = "boxed" <=> Attach(c) \in Waits(n))
        BY Zenon, Marks, Phases
      <4> QED
        BY Zenon, <1>4, <4>1
    <3> QED
      BY Zenon, <1>4, <3>1, <3>2 DEF Boxed
  <2>3. Unread(n)'
    <3>1. Unread(n) /\ raw' = raw
      BY Zenon, <1>1 DEF NodeInv
    <3>2. ASSUME NEW c \in Conns, phase'[n][c] \in {"none", "queued", "greeting", "boxed"}
          PROVE  reader'[n][c] = "none"
      <4>1. reader'[n][c] = reader[n][c] /\ phase'[n][c] = phase[n][c]
        BY Zenon, <3>2
      <4> QED
        BY ONLY <3>1, <3>2, <4>1, c \in Conns DEF Unread
    <3>3. ASSUME NEW c \in Conns, raw'[c] = "none" PROVE phase'[n][c] = "none"
      BY Zenon, <3>1, <3>3 DEF Unread
    <3> QED
      BY Zenon, <3>2, <3>3 DEF Unread
  <2> QED
    BY Zenon, <2>1, <2>2, <2>3 DEF NodeInv
<1> QED
  BY Zenon, <1>5, <1>6, <1>7 DEF StackInv

\* A supervisor with a view has the view's handles only; without one it has none.
LEMMA NoHandles ==
    ASSUME StackInv, NEW n \in Nodes, conn[n] = None
    PROVE  handles[n] = {}
<1>1. /\ handles[n] \subseteq (Conns \X Families)
      /\ \A h \in handles[n] : h[1] = None
  BY Zenon DEF StackInv, SupervisorType, NodeInv, Handled
<1>2. None \notin Conns
  BY ZenonT(40), StackAssumption
<1> QED
  BY Zenon, <1>1, <1>2

LEMMA InstallServed ==
    ASSUME StackInv, NEW n \in Nodes, NEW c \in Conns,
           Waking(n) \/ step[n] = "drain", Batch(n) # <<>>, Batch(n)[1] = Attach(c),
           conn[n] = None, Install(n, c),
           UNCHANGED <<raw, stage, alive, leaver>>,
           adm' \in [Nodes -> Conns \union {None}], adm'[n] = None,
           owned' \in [Nodes -> SUBSET Conns],
           \A m \in Nodes \ {n} : adm'[m] = adm[m] /\ owned'[m] = owned[m]
    PROVE  StackInv'
<1>1. /\ conn' = [conn EXCEPT ![n] = c]
      /\ handles' = [handles EXCEPT ![n] = @ \union ({c} \X Families)]
      /\ phase' = [phase EXCEPT ![n][c] = "live"]
      /\ reader' = [reader EXCEPT ![n][c] = IF Released(n, c) THEN "ended" ELSE "run"]
      /\ RequestDone(n)
  BY ZenonT(40) DEF Install
<1>2. SupervisorType /\ handles[n] = {}
  BY Zenon, NoHandles DEF StackInv
<1>3. /\ conn' \in [Nodes -> Conns \union {None}]
      /\ handles' \in [Nodes -> SUBSET (Conns \X Families)]
      /\ phase' \in [Nodes -> [Conns -> {"none", "queued", "greeting", "boxed", "live", "over"}]]
      /\ reader' \in [Nodes -> [Conns -> {"none", "run", "ended"}]]
      /\ LeaverKept
  BY ZenonT(40), <1>1, <1>2 DEF SupervisorType, LeaverKept
<1>4. \A m \in Nodes \ {n} : /\ conn'[m] = conn[m] /\ handles'[m] = handles[m]
                             /\ phase'[m] = phase[m] /\ UnreadKept(m)
  BY Zenon, <1>1, <1>2 DEF SupervisorType, UnreadKept
<1>5. /\ conn'[n] = c
      /\ phase'[n][c] = "live"
      /\ \A b \in Conns : b # c => phase'[n][b] = phase[n][b] /\ reader'[n][b] = reader[n][b]
      /\ \A h \in handles'[n] : h[1] = c
  BY Zenon, <1>1, <1>2 DEF SupervisorType
<1>6. /\ phase[n][c] = "boxed"
      /\ \A b \in Conns : phase[n][b] # "live"
  <2>1. Attach(c) \in Waits(n)
    BY Zenon, <1>1, RequestTaken, Marks
  <2>2. phase[n][c] = "boxed"
    BY Zenon, <2>1, Phases
  <2>3. ASSUME NEW b \in Conns PROVE phase[n][b] # "live"
    <3>1. b # conn[n]
      BY Zenon, NoneFresh
    <3>2. phase[n][b] = "live" => b = conn[n]
      BY Zenon, Phases
    <3> QED
      BY Zenon, <3>1, <3>2
  <2> QED
    BY Zenon, <2>2, <2>3
<1>7. \A b \in Conns :
         /\ phase'[n][b] = "boxed" <=> phase[n][b] = "boxed" /\ Batch(n)[1] # Attach(b)
         /\ phase'[n][b] = "live" <=> b = conn'[n]
         /\ phase'[n][b] \in {"none", "queued", "greeting", "boxed"}
              => reader'[n][b] = reader[n][b] /\ phase'[n][b] = phase[n][b]
         /\ phase[n][b] = "none" => phase'[n][b] = "none"
  <2> SUFFICES ASSUME NEW b \in Conns
               PROVE  /\ phase'[n][b] = "boxed" <=> phase[n][b] = "boxed" /\ Batch(n)[1] # Attach(b)
                      /\ phase'[n][b] = "live" <=> b = conn'[n]
                      /\ phase'[n][b] \in {"none", "queued", "greeting", "boxed"}
                           => reader'[n][b] = reader[n][b] /\ phase'[n][b] = phase[n][b]
                      /\ phase[n][b] = "none" => phase'[n][b] = "none"
    BY Zenon
  <2>1. CASE b = c
    BY Zenon, <2>1, <1>5, <1>6
  <2>2. CASE b # c
    <3>1. Batch(n)[1] # Attach(b)
      <4>1. Attach(c) # Attach(b)
        BY Zenon, <2>2, Marks
      <4> QED
        BY Zenon, <4>1
    <3> QED
      BY ZenonT(40), <2>2, <3>1, <1>5, <1>6
  <2> QED
    BY Zenon, <2>1, <2>2
<1>8. /\ \A m \in Nodes \ {n} : /\ conn'[m] = conn[m] /\ adm'[m] = adm[m] /\ owned'[m] = owned[m]
                                /\ handles'[m] = handles[m] /\ phase'[m] = phase[m]
                                /\ UnreadKept(m)
      /\ \A h \in handles'[n] : h[1] = conn'[n]
  BY Zenon, <1>4, <1>5
<1> QED
  BY Zenon, <1>1, <1>3, <1>7, <1>8, Served

LEMMA AdmitStep ==
    ASSUME StackInv, NEW n \in Nodes, Admit(n)
    PROVE  StackInv'
<1> DEFINE c == Batch(n)[1].conn
<1>1. /\ HeadIs(n, "attach") /\ conn[n] = None /\ Install(n, c)
      /\ owned' = [owned EXCEPT ![n] = @ \union {c}]
      /\ UNCHANGED <<raw, stage, alive, leaver, adm>>
  BY ZenonT(40) DEF Admit, connVars, leaveVars
<1>2. /\ Waking(n) \/ step[n] = "drain"
      /\ Batch(n) # <<>> /\ adm[n] = None /\ Batch(n)[1].op = "attach"
  BY Zenon, <1>1 DEF HeadIs
<1>3. c \in Conns /\ Batch(n)[1] = Attach(c)
  <2>1. Batch(n)[1] \in Requests
    BY Zenon, <1>1, <1>2, RequestTaken DEF Install
  <2> QED
    BY Zenon, <1>2, <2>1, Shapes
<1> HIDE DEF c
<1>4. /\ adm' \in [Nodes -> Conns \union {None}] /\ adm'[n] = None
      /\ owned' \in [Nodes -> SUBSET Conns]
      /\ \A m \in Nodes \ {n} : adm'[m] = adm[m] /\ owned'[m] = owned[m]
  BY ZenonT(40), <1>1, <1>2, <1>3 DEF StackInv, SupervisorType
<1> QED
  BY Zenon, <1>1, <1>2, <1>3, <1>4, InstallServed

LEMMA InstallReplacingStep ==
    ASSUME StackInv, NEW n \in Nodes, InstallReplacing(n)
    PROVE  StackInv'
<1> DEFINE c == adm[n]
<1>1. /\ c # None /\ Install(n, c)
      /\ adm' = [adm EXCEPT ![n] = None]
      /\ UNCHANGED <<raw, stage, alive, leaver, owned>>
  BY Zenon DEF InstallReplacing, connVars, stackVars, leaveVars
<1>2. /\ step[n] = "drain" /\ conn[n] = None /\ reqs[n][1] = Attach(c) /\ reqs[n] # <<>>
      /\ c \in Conns
  BY Zenon, <1>1 DEF StackInv, SupervisorType, NodeInv, Loop
<1>3. Batch(n) = reqs[n]
  BY Zenon, <1>2 DEF Batch
<1> HIDE DEF c
<1>4. /\ adm' \in [Nodes -> Conns \union {None}] /\ adm'[n] = None
      /\ owned' \in [Nodes -> SUBSET Conns]
      /\ \A m \in Nodes \ {n} : adm'[m] = adm[m] /\ owned'[m] = owned[m]
  BY Zenon, <1>1 DEF StackInv, SupervisorType
<1> QED
  BY Zenon, <1>1, <1>2, <1>3, <1>4, InstallServed

\* The head of the batch.
LEMMA HeadRequest ==
    ASSUME StackInv, NEW n \in Nodes, NEW op, HeadIs(n, op)
    PROVE  /\ Waking(n) \/ step[n] = "drain"
           /\ Batch(n) # <<>> /\ Batch(n) \in Queue
           /\ alive[n] /\ adm[n] = None
           /\ Batch(n)[1] \in Requests /\ Batch(n)[1].op = op
           /\ Batch(n)[1] \in Tracked => Batch(n)[1] \in Waits(n)
<1>1. /\ Waking(n) \/ step[n] = "drain"
      /\ Batch(n) # <<>> /\ adm[n] = None /\ Batch(n)[1].op = op
  BY Zenon DEF HeadIs
<1>2. /\ alive[n] /\ Batch(n) \in Queue
      /\ Waking(n) => Batch(n) = inbox[n]
      /\ ~Waking(n) => Batch(n) = reqs[n]
  BY Zenon, <1>1, BatchIs
<1>3. /\ Batch(n)[1] \in Requests
      /\ Batch(n)[1] \in Tracked => Batch(n)[1] \in Held(Batch(n))
  BY ZenonT(40), <1>1, <1>2, QueueTail
<1> QED
  BY Zenon, <1>1, <1>2, <1>3 DEF Waits

LEMMA RejectStep ==
    ASSUME StackInv, NEW n \in Nodes, NEW u \in BOOLEAN, Reject(n, u)
    PROVE  StackInv'
<1> DEFINE c == Batch(n)[1].conn
<1>1. /\ HeadIs(n, "attach") /\ RequestDone(n)
      /\ phase' = [phase EXCEPT ![n][c] = "over"]
      /\ UNCHANGED <<raw, reader, stage, alive, conn, adm, owned, handles, leaver>>
  BY Zenon DEF Reject, connVars, stackVars
<1>2. /\ Waking(n) \/ step[n] = "drain"
      /\ Batch(n) # <<>> /\ adm[n] = None
      /\ Batch(n)[1] \in Requests /\ Batch(n)[1].op = "attach"
      /\ Batch(n)[1] \in Tracked => Batch(n)[1] \in Waits(n)
  BY Zenon, <1>1, HeadRequest
<1>3. c \in Conns /\ Batch(n)[1] = Attach(c) /\ phase[n][c] = "boxed"
  <2>1. c \in Conns /\ Batch(n)[1] = Attach(c)
    BY Zenon, <1>2, Shapes
  <2> HIDE DEF c
  <2>2. Batch(n)[1] \in Tracked
    BY ONLY Zenon, <2>1, Marks
  <2>3. Attach(c) \in Waits(n)
    BY ONLY Zenon, <1>2, <2>1, <2>2
  <2> QED
    BY Zenon, <2>1, <2>3, Phases
<1> HIDE DEF c
<1>4. /\ phase' \in [Nodes -> [Conns -> {"none", "queued", "greeting", "boxed", "live", "over"}]]
      /\ \A m \in Nodes \ {n} : phase'[m] = phase[m] /\ UnreadKept(m)
      /\ phase'[n][c] = "over"
      /\ \A b \in Conns : b # c => phase'[n][b] = phase[n][b]
      /\ LeaverKept
  BY Zenon, <1>1, <1>3 DEF StackInv, SupervisorType, UnreadKept, LeaverKept
<1>5. \A b \in Conns : phase[n][b] = "live" <=> b = conn[n]
  BY Zenon, Phases
<1>6. \A b \in Conns :
         /\ phase'[n][b] = "boxed" <=> phase[n][b] = "boxed" /\ Batch(n)[1] # Attach(b)
         /\ phase'[n][b] = "live" <=> b = conn'[n]
         /\ phase'[n][b] \in {"none", "queued", "greeting", "boxed"}
              => reader'[n][b] = reader[n][b] /\ phase'[n][b] = phase[n][b]
         /\ phase[n][b] = "none" => phase'[n][b] = "none"
  <2> SUFFICES ASSUME NEW b \in Conns
               PROVE  /\ phase'[n][b] = "boxed" <=> phase[n][b] = "boxed" /\ Batch(n)[1] # Attach(b)
                      /\ phase'[n][b] = "live" <=> b = conn[n]
                      /\ phase'[n][b] \in {"none", "queued", "greeting", "boxed"}
                           => phase'[n][b] = phase[n][b]
                      /\ phase[n][b] = "none" => phase'[n][b] = "none"
    BY Zenon, <1>1
  <2>1. CASE b = c
    BY Zenon, <2>1, <1>3, <1>4, <1>5
  <2>2. CASE b # c
    <3>1. Batch(n)[1] # Attach(b)
      BY <2>2, <1>3, Marks
    <3> QED
      BY Zenon, <2>2, <3>1, <1>4, <1>5
  <2> QED
    BY Zenon, <2>1, <2>2
<1>7. \A h \in handles'[n] : h[1] = conn'[n]
  BY Zenon, <1>1 DEF StackInv, NodeInv, Handled
<1>8. /\ conn' \in [Nodes -> Conns \union {None}] /\ adm' \in [Nodes -> Conns \union {None}]
      /\ owned' \in [Nodes -> SUBSET Conns]
      /\ handles' \in [Nodes -> SUBSET (Conns \X Families)]
      /\ reader' \in [Nodes -> [Conns -> {"none", "run", "ended"}]]
      /\ adm'[n] = None
  BY ZenonT(40), <1>1, <1>2 DEF StackInv, SupervisorType
<1> QED
  BY Zenon, <1>1, <1>2, <1>4, <1>6, <1>7, <1>8, Served

\* What dropView does to the state of n.
LEMMA Dropped ==
    ASSUME StackInv, NEW n \in Nodes, conn[n] # None, NEW g, NEW d, DropView(n, g, d)
    PROVE  /\ conn[n] \in Conns
           /\ conn' \in [Nodes -> Conns \union {None}]
           /\ handles' \in [Nodes -> SUBSET (Conns \X Families)]
           /\ phase' \in [Nodes -> [Conns -> {"none", "queued", "greeting", "boxed", "live", "over"}]]
           /\ conn'[n] = None /\ handles'[n] = {} /\ phase'[n][conn[n]] = "over"
           /\ phase[n][conn[n]] = "live"
           /\ \A b \in Conns : b # conn[n] => phase'[n][b] = phase[n][b] /\ phase[n][b] # "live"
           /\ \A m \in Nodes \ {n} : /\ conn'[m] = conn[m] /\ handles'[m] = handles[m]
                                     /\ phase'[m] = phase[m]
<1>1. /\ handles' = [handles EXCEPT ![n] = {}]
      /\ phase' = [phase EXCEPT ![n][conn[n]] = "over"]
      /\ conn' = [conn EXCEPT ![n] = None]
  BY Zenon DEF DropView
<1>2. SupervisorType /\ conn[n] \in Conns
  BY ZenonT(40) DEF StackInv, SupervisorType
<1>3. \A b \in Conns : phase[n][b] = "live" <=> b = conn[n]
  BY Zenon, Phases
<1>4. /\ conn' \in [Nodes -> Conns \union {None}] /\ conn'[n] = None
      /\ handles' \in [Nodes -> SUBSET (Conns \X Families)] /\ handles'[n] = {}
      /\ \A m \in Nodes \ {n} : conn'[m] = conn[m] /\ handles'[m] = handles[m]
  BY Zenon, <1>1, <1>2 DEF SupervisorType
<1>5. /\ phase' \in [Nodes -> [Conns -> {"none", "queued", "greeting", "boxed", "live", "over"}]]
      /\ phase'[n][conn[n]] = "over"
      /\ \A b \in Conns : b # conn[n] => phase'[n][b] = phase[n][b]
      /\ \A m \in Nodes \ {n} : phase'[m] = phase[m]
  BY SMTT(20), <1>1, <1>2 DEF SupervisorType
<1> QED
  BY Zenon, <1>2, <1>3, <1>4, <1>5

LEMMA DropStep ==
    ASSUME StackInv, NEW n \in Nodes, Drop(n)
    PROVE  StackInv'
<1>1. PICK op \in {"leave", "close", "gone", "handles"} : HeadIs(n, op)
  BY Zenon DEF Drop
<1>2. PICK g, d : DropView(n, g, d)
  BY Zenon DEF Drop
<1>3. /\ conn[n] # None /\ RequestDone(n)
      /\ UNCHANGED <<raw, reader, stage, alive, adm, owned, leaver>>
  BY Zenon DEF Drop, connVars, stackVars, leaveVars
<1>4. /\ Waking(n) \/ step[n] = "drain"
      /\ Batch(n) # <<>> /\ adm[n] = None
      /\ Batch(n)[1].op = op
  BY Zenon, <1>1, HeadRequest
<1>5. \A b \in Conns : Batch(n)[1] # Attach(b)
  <2>1. \A o \in {"leave", "close", "gone", "handles"} : o # "attach"
    BY Zenon
  <2> QED
    BY Zenon, <1>4, <2>1, Marks
<1>6. /\ conn' \in [Nodes -> Conns \union {None}]
      /\ handles' \in [Nodes -> SUBSET (Conns \X Families)]
      /\ phase' \in [Nodes -> [Conns -> {"none", "queued", "greeting", "boxed", "live", "over"}]]
      /\ conn'[n] = None /\ handles'[n] = {} /\ phase'[n][conn[n]] = "over"
      /\ phase[n][conn[n]] = "live"
      /\ \A b \in Conns : b # conn[n] => phase'[n][b] = phase[n][b] /\ phase[n][b] # "live"
      /\ \A m \in Nodes \ {n} : /\ conn'[m] = conn[m] /\ handles'[m] = handles[m]
                                /\ phase'[m] = phase[m]
  BY ZenonT(40), <1>2, <1>3, Dropped
<1>7. \A b \in Conns :
         /\ phase'[n][b] = "boxed" <=> phase[n][b] = "boxed" /\ Batch(n)[1] # Attach(b)
         /\ phase'[n][b] = "live" <=> b = conn'[n]
         /\ phase'[n][b] \in {"none", "queued", "greeting", "boxed"}
              => reader'[n][b] = reader[n][b] /\ phase'[n][b] = phase[n][b]
         /\ phase[n][b] = "none" => phase'[n][b] = "none"
  <2>1. None \notin Conns
    BY Zenon, StackAssumption
  <2> QED
    BY ZenonT(40), <1>3, <1>5, <1>6, <2>1
<1>8. /\ adm' \in [Nodes -> Conns \union {None}] /\ adm'[n] = None
      /\ owned' \in [Nodes -> SUBSET Conns]
      /\ reader' \in [Nodes -> [Conns -> {"none", "run", "ended"}]]
      /\ LeaverKept
      /\ \A m \in Nodes \ {n} : adm'[m] = adm[m] /\ owned'[m] = owned[m] /\ UnreadKept(m)
  BY ZenonT(40), <1>3, <1>4 DEF StackInv, SupervisorType, LeaverKept, UnreadKept
<1>9. \A h \in handles'[n] : h[1] = conn'[n]
  BY Zenon, <1>6
<1> QED
  BY ZenonT(40), <1>3, <1>4, <1>6, <1>7, <1>8, <1>9, Served

LEMMA SkipStep ==
    ASSUME StackInv, NEW n \in Nodes, Skip(n)
    PROVE  StackInv'
<1>1. PICK op \in {"leave", "close", "gone", "handles"} : HeadIs(n, op)
  BY Zenon DEF Skip
<1>2. /\ RequestDone(n)
      /\ UNCHANGED <<raw, stage, alive, conn, adm, owned, handles, phase, reader>>
      /\ leaver' = leaver \/ \E d : leaver' = [leaver EXCEPT ![d] = "returned"]
  BY Zenon DEF Skip, connVars, endVars, stackVars
<1>3. /\ Waking(n) \/ step[n] = "drain"
      /\ Batch(n) # <<>> /\ adm[n] = None
      /\ Batch(n)[1].op = op
  BY Zenon, <1>1, HeadRequest
<1>4. \A b \in Conns : Batch(n)[1] # Attach(b)
  <2>1. \A o \in {"leave", "close", "gone", "handles"} : o # "attach"
    BY Zenon
  <2> QED
    BY Zenon, <1>3, <2>1, Marks
<1>5. LeaverKept
  BY ZenonT(40), <1>2 DEF StackInv, SupervisorType, LeaverKept
<1>6. /\ \A b \in Conns : phase[n][b] = "live" <=> b = conn[n]
      /\ \A h \in handles[n] : h[1] = conn[n]
  BY Zenon DEF StackInv, NodeInv, Boxed, Handled
<1>7. /\ conn' \in [Nodes -> Conns \union {None}] /\ adm' \in [Nodes -> Conns \union {None}]
      /\ owned' \in [Nodes -> SUBSET Conns]
      /\ handles' \in [Nodes -> SUBSET (Conns \X Families)]
      /\ phase' \in [Nodes -> [Conns -> {"none", "queued", "greeting", "boxed", "live", "over"}]]
      /\ reader' \in [Nodes -> [Conns -> {"none", "run", "ended"}]]
      /\ adm'[n] = None
      /\ \A m \in Nodes : UnreadKept(m)
  BY Zenon, <1>2, <1>3 DEF StackInv, SupervisorType, UnreadKept
<1> QED
  BY ZenonT(40), <1>2, <1>3, <1>4, <1>5, <1>6, <1>7, Served

LEMMA ReplaceStep ==
    ASSUME StackInv, NEW n \in Nodes, Replace(n)
    PROVE  StackInv'
<1> DEFINE c == Batch(n)[1].conn
           q == Batch(n)
<1>1. /\ HeadIs(n, "attach") /\ conn[n] # None /\ DropView(n, TRUE, None)
      /\ TakeBatch(n, q, "drain")
      /\ adm' = [adm EXCEPT ![n] = c]
      /\ owned' = [owned EXCEPT ![n] = @ \union {c}]
      /\ UNCHANGED <<raw, reader, stage, alive, leaver>>
  BY Zenon DEF Replace, connVars, leaveVars
<1>2. /\ Waking(n) \/ step[n] = "drain"
      /\ q # <<>> /\ q \in Queue /\ alive[n]
      /\ q[1] \in Requests /\ q[1].op = "attach"
      /\ q[1] \in Tracked => q[1] \in Waits(n)
  BY ZenonT(40), <1>1, HeadRequest
<1>3. c \in Conns /\ q[1] = Attach(c) /\ phase[n][c] = "boxed"
  <2>1. c \in Conns /\ q[1] = Attach(c)
    BY Zenon, <1>2, Shapes
  <2> QED
    BY <1>2, <2>1, Marks, Phases
<1>4. /\ Waking(n) => q = inbox[n] /\ reqs[n] = <<>>
      /\ ~Waking(n) => q = reqs[n]
  BY Zenon, <1>2, BatchIs
<1>5. /\ reqs' = [reqs EXCEPT ![n] = q]
      /\ step' = [step EXCEPT ![n] = "drain"]
      /\ inbox' = IF Waking(n) THEN [inbox EXCEPT ![n] = <<>>] ELSE inbox
      /\ wake' = IF Waking(n) THEN [wake EXCEPT ![n] = FALSE] ELSE wake
  BY Zenon, <1>1 DEF TakeBatch
<1> HIDE DEF c, q
<1>6. /\ conn' \in [Nodes -> Conns \union {None}]
      /\ handles' \in [Nodes -> SUBSET (Conns \X Families)]
      /\ phase' \in [Nodes -> [Conns -> {"none", "queued", "greeting", "boxed", "live", "over"}]]
      /\ conn'[n] = None /\ handles'[n] = {} /\ phase'[n][conn[n]] = "over"
      /\ phase[n][conn[n]] = "live"
      /\ \A b \in Conns : b # conn[n] => phase'[n][b] = phase[n][b] /\ phase[n][b] # "live"
      /\ \A m \in Nodes \ {n} : /\ conn'[m] = conn[m] /\ handles'[m] = handles[m]
                                /\ phase'[m] = phase[m]
  BY ZenonT(40), <1>1, Dropped
<1>7. /\ inbox' \in [Nodes -> Queue] /\ reqs' \in [Nodes -> Queue]
      /\ wake' \in [Nodes -> BOOLEAN] /\ step' \in [Nodes -> {"select", "drain", "exit"}]
      /\ adm' \in [Nodes -> Conns \union {None}] /\ owned' \in [Nodes -> SUBSET Conns]
      /\ \A m \in Nodes \ {n} : /\ inbox'[m] = inbox[m] /\ reqs'[m] = reqs[m]
                                /\ wake'[m] = wake[m] /\ step'[m] = step[m]
                                /\ adm'[m] = adm[m] /\ owned'[m] = owned[m]
      /\ reqs'[n] = q /\ step'[n] = "drain" /\ adm'[n] = c
      /\ inbox'[n] = IF Waking(n) THEN <<>> ELSE inbox[n]
      /\ inbox'[n] # <<>> => inbox[n] # <<>> /\ wake'[n] = wake[n]
  <2>1. SupervisorType
    BY ZenonT(40) DEF StackInv
  <2>2. /\ reqs' \in [Nodes -> Queue] /\ reqs'[n] = q
        /\ step' \in [Nodes -> {"select", "drain", "exit"}] /\ step'[n] = "drain"
        /\ \A m \in Nodes \ {n} : reqs'[m] = reqs[m] /\ step'[m] = step[m]
    BY Zenon, <1>2, <1>5, <2>1 DEF SupervisorType
  <2>3. /\ adm' \in [Nodes -> Conns \union {None}] /\ owned' \in [Nodes -> SUBSET Conns]
        /\ adm'[n] = c
        /\ \A m \in Nodes \ {n} : adm'[m] = adm[m] /\ owned'[m] = owned[m]
    BY <1>1, <1>3, <2>1 DEF SupervisorType
  <2>4. /\ inbox' \in [Nodes -> Queue] /\ wake' \in [Nodes -> BOOLEAN]
        /\ \A m \in Nodes \ {n} : inbox'[m] = inbox[m] /\ wake'[m] = wake[m]
        /\ inbox'[n] = IF Waking(n) THEN <<>> ELSE inbox[n]
        /\ inbox'[n] # <<>> => inbox[n] # <<>> /\ wake'[n] = wake[n]
    BY ZenonT(40), <1>5, <2>1, QueueEmpty DEF SupervisorType
  <2> QED
    BY Zenon, <2>2, <2>3, <2>4
<1>8. SupervisorType'
  BY Zenon, <1>1, <1>6, <1>7 DEF StackInv, SupervisorType
<1>9. ASSUME NEW m \in Nodes, m # n PROVE NodeInv(m)'
  <2>1. /\ Mine(m)' = Mine(m) /\ UnreadKept(m)
        /\ RawKept /\ LeaverKept
    <3>1. m \in Nodes \ {n}
      BY Zenon, <1>9
    <3>2. RawKept /\ LeaverKept /\ UnreadKept(m)
      BY Zenon, <1>1 DEF UnreadKept, RawKept, LeaverKept, StackInv, SupervisorType
    <3> QED
      BY Zenon, <1>1, <1>6, <1>7, <3>1, <3>2 DEF Mine
  <2> QED
    BY Zenon, <2>1, Untouched DEF StackInv
<1>10. NodeInv(n)'
  <2>1. NodeInv(n)
    BY Zenon DEF StackInv
  <2>2. Loop(n)' /\ Absent(n)' /\ Woken(n)' /\ Handled(n)'
    BY Zenon, <1>1, <1>2, <1>3, <1>6, <1>7, <2>1 DEF NodeInv, Loop, Absent, Woken, Handled
  <2>3. Held(inbox'[n]) \union Held(reqs'[n]) = Held(inbox[n]) \union Held(reqs[n])
    BY Zenon, <1>4, <1>7, QueueEmpty
  <2>4. \A x \in Held(inbox'[n]) : x \notin Held(reqs'[n])
    <3>1. CASE Waking(n)
      BY Zenon, <3>1, <1>7, QueueEmpty
    <3>2. CASE ~Waking(n)
      BY Zenon, <3>2, <1>4, <1>7, <2>1 DEF NodeInv, Boxed
    <3> QED
      BY Zenon, <3>1, <3>2
  <2>5. Boxed(n)'
    <3>1. Waits(n)' = Waits(n)
      BY Zenon, <2>3 DEF Waits
    <3>4. /\ conn'[n] = None /\ phase'[n][conn[n]] = "over" /\ phase[n][conn[n]] = "live"
          /\ \A b \in Conns : b # conn[n] => phase'[n][b] = phase[n][b] /\ phase[n][b] # "live"
      BY Zenon, <1>6
    <3>2. \A b \in Conns : phase'[n][b] = "live" <=> b = conn'[n]
      BY ONLY <3>4, NoneFresh
    <3>3. \A b \in Conns : phase'[n][b] = "boxed" <=> phase[n][b] = "boxed"
      BY ONLY <3>4
    <3> QED
      BY ZenonT(40), <1>1, <2>1, <2>4, <3>1, <3>2, <3>3 DEF NodeInv, Boxed
  <2>6. Unread(n)'
    BY Zenon, <1>1, <1>6, <2>1 DEF NodeInv, Unread
  <2> QED
    BY Zenon, <2>2, <2>5, <2>6 DEF NodeInv
<1> QED
  BY Zenon, <1>8, <1>9, <1>10 DEF StackInv

LEMMA ViewDoneStep ==
    ASSUME StackInv, NEW n \in Nodes, ViewDone(n)
    PROVE  StackInv'
<1>1. /\ step[n] = "select" /\ conn[n] # None /\ DropView(n, FALSE, None)
      /\ step' = [step EXCEPT ![n] = "exit"]
      /\ UNCHANGED <<raw, reader, stage, alive, inbox, wake, reqs, adm, owned, leaver>>
  BY Zenon DEF ViewDone, connVars, stackVars, leaveVars
<1>2. /\ conn' \in [Nodes -> Conns \union {None}]
      /\ handles' \in [Nodes -> SUBSET (Conns \X Families)]
      /\ phase' \in [Nodes -> [Conns -> {"none", "queued", "greeting", "boxed", "live", "over"}]]
      /\ conn'[n] = None /\ handles'[n] = {} /\ phase'[n][conn[n]] = "over"
      /\ phase[n][conn[n]] = "live"
      /\ \A b \in Conns : b # conn[n] => phase'[n][b] = phase[n][b] /\ phase[n][b] # "live"
      /\ \A m \in Nodes \ {n} : /\ conn'[m] = conn[m] /\ handles'[m] = handles[m]
                                /\ phase'[m] = phase[m]
  BY Zenon, <1>1, Dropped
<1>3. /\ step' \in [Nodes -> {"select", "drain", "exit"}]
      /\ step'[n] = "exit" /\ \A m \in Nodes \ {n} : step'[m] = step[m]
  BY Zenon, <1>1 DEF StackInv, SupervisorType
<1>4. SupervisorType'
  BY ZenonT(40), <1>1, <1>2, <1>3 DEF StackInv, SupervisorType
<1>5. ASSUME NEW m \in Nodes, m # n PROVE NodeInv(m)'
  <2>1. /\ Mine(m)' = Mine(m) /\ UnreadKept(m)
        /\ RawKept /\ LeaverKept
    BY <1>1, <1>2, <1>3, <1>5 DEF Mine, UnreadKept, RawKept, LeaverKept, StackInv, SupervisorType
  <2> QED
    BY Zenon, <2>1, Untouched DEF StackInv
<1>6. NodeInv(n)'
  <2>1. NodeInv(n)
    BY Zenon DEF StackInv
  <2>2. Loop(n)' /\ Absent(n)' /\ Woken(n)' /\ Handled(n)'
    BY Zenon, <1>1, <1>2, <1>3, <2>1 DEF NodeInv, Loop, Absent, Woken, Handled
  <2>3. Boxed(n)'
    <3>1. Waits(n)' = Waits(n)
      BY ZenonT(40), <1>1 DEF Waits
    <3>2. \A b \in Conns : phase'[n][b] = "live" <=> b = conn'[n]
      BY ONLY ZenonT(40), <1>2, NoneFresh
    <3>3. \A b \in Conns : phase'[n][b] = "boxed" <=> phase[n][b] = "boxed"
      BY ONLY Zenon, <1>2
    <3> QED
      BY ZenonT(40), <1>1, <2>1, <3>1, <3>2, <3>3 DEF NodeInv, Boxed
  <2>4. Unread(n)'
    BY Zenon, <1>1, <1>2, <2>1 DEF NodeInv, Unread
  <2> QED
    BY Zenon, <2>2, <2>3, <2>4 DEF NodeInv
<1> QED
  BY Zenon, <1>4, <1>5, <1>6 DEF StackInv

LEMMA TryExitStep ==
    ASSUME StackInv, NEW n \in Nodes, TryExit(n)
    PROVE  StackInv'
<1>1. /\ step[n] = "exit" /\ step' = [step EXCEPT ![n] = "select"]
      /\ alive' = [alive EXCEPT ![n] = ~(inbox[n] = <<>>)]
      /\ owned' = IF inbox[n] = <<>> THEN [owned EXCEPT ![n] = {}] ELSE owned
      /\ wake' = IF inbox[n] = <<>> THEN [wake EXCEPT ![n] = FALSE] ELSE wake
      /\ UNCHANGED <<raw, phase, reader, stage, inbox, reqs, conn, adm, handles, leaver>>
  BY Zenon DEF TryExit, connVars, endVars, stackVars, leaveVars
<1>2. SupervisorType'
  BY Zenon, <1>1 DEF StackInv, SupervisorType
<1>3. ASSUME NEW m \in Nodes, m # n PROVE NodeInv(m)'
  <2>1. /\ Mine(m)' = Mine(m) /\ UnreadKept(m)
        /\ RawKept /\ LeaverKept
    BY Zenon, <1>1, <1>3 DEF Mine, UnreadKept, RawKept, LeaverKept, StackInv, SupervisorType
  <2> QED
    BY Zenon, <2>1, Untouched DEF StackInv
<1>4. NodeInv(n)'
  <2>1. NodeInv(n) /\ reqs[n] = <<>> /\ conn[n] = None /\ adm[n] = None /\ alive[n]
    BY Zenon, <1>1 DEF StackInv, NodeInv, Loop
  <2>2. /\ step'[n] = "select" /\ (alive'[n] <=> inbox[n] # <<>>)
        /\ inbox[n] = <<>> => owned'[n] = {}
        /\ inbox[n] # <<>> => wake'[n] = wake[n]
    BY Zenon, <1>1 DEF StackInv, SupervisorType
  <2>3. Loop(n)' /\ Absent(n)' /\ Woken(n)' /\ Handled(n)'
    BY Zenon, <1>1, <2>1, <2>2 DEF NodeInv, Loop, Absent, Woken, Handled
  <2>4. Boxed(n)' /\ Unread(n)'
    BY Zenon, <1>1, <2>1 DEF NodeInv, Boxed, Waits, Unread
  <2> QED
    BY SMTT(20), <2>3, <2>4 DEF NodeInv
<1> QED
  BY Zenon, <1>2, <1>3, <1>4 DEF StackInv

-----------------------------------------------------------------------------
(* The theorems. *)

LEMMA StackInit ==
    ASSUME Init
    PROVE  StackInv
<1>1. SupervisorType
  BY Zenon, QueueEmpty, StackAssumption DEF Init, SupervisorType
<1>2. ASSUME NEW n \in Nodes PROVE NodeInv(n)
  <2>1. Loop(n) /\ Absent(n) /\ Woken(n) /\ Unread(n) /\ Handled(n)
    BY Zenon DEF Init, Loop, Absent, Woken, Unread, Handled
  <2>2. Waits(n) = {}
    BY Zenon, QueueEmpty DEF Init, Waits
  <2>3. Boxed(n)
    BY Zenon, <2>2, StackAssumption DEF Init, Boxed, Waits
  <2> QED
    BY Zenon, <2>1, <2>3 DEF NodeInv
<1> QED
  BY Zenon, <1>1, <1>2 DEF StackInv

LEMMA StackStep ==
    ASSUME StackInv, [Next]_vars
    PROVE  StackInv'
<1>1. CASE UNCHANGED vars
  <2>1. /\ RawKept /\ LeaverKept /\ raw' \in [Conns -> {"none", "up", "down"}]
        /\ UNCHANGED <<alive, wake, inbox, reqs, step, conn, adm, owned, handles, stage,
                       phase, reader>>
    BY Zenon, <1>1 DEF vars, connVars, endVars, stackVars, supVars, leaveVars, RawKept, LeaverKept,
                StackInv, SupervisorType
  <2> QED
    BY Zenon, <2>1, QuietStep
<1>2. CASE Environment
  <2>1. ASSUME NEW k \in Callers, Connect(k) \/ Cancel(k) PROVE StackInv'
    BY Zenon, <2>1, ConnectSteps
  <2>2. ASSUME NEW d \in Leavers, Disconnect(d) PROVE StackInv'
    BY Zenon, <2>2, DisconnectStep
  <2>3. ASSUME NEW n \in Nodes, CloseBegin(n) PROVE StackInv'
    BY Zenon, <2>3, CloseBeginStep
  <2>4. ASSUME NEW n \in Nodes, NEW f \in Families, PeerClose(n, f) PROVE StackInv'
    BY Zenon, <2>4, PeerCloseStep
  <2>5. ASSUME NEW c \in Conns, ConnDown(c) PROVE StackInv'
    BY Zenon, <2>5, ConnDownStep
  <2> QED
    BY Zenon, <1>2, <2>1, <2>2, <2>3, <2>4, <2>5 DEF Environment
<1>3. ASSUME NEW n \in Nodes, Local(n) PROVE StackInv'
  <2>1. CASE Supervise(n)
    BY Zenon, <2>1, AdmitStep, ReplaceStep, InstallReplacingStep, DropStep, SkipStep, ViewDoneStep,
       TryExitStep, RejectStep DEF Supervise
  <2>2. CASE Closing(n)
    BY Zenon, <2>2, ClosingSteps
  <2>3. ASSUME NEW c \in Conns, Handshake(n, c) PROVE StackInv'
    BY Zenon, <2>3, ReadHelloStep, HandshakeFailsStep DEF Handshake
  <2>4. ASSUME NEW c \in Conns, Goroutine(n, c) PROVE StackInv'
    BY Zenon, <2>4, CloseViewStep, ReadGoAwayStep DEF Goroutine
  <2> QED
    BY Zenon, <1>3, <2>1, <2>2, <2>3, <2>4 DEF Local
<1>4. ASSUME NEW k \in Callers, Calling(k) PROVE StackInv'
  <2>1. CASE \E c \in Conns, wrote, theirs \in BOOLEAN : Dial(k, c, wrote, theirs)
    BY Zenon, <2>1, DialStep
  <2>2. CASE \/ Connect(k) \/ Awaken(k) \/ WaitCancelled(k) \/ Finish(k)
             \/ \E l \in {left[k] - 1, 0} : DialFails(k, l)
    BY Zenon, <2>2, ConnectSteps
  <2> QED
    BY Zenon, <1>4, <2>1, <2>2 DEF Calling
<1> QED
  BY Zenon, <1>1, <1>2, <1>3, <1>4 DEF Next

\* The supervisor's bookkeeping (supervisor.go) keeps the inductive invariant:
\* its queues, its loop and its view fit together in every reachable state.
THEOREM StackInvariant == Spec => []StackInv
<1>1. Init => StackInv
  BY Zenon, StackInit
<1>2. StackInv /\ [Next]_vars => StackInv'
  BY Zenon, StackStep
<1> QED
  BY <1>1, <1>2, PTL DEF Spec

\* No request is lost: what post, Disconnect or Close leave in an inbox is in the
\* inbox of a registered supervisor that will look at it (supervisor.go:65-134).
THEOREM RequestsReachSupervisor == Spec => []NoLostRequest
<1>1. StackInv => NoLostRequest
  <2> SUFFICES ASSUME StackInv, NEW n \in Nodes, inbox[n] # <<>>
               PROVE  /\ alive[n]
                      /\ wake[n] \/ step[n] # "select" \/ stage[n] = "cancelled"
    BY Zenon DEF NoLostRequest
  <2>1. Absent(n) /\ Woken(n)
    BY Zenon DEF StackInv, NodeInv
  <2> QED
    BY Zenon, <2>1 DEF Absent, Woken
<1> QED
  BY <1>1, StackInvariant, PTL

-----------------------------------------------------------------------------
(* Stack implements PeerPresence. *)

\* The views admitted, and the nodes whose stack has closed, stay the same.
Unseen ==
    /\ \A m \in Nodes, b \in Conns : reader'[m][b] = "none" <=> reader[m][b] = "none"
    /\ \A m \in Nodes : stage'[m] = "closed" <=> stage[m] = "closed"

LEMMA UnseenSame ==
    ASSUME Unseen
    PROVE  UNCHANGED <<[n \in Nodes |-> {c \in Conns : reader[n][c] # "none"}],
                       {n \in Nodes : stage[n] = "closed"}>>
<1>1. \A n \in Nodes : {c \in Conns : reader'[n][c] # "none"} = {c \in Conns : reader[n][c] # "none"}
  BY Zenon DEF Unseen
<1>2. {n \in Nodes : stage'[n] = "closed"} = {n \in Nodes : stage[n] = "closed"}
  BY Zenon DEF Unseen
<1> QED
  BY Zenon, <1>1, <1>2

LEMMA PresenceStutters ==
    ASSUME handles' = handles, Unseen
    PROVE  UNCHANGED Presence!vars
BY Zenon, UnseenSame DEF Presence!vars

LEMMA PresenceEnds ==
    ASSUME SupervisorType, NEW n \in Nodes, NEW H \in SUBSET handles[n],
           handles' = [handles EXCEPT ![n] = H], Unseen
    PROVE  Presence!Next
<1>1. handles'[n] = H
  BY Zenon DEF SupervisorType
<1>2. handles'[n] \subseteq handles[n] /\ handles' = [handles EXCEPT ![n] = handles'[n]]
  BY Zenon, <1>1
<1>3. Presence!End(n)
  BY Zenon, <1>2, UnseenSame DEF Presence!End
<1> QED
  BY Zenon, <1>3 DEF Presence!Next

\* A view that is in the batch has not been admitted before.
LEMMA PresenceAdmits ==
    ASSUME StackInv, NEW n \in Nodes, NEW c \in Conns, Attach(c) \in Waits(n),
           alive[n], conn[n] = None, Install(n, c), UNCHANGED stage
    PROVE  Presence!Next
<1> DEFINE spent == [m \in Nodes |-> {b \in Conns : reader[m][b] # "none"}]
<1> DEFINE over == {m \in Nodes : stage[m] = "closed"}
<1>1. /\ handles' = [handles EXCEPT ![n] = @ \union ({c} \X Families)]
      /\ reader' = [reader EXCEPT ![n][c] = IF Released(n, c) THEN "ended" ELSE "run"]
  BY Zenon DEF Install
<1>2. handles[n] = {}
  BY Zenon, NoHandles
<1>3. handles' = [handles EXCEPT ![n] = {c} \X Families]
  BY Zenon, <1>1, <1>2
<1>4. reader[n][c] = "none" /\ stage[n] # "closed"
  BY Zenon DEF StackInv, NodeInv, Boxed, Unread, Absent
<1>5. n \notin over /\ c \notin spent[n] /\ over' = over
  BY Zenon, <1>4
<1>6. spent' = [spent EXCEPT ![n] = @ \union {c}]
  <2>1. ASSUME NEW m \in Nodes
        PROVE  {b \in Conns : reader'[m][b] # "none"} =
               IF m = n THEN {b \in Conns : reader[m][b] # "none"} \union {c}
                        ELSE {b \in Conns : reader[m][b] # "none"}
    <3>1. reader \in [Nodes -> [Conns -> {"none", "run", "ended"}]]
      BY Zenon DEF StackInv, SupervisorType
    <3>2. PICK v \in {"run", "ended"} : reader' = [reader EXCEPT ![n][c] = v]
      BY ZenonT(40), <1>1
    <3> QED
      BY Zenon, <3>1, <3>2
  <2> QED
    BY Zenon, <2>1
<1>7. Presence!Admit(n, c)
  BY Zenon, <1>2, <1>3, <1>5, <1>6 DEF Presence!Admit
<1> QED
  BY Zenon, <1>7 DEF Presence!Next

LEMMA PresenceInit ==
    ASSUME Init
    PROVE  Presence!Init
BY Zenon DEF Init, Presence!Init

LEMMA SupervisorPresence ==
    ASSUME StackInv, NEW n \in Nodes, Supervise(n)
    PROVE  Presence!Next \/ UNCHANGED Presence!vars
<1>1. CASE Admit(n)
  <2> DEFINE c == Batch(n)[1].conn
  <2>1. HeadIs(n, "attach") /\ conn[n] = None /\ Install(n, c) /\ UNCHANGED stage
    BY Zenon, <1>1 DEF Admit
  <2>2. alive[n] /\ Batch(n)[1] \in Requests /\ Batch(n)[1].op = "attach"
        /\ (Batch(n)[1] \in Tracked => Batch(n)[1] \in Waits(n))
    BY Zenon, <2>1, HeadRequest
  <2>3. c \in Conns /\ Batch(n)[1] = Attach(c) /\ Attach(c) \in Waits(n)
    BY ZenonT(40), <2>2 DEF Requests, Attach, Tracked
  <2> QED
    BY Zenon, <2>1, <2>2, <2>3, PresenceAdmits
<1>2. CASE InstallReplacing(n)
  <2>1. adm[n] # None /\ Install(n, adm[n]) /\ UNCHANGED stage
    BY Zenon, <1>2 DEF InstallReplacing, stackVars
  <2>2. /\ adm[n] \in Conns /\ conn[n] = None /\ alive[n]
        /\ reqs[n] \in Seq(Requests) /\ reqs[n] # <<>> /\ reqs[n][1] = Attach(adm[n])
    <3>1. Loop(n) /\ adm[n] \in Conns \union {None} /\ reqs[n] \in Queue
      BY ZenonT(40) DEF StackInv, SupervisorType, NodeInv
    <3> QED
      BY Zenon, <2>1, <3>1 DEF Loop, Queue
  <2>3. Attach(adm[n]) \in Waits(n)
    <3>0. reqs[n] \in Seq(Requests) /\ reqs[n] # <<>>
      BY Zenon, <2>2
    <3>1. 1 \in DOMAIN reqs[n]
      BY ONLY <3>0
    <3>2. Attach(adm[n]) \in Tracked
      BY Zenon, <2>2 DEF Tracked, Requests, Attach
    <3> QED
      BY Zenon, <3>1, <3>2, <2>2 DEF Waits, Held
  <2> QED
    BY Zenon, <2>1, <2>2, <2>3, PresenceAdmits
<1>3. CASE Replace(n) \/ Drop(n) \/ ViewDone(n)
  <2>1. handles' = [handles EXCEPT ![n] = {}] /\ UNCHANGED <<reader, stage>>
    BY Zenon, <1>3 DEF Replace, Drop, ViewDone, DropView, stackVars
  <2> QED
    BY ZenonT(40), <2>1, PresenceEnds DEF Unseen, StackInv
<1>4. CASE Skip(n) \/ TryExit(n) \/ \E unfit \in BOOLEAN : Reject(n, unfit)
  <2>1. UNCHANGED <<handles, reader, stage>>
    BY Zenon, <1>4 DEF Skip, TryExit, Reject, endVars, stackVars
  <2> QED
    BY ZenonT(40), <2>1, PresenceStutters DEF Unseen
<1> QED
  BY ZenonT(40), <1>1, <1>2, <1>3, <1>4 DEF Supervise

LEMMA PresenceStep ==
    ASSUME StackInv, [Next]_vars
    PROVE  Presence!Next \/ UNCHANGED Presence!vars
<1>1. CASE UNCHANGED <<handles, reader, stage>>
  BY Zenon, <1>1, PresenceStutters DEF Unseen
<1>2. CASE Environment
  <2>1. ASSUME NEW k \in Callers, Connect(k) \/ Cancel(k) PROVE UNCHANGED <<handles, reader, stage>>
    BY Zenon, <2>1 DEF Connect, Cancel, endVars, stackVars, supVars
  <2>2. ASSUME NEW d \in Leavers, Disconnect(d) PROVE UNCHANGED <<handles, reader, stage>>
    BY Zenon, <2>2 DEF Disconnect, endVars, stackVars
  <2>3. ASSUME NEW c \in Conns, ConnDown(c) PROVE UNCHANGED <<handles, reader, stage>>
    BY Zenon, <2>3 DEF ConnDown, endVars, stackVars, supVars
  <2>4. ASSUME NEW n \in Nodes, CloseBegin(n) PROVE UNCHANGED handles /\ Unseen
    BY Zenon, <2>4 DEF CloseBegin, endVars, Unseen, StackInv, SupervisorType
  <2>5. ASSUME NEW n \in Nodes, NEW f \in Families, PeerClose(n, f) PROVE Presence!Next
    <3>1. /\ handles' = [handles EXCEPT ![n] = handles[n] \ {<<conn[n], f>>}]
          /\ UNCHANGED <<reader, stage>>
      BY Zenon, <2>5 DEF PeerClose, endVars, stackVars
    <3>2. handles[n] \ {<<conn[n], f>>} \in SUBSET handles[n] /\ Unseen /\ SupervisorType
      BY Zenon, <3>1 DEF Unseen, StackInv
    <3> QED
      BY Zenon, <3>1, <3>2, PresenceEnds
  <2> QED
    BY SMTT(20), <1>1, <1>2, <2>1, <2>2, <2>3, <2>4, <2>5, PresenceStutters DEF Environment
<1>3. ASSUME NEW n \in Nodes, Closing(n) PROVE Presence!Next \/ UNCHANGED Presence!vars
  <2>1. CASE CloseSignal(n)
    <3>1. UNCHANGED handles /\ Unseen
      BY Zenon, <2>1 DEF CloseSignal, endVars, Unseen, StackInv, SupervisorType
    <3> QED
      BY Zenon, <3>1, PresenceStutters
  <2>2. CASE CloseReturn(n)
    <3>1. ~alive[n] /\ stage' = [stage EXCEPT ![n] = "closed"] /\ UNCHANGED <<handles, reader>>
      BY ZenonT(40), <2>2 DEF CloseReturn, endVars, supVars
    <3>2. handles[n] = {}
      BY Zenon, <3>1, NoHandles DEF StackInv, NodeInv, Absent
    <3>3. {m \in Nodes : stage'[m] = "closed"} = {m \in Nodes : stage[m] = "closed"} \union {n}
      <4>1. stage'[n] = "closed" /\ \A m \in Nodes \ {n} : stage'[m] = stage[m]
        BY ZenonT(40), <3>1 DEF StackInv, SupervisorType
      <4> QED
        BY Zenon, <4>1
    <3>4. Presence!Retire(n)
      BY Zenon, <3>1, <3>2, <3>3 DEF Presence!Retire
    <3> QED
      BY Zenon, <3>4 DEF Presence!Next
  <2> QED
    BY Zenon, <1>3, <2>1, <2>2 DEF Closing
<1>4. ASSUME NEW n \in Nodes, NEW c \in Conns, Handshake(n, c) \/ Goroutine(n, c)
      PROVE  UNCHANGED Presence!vars
  <2>1. UNCHANGED handles /\ stage' = stage
    BY Zenon, <1>4 DEF Handshake, Goroutine, ReadHello, HandshakeFails, CloseView, ReadGoAway,
                stackVars, supVars
  <2>2. CASE reader' = reader \/ \E g : CloseControl(n, c, g)
    <3>1. Unseen
      BY Zenon, <2>1, <2>2, CloseControlReads DEF Unseen, UnreadKept, StackInv
    <3> QED
      BY Zenon, <2>1, <3>1, PresenceStutters
  <2>3. CASE ReadGoAway(n, c)
    <3>1. Unseen
      BY Zenon, <2>1, <2>3 DEF ReadGoAway, Unseen, StackInv, SupervisorType
    <3> QED
      BY Zenon, <2>1, <3>1, PresenceStutters
  <2> QED
    <3>1. ASSUME NEW late \in BOOLEAN, ReadHello(n, c, late)
          PROVE  reader' = reader \/ \E g : CloseControl(n, c, g)
      BY Zenon, <3>1 DEF ReadHello
    <3>2. CASE HandshakeFails(n, c) \/ CloseView(n, c)
      BY Zenon, <2>2, <3>2 DEF HandshakeFails, CloseView
    <3> QED
      BY SMTT(20), <1>4, <2>2, <2>3, <3>1, <3>2 DEF Handshake, Goroutine
<1>5. ASSUME NEW k \in Callers, Calling(k) PROVE UNCHANGED <<handles, reader, stage>>
  BY Zenon, <1>5 DEF Calling, Awaken, WaitCancelled, Finish, Connect, Dial, DialFails, endVars,
              stackVars, supVars
<1>6. CASE UNCHANGED vars
  BY Zenon, <1>1, <1>6 DEF vars, endVars, stackVars, supVars
<1> QED
  BY Zenon, <1>1, <1>2, <1>3, <1>4, <1>5, <1>6, SupervisorPresence DEF Next, Local

\* What the protocol families of a node see of a peer is PeerPresence: handles of
\* one view at a time, each view once, and none once Close has returned, however
\* dials, HELLO, GOAWAY, Disconnect and Close interleave (supervisor.go:145-260).
THEOREM StackImplementsPresence == Spec => FamiliesSeeOneView
<1>1. Init => Presence!Init
  BY Zenon, PresenceInit
<1>2. StackInv /\ [Next]_vars => [Presence!Next]_(Presence!vars)
  BY Zenon, PresenceStep
<1>3. Spec => Init /\ [][Next]_vars
  BY Zenon DEF Spec
<1> QED
  BY <1>1, <1>2, <1>3, StackInvariant, PTL DEF FamiliesSeeOneView, Presence!Spec

=============================================================================
