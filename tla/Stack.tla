------------------------------- MODULE Stack -------------------------------
(***************************************************************************)
(* Two nodes' stacks and the views between them: Connect and its shared     *)
(* dials, the accept loop, the HELLO and GOAWAY exchange, each node's peer  *)
(* supervisor for the other node, Disconnect and Close (stack.go,           *)
(* supervisor.go, session.go).                                              *)
(*                                                                          *)
(* A step is one critical section of Stack.mu, or one step of a goroutine   *)
(* between two of them.  Close codes and record contents are left out: a    *)
(* GOAWAY, a FIN and a reset all end the peer's view.                       *)
(***************************************************************************)
EXTENDS Integers, Sequences, FiniteSets

CONSTANTS
    Nodes,          \* the two nodes
    Lower,          \* the one with the lower peer ID
    MaxConns,       \* bound: connections ever dialed
    Families,       \* families both nodes registered
    Callers,        \* calls of Connect
    Leavers,        \* calls of Disconnect
    LeaverNode,     \* the node a call of Disconnect is made at
    Scenes,         \* where Connect is called, the QUIC endpoints of a record,
                    \* the nodes whose stack may be closed, and the bound on
                    \* faults (failures, cancellations, Disconnects and Closes)
    None

Conns == 1..MaxConns

ASSUME StackAssumption ==
    /\ Cardinality(Nodes) = 2
    /\ Lower \in Nodes
    /\ MaxConns \in Nat
    /\ Scenes \subseteq [home : [Callers -> Nodes \union {None}],
                       endpoints : Nat, closable : SUBSET Nodes, faults : Nat]
    /\ LeaverNode \in [Leavers -> Nodes]
    /\ None \notin Conns /\ None \notin Nodes /\ None \notin Callers /\ None \notin Leavers

VARIABLES
    scene,      \* the scene that is played
    \* the connection, per connection
    raw,        \* "none", "up" or "down"
    dialer,     \* the node that dialed it
    \* a node's end of a connection, per node and connection
    phase,      \* where its view is
    out,        \* what the node wrote on its control stream
    reader,     \* the GOAWAY reader: "none", "run" or "ended"
    closer,     \* the releasing goroutine: "none", "bye", "fin" or "ended"
    waiting,    \* the Disconnect that waits for that goroutine
    \* a node's stack
    stage,      \* Stack.Close: "open", "cancelled", "signalled" or "closed"
    views,      \* Stack.views
    dial,       \* Stack.dials: the call of Connect that drives the dial
    \* a node's supervisor
    alive,      \* it is in Stack.peers
    inbox, wake, reqs, step, conn, info,
    adm,        \* the view attach has admitted and not yet installed
    owned,      \* the views this supervisor admitted
    handles,    \* <<view, family>> handles that have not ended
    \* calls
    at,         \* where a call of Connect is
    own,        \* the connection it drives
    left,       \* endpoints it has not tried
    quit,       \* its context is cancelled
    state,      \* dialAttempt.state of the dial it drives
    follows,    \* the driver whose dial it waits for
    result,     \* what it returned; for a driver also dialAttempt.err
    leaver,     \* a call of Disconnect: "idle", "wait" or "returned"
    before,     \* history: the views a Disconnect must end
    faults      \* how often something failed or somebody left

connVars == <<raw, dialer>>
endVars == <<phase, out, reader, closer, waiting>>
stackVars == <<stage, views, dial>>
supVars == <<alive, inbox, wake, reqs, step, conn, info, adm, owned, handles>>
callVars == <<at, own, left, quit, state, follows, result>>
leaveVars == <<leaver, before, faults>>
vars == <<scene, connVars, endVars, stackVars, supVars, callVars, leaveVars>>

Other(n) == CHOOSE m \in Nodes : m # n

\* The node a call of Connect is made at.
CallerNode(k) == scene.home[k]

Init ==
    /\ scene \in Scenes
    /\ raw = [c \in Conns |-> "none"]
    /\ dialer = [c \in Conns |-> None]
    /\ phase = [n \in Nodes |-> [c \in Conns |-> "none"]]
    /\ out = [n \in Nodes |-> [c \in Conns |-> "none"]]
    /\ reader = [n \in Nodes |-> [c \in Conns |-> "none"]]
    /\ closer = [n \in Nodes |-> [c \in Conns |-> "none"]]
    /\ waiting = [n \in Nodes |-> [c \in Conns |-> None]]
    /\ stage = [n \in Nodes |-> "open"]
    /\ views = [n \in Nodes |-> {}]
    /\ dial = [n \in Nodes |-> None]
    /\ alive = [n \in Nodes |-> FALSE]
    /\ inbox = [n \in Nodes |-> <<>>]
    /\ wake = [n \in Nodes |-> FALSE]
    /\ reqs = [n \in Nodes |-> <<>>]
    /\ step = [n \in Nodes |-> "select"]
    /\ conn = [n \in Nodes |-> None]
    /\ info = [n \in Nodes |-> None]
    /\ adm = [n \in Nodes |-> None]
    /\ owned = [n \in Nodes |-> {}]
    /\ handles = [n \in Nodes |-> {}]
    /\ at = [k \in Callers |-> "idle"]
    /\ own = [k \in Callers |-> None]
    /\ left = [k \in Callers |-> 0]
    /\ quit = [k \in Callers |-> FALSE]
    /\ state = [k \in Callers |-> "none"]
    /\ follows = [k \in Callers |-> None]
    /\ result = [k \in Callers |-> "none"]
    /\ leaver = [d \in Leavers |-> "idle"]
    /\ before = [d \in Leavers |-> {}]
    /\ faults = 0

-----------------------------------------------------------------------------
(* Shared steps. *)

\* A failure, or somebody leaving.
Fault ==
    /\ faults < scene.faults
    /\ faults' = faults + 1

Ended(n) == stage[n] # "open"

\* dialCtx: ended by the caller, Disconnect or Close.
DialEnded(k) == quit[k] \/ state[k] = "disconnected" \/ Ended(CallerNode(k))

\* The call of Connect at n that drives c.
Drives(k, n, c) == CallerNode(k) = n /\ own[k] = c

\* append and signal are one step: a signal that comes after run has drained the
\* inbox for another one makes it look at an empty inbox and go on.
Enqueue(n, r) ==
    /\ inbox' = [inbox EXCEPT ![n] = Append(@, r)]
    /\ wake' = [wake EXCEPT ![n] = TRUE]

Post(n, c, r) ==
    IF c \in owned[n] THEN Enqueue(n, r) ELSE UNCHANGED <<inbox, wake>>

\* The view is released, and its control session closed.
Released(n, c) == out[n][c] \in {"bye", "cut"}

\* controlSession.close: GOAWAY, and the reader cancelled, or only the FIN; then
\* the view's release.
CloseControl(n, c, goAway) ==
    IF Released(n, c)
      THEN UNCHANGED <<out, reader>>
      ELSE /\ out' = [out EXCEPT ![n][c] = "bye"]
           /\ reader' = IF goAway /\ reader[n][c] = "run"
                        THEN [reader EXCEPT ![n][c] = "ended"] ELSE reader

\* openControl writes our HELLO, or releases the view without GOAWAY.
Opened(wrote) == IF wrote THEN "greeting" ELSE "over"

Written(wrote) == IF wrote THEN "hello" ELSE "cut"

\* The driver of c at n goes on to the next endpoint, or leaves the loop.
DriverNext(n, c) ==
    at' = [k \in Callers |-> IF Drives(k, n, c) THEN "dialing" ELSE at[k]]

DriverBreak(n, c) ==
    at' = [k \in Callers |-> IF Drives(k, n, c) THEN "finishing" ELSE at[k]]

-----------------------------------------------------------------------------
(* Connect. *)

\* The top of Connect's loop.
Connect(k) ==
    LET n == CallerNode(k)
        Return(r) == /\ at' = [at EXCEPT ![k] = "returned"]
                     /\ result' = [result EXCEPT ![k] = r]
                     /\ UNCHANGED <<follows, dial, left, state>>
    IN /\ at[k] \in {"idle", "retry"}
       /\ n # None
       /\ CASE Ended(n) -> Return("error")
            [] ~Ended(n) /\ info[n] # None -> Return("nil")
            [] ~Ended(n) /\ info[n] = None /\ quit[k] -> Return("error")
            [] ~Ended(n) /\ info[n] = None /\ ~quit[k] /\ dial[n] # None ->
                 /\ at' = [at EXCEPT ![k] = "waiting"]
                 /\ follows' = [follows EXCEPT ![k] = dial[n]]
                 /\ UNCHANGED <<result, dial, left, state>>
            [] OTHER ->
                 /\ at' = [at EXCEPT ![k] = "dialing"]
                 /\ dial' = [dial EXCEPT ![n] = k]
                 /\ left' = [left EXCEPT ![k] = scene.endpoints]
                 /\ state' = [state EXCEPT ![k] = "inflight"]
                 /\ UNCHANGED <<result, follows>>
       /\ UNCHANGED <<scene, connVars, endVars, stage, views, supVars,
                      own, quit, leaveVars>>

\* A waiter after d.done; a driver that its caller cancelled leaves the dial to it.
Awaken(k) ==
    LET n == CallerNode(k)
        f == follows[k]
        r == IF info[n] # None THEN "nil" ELSE IF Ended(n) THEN "error" ELSE result[f]
        again == info[n] = None /\ ~Ended(n) /\ state[f] = "drivergone" /\ ~quit[k]
    IN /\ at[k] = "waiting"
       /\ at[f] = "returned"
       /\ at' = [at EXCEPT ![k] = IF again THEN "retry" ELSE "returned"]
       /\ result' = IF again THEN result ELSE [result EXCEPT ![k] = r]
       /\ UNCHANGED <<scene, connVars, endVars, stackVars, supVars, own, left,
                      quit, state, follows, leaveVars>>

WaitCancelled(k) ==
    /\ at[k] = "waiting"
    /\ quit[k]
    /\ at' = [at EXCEPT ![k] = "returned"]
    /\ result' = [result EXCEPT ![k] = "error"]
    /\ UNCHANGED <<scene, connVars, endVars, stackVars, supVars, own, left, quit,
                   state, follows, leaveVars>>

\* The caller's context ends.
Cancel(k) ==
    /\ ~quit[k]
    /\ at[k] \notin {"idle", "returned"}
    /\ quit' = [quit EXCEPT ![k] = TRUE]
    /\ Fault
    /\ UNCHANGED <<scene, connVars, endVars, stackVars, supVars, at, own, left,
                   state, follows, result, leaver, before>>

\* The next connection to be dialed.
IsNext(c) == raw[c] = "none" /\ \A b \in 1..(c - 1) : raw[b] # "none"

\* One endpoint: the transport connects, and the peer's accept loop takes the
\* view.  At each end openControl writes HELLO.
Dial(k, c, wrote, theirs) ==
    LET n == CallerNode(k)
        m == Other(n)
    IN /\ at[k] = "dialing"
       /\ left[k] > 0
       /\ ~DialEnded(k)
       /\ IsNext(c)
       /\ raw' = [raw EXCEPT ![c] = "up"]
       /\ dialer' = [dialer EXCEPT ![c] = n]
       /\ phase' = [phase EXCEPT ![n][c] = Opened(wrote),
                                 ![m][c] = IF Ended(m) THEN "queued" ELSE Opened(theirs)]
       /\ out' = [out EXCEPT ![n][c] = Written(wrote),
                             ![m][c] = IF Ended(m) THEN "none" ELSE Written(theirs)]
       /\ IF wrote /\ theirs THEN UNCHANGED faults ELSE Fault
       /\ own' = [own EXCEPT ![k] = c]
       /\ at' = [at EXCEPT ![k] = IF wrote THEN "greeting" ELSE "dialing"]
       /\ left' = [left EXCEPT ![k] = @ - 1]
       /\ UNCHANGED <<scene, reader, closer, waiting, stackVars, supVars, quit, state,
                      follows, result, leaver, before>>

\* The endpoint cannot be reached, or (left: 0) its peer speaks libp2p only.
DialFails(k, l) ==
    /\ at[k] = "dialing"
    /\ left[k] > 0
    /\ ~DialEnded(k)
    /\ l < left[k]
    /\ left' = [left EXCEPT ![k] = l]
    /\ Fault
    /\ UNCHANGED <<scene, connVars, endVars, stackVars, supVars, at, own, quit,
                   state, follows, result, leaver, before>>

\* The end of Connect's loop: what the call, and everyone waiting, returns.
Finish(k) ==
    LET n == CallerNode(k)
        linked == ~Ended(n) /\ info[n] # None
    IN /\ \/ at[k] = "finishing"
          \/ at[k] = "dialing" /\ (left[k] = 0 \/ DialEnded(k))
       /\ result' = [result EXCEPT ![k] = IF linked THEN "nil" ELSE "error"]
       /\ state' = [state EXCEPT ![k] =
            IF ~Ended(n) /\ ~linked /\ @ # "disconnected" /\ quit[k] THEN "drivergone"
            ELSE IF @ = "inflight" THEN "done" ELSE @]
       /\ dial' = [dial EXCEPT ![n] = None]
       /\ at' = [at EXCEPT ![k] = "returned"]
       /\ own' = [own EXCEPT ![k] = None]
       /\ left' = [left EXCEPT ![k] = 0]
       /\ UNCHANGED <<scene, connVars, endVars, stage, views, supVars, quit,
                      follows, leaveVars>>

-----------------------------------------------------------------------------
(* The handshake. *)

HandshakeEnded(n, c) ==
    IF dialer[c] = n THEN \E k \in Callers : Drives(k, n, c) /\ DialEnded(k)
                     ELSE Ended(n)

\* awaitHello reads the peer's HELLO and attach hands the view to the
\* supervisor, or releases it when the stack has closed meanwhile.  A context
\* that ends as the read returns may still run its callback, which closes the
\* view that attach hands over.
ReadHello(n, c, late) ==
    /\ phase[n][c] = "greeting"
    /\ out[Other(n)][c] \in {"hello", "bye"}
    /\ raw[c] = "up"
    /\ late => HandshakeEnded(n, c)
    /\ IF Ended(n)
         THEN /\ phase' = [phase EXCEPT ![n][c] = "over"]
              /\ CloseControl(n, c, TRUE)
              /\ DriverBreak(n, c)
              /\ UNCHANGED <<alive, inbox, wake>>
         ELSE /\ phase' = [phase EXCEPT ![n][c] = "boxed"]
              /\ alive' = [alive EXCEPT ![n] = TRUE]
              /\ Enqueue(n, [op |-> "attach", conn |-> c])
              /\ IF late THEN CloseControl(n, c, TRUE) ELSE UNCHANGED <<out, reader>>
              /\ at' = [k \in Callers |-> IF Drives(k, n, c) THEN "result" ELSE at[k]]
    /\ UNCHANGED <<scene, connVars, closer, waiting, stackVars, reqs, step,
                   conn, info, adm, owned, handles, own, left, quit, state,
                   follows, result, leaveVars>>

\* The HELLO deadline passes, the context ends, or the connection does (whose
\* view then needs no release).
HandshakeFails(n, c) ==
    /\ phase[n][c] = "greeting"
    /\ phase' = [phase EXCEPT ![n][c] = "over"]
    /\ CloseControl(n, c, TRUE)
    /\ DriverNext(n, c)
    /\ IF \/ HandshakeEnded(n, c)
          \/ raw[c] = "down"
          \/ out[Other(n)][c] \in {"none", "cut"}
         THEN UNCHANGED faults
         ELSE Fault
    /\ UNCHANGED <<scene, connVars, closer, waiting, stackVars, supVars, own, left,
                   quit, state, follows, result, leaver, before>>

-----------------------------------------------------------------------------
(* The peer supervisor. *)

\* run handles a batch of requests: drainInbox takes the whole inbox on a wake,
\* with the first request of it handled in the same step.
Waking(n) == alive[n] /\ step[n] = "select" /\ wake[n]

Batch(n) == IF step[n] = "select" THEN inbox[n] ELSE reqs[n]

\* The request at hand, once attach is through with the view it admitted.
HeadIs(n, op) ==
    /\ Waking(n) \/ step[n] = "drain"
    /\ adm[n] = None
    /\ Batch(n) # <<>>
    /\ Batch(n)[1].op = op

\* run selects again, or, without a view, tries to exit.
LoopEnd(n) == IF conn'[n] # None THEN "select" ELSE "exit"

TakeBatch(n, rest, next) ==
    /\ reqs' = [reqs EXCEPT ![n] = rest]
    /\ step' = [step EXCEPT ![n] = next]
    /\ inbox' = IF Waking(n) THEN [inbox EXCEPT ![n] = <<>>] ELSE inbox
    /\ wake' = IF Waking(n) THEN [wake EXCEPT ![n] = FALSE] ELSE wake

RequestDone(n) ==
    TakeBatch(n, Tail(Batch(n)), IF Len(Batch(n)) > 1 THEN "drain" ELSE LoopEnd(n))

\* dropView with a view: its handles end, and a goroutine releases it.
DropView(n, goAway, d) ==
    /\ handles' = [handles EXCEPT ![n] = {}]
    /\ phase' = [phase EXCEPT ![n][conn[n]] = "over"]
    /\ conn' = [conn EXCEPT ![n] = None]
    /\ info' = [info EXCEPT ![n] = None]
    /\ closer' = [closer EXCEPT ![n][conn[n]] = IF goAway THEN "bye" ELSE "fin"]
    /\ waiting' = [waiting EXCEPT ![n][conn[n]] = d]

\* The view dialed by the lower peer ID is kept; in one direction the newer is.
Loses(n, c) ==
    /\ conn[n] # None
    /\ dialer[info[n]] # dialer[c]
    /\ (dialer[c] = n) # (n = Lower)

\* Mutant: attach does not look at the dial record.
RefusedClosed(n, c) == Ended(n)

Refused(n, c) ==
    \/ Ended(n)
    \/ dialer[c] = n /\ dial[n] # None /\ state[dial[n]] = "disconnected"

\* attach rejects a view: a goroutine releases it.  A view is unfit when its
\* HELLO has a bad record or no shared family.  A duplicate is no error.
Reject(n, unfit) ==
    LET c == Batch(n)[1].conn
    IN /\ HeadIs(n, "attach")
       /\ unfit \/ Refused(n, c) \/ Loses(n, c)
       /\ phase' = [phase EXCEPT ![n][c] = "over"]
       /\ closer' = [closer EXCEPT ![n][c] = "bye"]
       /\ IF unfit \/ Refused(n, c) THEN DriverNext(n, c) ELSE DriverBreak(n, c)
       /\ IF unfit THEN Fault ELSE UNCHANGED faults
       /\ UNCHANGED <<scene, connVars, out, reader, waiting, stackVars, alive,
                      conn, info, adm, owned, handles, own, left, quit, state,
                      follows, result, leaver, before>>
       /\ RequestDone(n)

\* The admitted view is installed: info, handles, the GOAWAY reader, and the
\* answer to Connect.
Install(n, c) ==
    /\ conn' = [conn EXCEPT ![n] = c]
    /\ info' = [info EXCEPT ![n] = c]
    /\ handles' = [handles EXCEPT ![n] = @ \union ({c} \X Families)]
    /\ phase' = [phase EXCEPT ![n][c] = "live"]
    /\ reader' = [reader EXCEPT ![n][c] = IF Released(n, c) THEN "ended" ELSE "run"]
    /\ DriverBreak(n, c)
    /\ RequestDone(n)

\* attach admits a view when the peer has none.
Admit(n) ==
    LET c == Batch(n)[1].conn
    IN /\ HeadIs(n, "attach")
       /\ ~Refused(n, c)
       /\ conn[n] = None
       /\ Install(n, c)
       /\ views' = [views EXCEPT ![n] = @ \union {c}]
       /\ owned' = [owned EXCEPT ![n] = @ \union {c}]
       /\ UNCHANGED <<scene, connVars, out, closer, waiting, stage,
                      dial, alive, adm, own, left, quit, state, follows,
                      result, leaveVars>>

\* Mutant: the replaced view is dropped after the new one is installed.
ReplaceLate(n) ==
    LET c == Batch(n)[1].conn
    IN /\ HeadIs(n, "attach")
       /\ ~Refused(n, c)
       /\ conn[n] # None
       /\ ~Loses(n, c)
       /\ adm' = [adm EXCEPT ![n] = c]
       /\ TakeBatch(n, Batch(n), "drain")
       /\ views' = [views EXCEPT ![n] = @ \union {c}]
       /\ owned' = [owned EXCEPT ![n] = @ \union {c}]
       /\ UNCHANGED <<scene, connVars, endVars, stage, dial, conn, info, handles,
                      alive, callVars, leaveVars>>

\* attach admits a view that replaces another: the other one is dropped first,
\* which leaves the peer without info until the new view is installed.
Replace(n) ==
    LET c == Batch(n)[1].conn
    IN /\ HeadIs(n, "attach")
       /\ ~Refused(n, c)
       /\ conn[n] # None
       /\ ~Loses(n, c)
       /\ DropView(n, TRUE, None)
       /\ TakeBatch(n, Batch(n), "drain")
       /\ adm' = [adm EXCEPT ![n] = c]
       /\ views' = [views EXCEPT ![n] = @ \union {c}]
       /\ owned' = [owned EXCEPT ![n] = @ \union {c}]
       /\ UNCHANGED <<scene, connVars, out, reader, stage, dial,
                      alive, callVars, leaveVars>>

InstallReplacing(n) ==
    /\ adm[n] # None
    /\ Install(n, adm[n])
    /\ adm' = [adm EXCEPT ![n] = None]
    /\ UNCHANGED <<scene, connVars, out, closer, waiting, stackVars, alive,
                   owned, own, left, quit, state, follows,
                   result, leaveVars>>

\* The requests that may drop the view: Disconnect's and Close's, a GOAWAY read
\* on it, and the end of its last handle.
Drop(n) ==
    LET r == Batch(n)[1]
    IN /\ \/ HeadIs(n, "leave")
          \/ HeadIs(n, "close")
          \/ HeadIs(n, "gone") /\ conn[n] = r.conn
          \/ HeadIs(n, "handles") /\ handles[n] = {}
       /\ conn[n] # None
       /\ DropView(n, r.op # "gone", IF r.op = "leave" THEN r.by ELSE None)
       /\ RequestDone(n)
       /\ UNCHANGED <<scene, connVars, out, reader, stackVars, alive,
                      adm, owned, callVars, leaveVars>>

\* Mutant: dropView without a view leaves done open.
SkipSilent(n) ==
    LET r == Batch(n)[1]
    IN /\ \/ HeadIs(n, "leave") /\ conn[n] = None
          \/ HeadIs(n, "close") /\ conn[n] = None
          \/ HeadIs(n, "gone") /\ conn[n] # r.conn
          \/ HeadIs(n, "handles") /\ (conn[n] = None \/ handles[n] # {})
       /\ UNCHANGED <<scene, connVars, endVars, stackVars, alive, conn, info, adm,
                      owned, handles, callVars, leaveVars>>
       /\ RequestDone(n)

\* The same requests with nothing to drop.
Skip(n) ==
    LET r == Batch(n)[1]
    IN /\ \/ HeadIs(n, "leave") /\ conn[n] = None
          \/ HeadIs(n, "close") /\ conn[n] = None
          \/ HeadIs(n, "gone") /\ conn[n] # r.conn
          \/ HeadIs(n, "handles") /\ (conn[n] = None \/ handles[n] # {})
       /\ leaver' = IF r.op = "leave" THEN [leaver EXCEPT ![r.by] = "returned"] ELSE leaver
       /\ UNCHANGED <<scene, connVars, endVars, stackVars, alive, conn,
                      info, adm, owned, handles, callVars, before, faults>>
       /\ RequestDone(n)

\* run sees the view's Done.
ViewDone(n) ==
    LET c == conn[n]
    IN /\ step[n] = "select"
       /\ c # None
       /\ raw[c] = "down" \/ Released(n, c)
       /\ DropView(n, FALSE, None)
       /\ step' = [step EXCEPT ![n] = "exit"]
       /\ UNCHANGED <<scene, connVars, out, reader, stackVars, alive,
                      inbox, wake, reqs, adm, owned, callVars, leaveVars>>

\* Mutant: run exits without a look at the inbox.
ExitBlind(n) ==
    /\ step[n] = "exit"
    /\ step' = [step EXCEPT ![n] = "select"]
    /\ alive' = [alive EXCEPT ![n] = FALSE]
    /\ owned' = [owned EXCEPT ![n] = {}]
    /\ wake' = [wake EXCEPT ![n] = FALSE]
    /\ UNCHANGED <<scene, connVars, endVars, stackVars, inbox, reqs, conn, info,
                   adm, handles, callVars, leaveVars>>

\* The bottom of run's loop without a view: tryExit.
TryExit(n) ==
    LET exit == inbox[n] = <<>>
    IN /\ step[n] = "exit"
       /\ step' = [step EXCEPT ![n] = "select"]
       /\ alive' = [alive EXCEPT ![n] = ~exit]
       /\ owned' = IF exit THEN [owned EXCEPT ![n] = {}] ELSE owned
       /\ wake' = IF exit THEN [wake EXCEPT ![n] = FALSE] ELSE wake
       /\ UNCHANGED <<scene, connVars, endVars, stackVars, inbox, reqs, conn, info,
                      adm, handles, callVars, leaveVars>>

-----------------------------------------------------------------------------
(* The goroutines of a view, and its families. *)

\* closeView's goroutine, or reject's: close, account, answer Disconnect.
CloseView(n, c) ==
    LET d == waiting[n][c]
    IN /\ closer[n][c] \in {"bye", "fin"}
       /\ CloseControl(n, c, closer[n][c] = "bye")
       /\ closer' = [closer EXCEPT ![n][c] = "ended"]
       /\ views' = [views EXCEPT ![n] = @ \ {c}]
       /\ leaver' = IF d # None THEN [leaver EXCEPT ![d] = "returned"] ELSE leaver
       /\ UNCHANGED <<scene, connVars, phase, waiting, stage, dial, supVars,
                      callVars, before, faults>>

\* Mutant: the peer's GOAWAY is read and forgotten.
GoAwayForgotten(n, c) ==
    /\ raw[c] = "up"
    /\ reader[n][c] = "run"
    /\ out[Other(n)][c] = "bye"
    /\ ~Released(n, c)
    /\ reader' = [reader EXCEPT ![n][c] = "ended"]
    /\ UNCHANGED <<scene, connVars, phase, out, closer, waiting, stackVars, supVars,
                   callVars, leaveVars>>

\* readGoAway returns: the peer ended its control stream, and the view with it.
ReadGoAway(n, c) ==
    /\ raw[c] = "up"
    /\ reader[n][c] = "run"
    /\ out[Other(n)][c] = "bye"
    /\ ~Released(n, c)
    /\ reader' = [reader EXCEPT ![n][c] = "ended"]
    /\ Post(n, c, [op |-> "gone", conn |-> c])
    /\ UNCHANGED <<scene, connVars, phase, out, closer, waiting,
                   stackVars, alive, reqs, step, conn, info, adm, owned, handles,
                   callVars, leaveVars>>

\* readGoAway still waits: the peer has not ended its control stream and the
\* connection is up.
Reading(n, c) ==
    /\ reader[n][c] = "run"
    /\ out[Other(n)][c] = "hello"
    /\ raw[c] = "up"

\* A family closes its handle (Peer.Close).
PeerClose(n, f) ==
    /\ conn[n] # None
    /\ <<conn[n], f>> \in handles[n]
    /\ handles' = [handles EXCEPT ![n] = @ \ {<<conn[n], f>>}]
    /\ Post(n, conn[n], [op |-> "handles"])
    /\ Fault
    /\ UNCHANGED <<scene, connVars, endVars, stackVars, alive, reqs, step, conn, info,
                   adm, owned, callVars, leaver, before>>

\* The connection ends under its views.
ConnDown(c) ==
    /\ raw[c] = "up"
    /\ raw' = [raw EXCEPT ![c] = "down"]
    /\ Fault
    /\ UNCHANGED <<scene, dialer, endVars, stackVars, supVars, callVars, leaver, before>>

-----------------------------------------------------------------------------
(* Disconnect and Close. *)

\* Disconnect's critical section marks the dial and posts the request, or
\* returns when the peer has no supervisor.
Disconnect(d) ==
    LET n == LeaverNode[d]
        k == dial[n]
        abandoned == k # None /\ state[k] = "inflight"
    IN /\ leaver[d] = "idle"
       /\ state' = IF abandoned THEN [state EXCEPT ![k] = "disconnected"] ELSE state
       /\ before' = [before EXCEPT ![d] =
            {c \in Conns : \/ phase[n][c] \in {"boxed", "live"}
                           \/ phase[n][c] = "greeting" /\ dialer[c] = n}]
       /\ leaver' = [leaver EXCEPT ![d] = IF alive[n] THEN "wait" ELSE "returned"]
       /\ IF alive[n] THEN Enqueue(n, [op |-> "leave", by |-> d])
                      ELSE UNCHANGED <<inbox, wake>>
       /\ Fault
       /\ UNCHANGED <<scene, connVars, endVars, stackVars, alive, reqs, step, conn,
                      info, adm, owned, handles, at, own, left, quit, follows, result>>

\* Close's critical section: contexts end and the supervisor gets a request,
\* but no signal yet.
CloseBegin(n) ==
    /\ stage[n] = "open"
    /\ n \in scene.closable
    /\ stage' = [stage EXCEPT ![n] = "cancelled"]
    /\ inbox' = IF alive[n] THEN [inbox EXCEPT ![n] = Append(@, [op |-> "close"])] ELSE inbox
    /\ Fault
    /\ UNCHANGED <<scene, connVars, endVars, views, dial, alive, wake, reqs,
                   step, conn, info, adm, owned, handles, callVars, leaver, before>>

\* The accept loop has ended, and the supervisor is woken.
CloseSignal(n) ==
    /\ stage[n] = "cancelled"
    /\ stage' = [stage EXCEPT ![n] = "signalled"]
    /\ wake' = IF alive[n] THEN [wake EXCEPT ![n] = TRUE] ELSE wake
    /\ UNCHANGED <<scene, connVars, endVars, views, dial, alive, inbox, reqs,
                   step, conn, info, adm, owned, handles, callVars, leaveVars>>

\* wg: inbound handshakes, the supervisor, readers and releasing goroutines.
CloseReturn(n) ==
    /\ stage[n] = "signalled"
    /\ ~alive[n]
    /\ \A c \in Conns :
         /\ dialer[c] # n => phase[n][c] # "greeting"
         /\ ~Reading(n, c)
         /\ closer[n][c] \notin {"bye", "fin"}
    /\ stage' = [stage EXCEPT ![n] = "closed"]
    /\ UNCHANGED <<scene, connVars, endVars, views, dial, supVars, callVars, leaveVars>>

-----------------------------------------------------------------------------
Supervise(n) ==
    \/ Admit(n) \/ Replace(n) \/ InstallReplacing(n)
    \/ Drop(n) \/ Skip(n) \/ ViewDone(n) \/ TryExit(n)
    \/ \E unfit \in BOOLEAN : Reject(n, unfit)

Handshake(n, c) ==
    \/ \E late \in BOOLEAN : ReadHello(n, c, late)
    \/ HandshakeFails(n, c)

Goroutine(n, c) == CloseView(n, c) \/ ReadGoAway(n, c)

Closing(n) == CloseSignal(n) \/ CloseReturn(n)

Calling(k) ==
    \/ Awaken(k) \/ WaitCancelled(k) \/ Finish(k)
    \/ at[k] = "retry" /\ Connect(k)
    \/ \E c \in Conns, wrote, theirs \in BOOLEAN : Dial(k, c, wrote, theirs)
    \/ \E l \in {left[k] - 1, 0} : DialFails(k, l)

\* What the environment decides: calls, cancellations and failures.
Environment ==
    \/ \E k \in Callers : Connect(k) \/ Cancel(k)
    \/ \E d \in Leavers : Disconnect(d)
    \/ \E n \in Nodes : CloseBegin(n) \/ \E f \in Families : PeerClose(n, f)
    \/ \E c \in Conns : ConnDown(c)

Local(n) ==
    \/ Supervise(n)
    \/ Closing(n)
    \/ \E c \in Conns : Handshake(n, c) \/ Goroutine(n, c)

Next ==
    \/ Environment
    \/ \E n \in Nodes : Local(n)
    \/ \E k \in Callers : Calling(k)

Spec == Init /\ [][Next]_vars

-----------------------------------------------------------------------------
(* Properties. *)

Calls == {"idle", "retry", "waiting", "dialing", "greeting", "result", "finishing", "returned"}

TypeOK ==
    /\ scene \in Scenes
    /\ raw \in [Conns -> {"none", "up", "down"}]
    /\ dialer \in [Conns -> Nodes \union {None}]
    /\ phase \in [Nodes -> [Conns -> {"none", "queued", "greeting", "boxed", "live", "over"}]]
    /\ out \in [Nodes -> [Conns -> {"none", "hello", "bye", "cut"}]]
    /\ reader \in [Nodes -> [Conns -> {"none", "run", "ended"}]]
    /\ closer \in [Nodes -> [Conns -> {"none", "bye", "fin", "ended"}]]
    /\ waiting \in [Nodes -> [Conns -> Leavers \union {None}]]
    /\ stage \in [Nodes -> {"open", "cancelled", "signalled", "closed"}]
    /\ views \in [Nodes -> SUBSET Conns]
    /\ dial \in [Nodes -> Callers \union {None}]
    /\ alive \in [Nodes -> BOOLEAN]
    /\ wake \in [Nodes -> BOOLEAN]
    /\ step \in [Nodes -> {"select", "drain", "exit"}]
    /\ conn \in [Nodes -> Conns \union {None}]
    /\ info \in [Nodes -> Conns \union {None}]
    /\ adm \in [Nodes -> Conns \union {None}]
    /\ owned \in [Nodes -> SUBSET Conns]
    /\ handles \in [Nodes -> SUBSET (Conns \X Families)]
    /\ at \in [Callers -> Calls]
    /\ own \in [Callers -> Conns \union {None}]
    /\ left \in [Callers -> 0..scene.endpoints]
    /\ quit \in [Callers -> BOOLEAN]
    /\ leaver \in [Leavers -> {"idle", "wait", "returned"}]
    /\ before \in [Leavers -> SUBSET Conns]
    /\ faults \in 0..scene.faults

\* No goroutine has a step left to take on a view.
Settled ==
    \A n \in Nodes :
      /\ inbox[n] = <<>> /\ reqs[n] = <<>> /\ step[n] = "select" /\ adm[n] = None
      /\ conn[n] # None => raw[conn[n]] = "up" /\ ~Released(n, conn[n])
      /\ \A c \in Conns :
           /\ phase[n][c] \notin {"greeting", "boxed"}
           /\ closer[n][c] \notin {"bye", "fin"}
           /\ reader[n][c] = "run" => Reading(n, c) \/ Released(n, c)

\* Once every goroutine has come to rest the two nodes hold the same view or
\* neither holds one: whatever was dialed from both ends, replaced, rejected,
\* dropped or timed out, GOAWAY tells the other end (supervisor.go:175-235,
\* session.go:147-212).  When nothing failed and nobody left, simultaneous dials
\* do not cancel each other: a view is held (supervisor.go:175-187, both ends
\* keep the one the lower peer ID dialed).
ViewsAgree ==
    Settled => \A n \in Nodes :
      /\ conn[n] = conn[Other(n)]
      /\ faults = 0 /\ (\E c \in Conns : raw[c] # "none") => conn[n] # None

\* Every request reaches a supervisor that will serve it: it is in the inbox of
\* a registered supervisor, which has a wake pending, is not in its select, or
\* will be woken by the Close that left the request (supervisor.go:65-134).
NoLostRequest ==
    \A n \in Nodes :
      inbox[n] # <<>> => /\ alive[n]
                         /\ wake[n] \/ step[n] # "select" \/ stage[n] = "cancelled"

\* After Disconnect has returned, no view it was to end is held or still to be
\* admitted: neither the view at the time, nor one in the inbox, nor the one
\* that the dial in flight was making (stack.go:250-271, supervisor.go:169-174).
DisconnectEnds ==
    \A d \in Leavers : leaver[d] = "returned" =>
      \A c \in before[d] : conn[LeaverNode[d]] # c /\ adm[LeaverNode[d]] # c

\* No call is left behind: once every goroutine has come to rest, Disconnect has
\* returned, nothing Close waits for is left, and no call of Connect waits for a
\* handshake, for the supervisor's answer or for a driver that is gone
\* (stack.go:254-306, 339-454).
NoStrandedCall ==
    Settled =>
      /\ \A d \in Leavers : leaver[d] # "wait"
      /\ \A n \in Nodes : Ended(n) => ~alive[n] /\ \A c \in Conns : ~Reading(n, c)
      /\ \A k \in Callers :
           /\ at[k] \notin {"greeting", "result"}
           /\ at[k] = "waiting" =>
                dial[CallerNode(k)] = follows[k] \/ at[follows[k]] = "returned"

\* What the families see of the peer is PeerPresence: handles of one view at a
\* time, each view once, none once Close has returned.
Presence == INSTANCE PeerPresence WITH
    Views <- Conns,
    held <- handles,
    spent <- [n \in Nodes |-> {c \in Conns : reader[n][c] # "none"}],
    over <- {n \in Nodes : stage[n] = "closed"}

FamiliesSeeOneView == Presence!Spec

=============================================================================
