-------------------------------- MODULE Conn --------------------------------
(***************************************************************************)
(* One connection of the driver (conn.go, cancel.go): the goroutine that   *)
(* calls into it, one watcher goroutine per cancellable exchange, the      *)
(* socket and the HSQLDB session at its other end.                         *)
(*                                                                         *)
(* Exchanges are numbered in the order the caller makes them; number 1 is  *)
(* the CONNECT exchange of handshake, the others are runs of execCtx (every *)
(* statement, fetch, ping and session attribute goes through it).          *)
(* database/sql holds a lock on the connection, so there is one caller; the *)
(* watchers are not covered by that lock, and that is where the hard       *)
(* interleavings are.  The server is external: it reads a request, runs it, *)
(* and writes a main frame, chained frames and the NONE terminator.        *)
(***************************************************************************)
EXTENDS Integers, Sequences

CONSTANTS MaxCalls,   \* bound on the exchanges of one connection
          MaxChain,   \* bound on the chained frames of one response
          CtxKinds    \* kinds of context callers use: without Done(), with
                      \* Done() only, with Done() and a deadline

ASSUME ConnBounds ==
  /\ MaxCalls \in Nat \ {0} /\ MaxChain \in Nat
  /\ CtxKinds \subseteq {"background", "cancel", "timeout"}

Calls == 1 .. MaxCalls

NoDeadline == 0       \* time.Time{}
Past       == -1      \* SetDeadline(time.Now()); k \in Calls is ctx k's own

DISCONNECT == 0       \* the one request that belongs to no exchange

Outcomes == {"none", "main", "error", "ctxErr", "ioErr", "badConn"}
Frames   == [of : Calls, kind : {"main", "error", "chained", "end"}]

VARIABLES
  \* fields of conn; the request that stays in c.bw without a terminator
  closed, broken, sessionID, left,
  \* the caller: where it is, in which exchange, what it has decoded so far
  pc, call, res,
  \* one context per exchange, and its watcher goroutine
  ctx, ctxDone, due, watch, done,
  \* the socket
  up, deadline, toServer, toClient,
  \* the server's session (the exchange it serves, the frames of its response
  \* written so far), and SQLCANCEL requests on their way to it
  serving, written, cancels,
  \* what the caller was told, whose response it was, what was aborted
  outcome, from, aborted

clientVars == <<closed, broken, sessionID, left>>
ctxVars    == <<ctx, ctxDone, due>>
watchVars  == <<watch, done>>
serverVars == <<serving, written, aborted>>
answerVars == <<outcome, from>>

vars == <<closed, broken, sessionID, left, pc, call, res, ctx, ctxDone, due,
          watch, done, up, deadline, toServer, toClient, serving, written, cancels,
          outcome, from, aborted>>

(***************************************************************************)
(* The socket's deadline has passed.                                       *)
(***************************************************************************)
Expired == deadline = Past \/ deadline \in due

Init ==
  /\ closed = FALSE /\ broken = FALSE /\ sessionID = FALSE /\ left = 0
  /\ pc = "new" /\ call = 0 /\ res = "none"
  /\ ctx = [k \in Calls |-> "background"]
  /\ ctxDone = {} /\ due = {}
  /\ watch = [k \in Calls |-> "none"] /\ done = {}
  /\ up = TRUE /\ deadline = NoDeadline
  /\ toServer = <<>> /\ toClient = <<>>
  /\ serving = 0 /\ written = 0 /\ cancels = {}
  /\ outcome = [k \in Calls |-> "none"]
  /\ from = [k \in Calls |-> 0]
  /\ aborted = {}

-----------------------------------------------------------------------------
(***************************************************************************)
(* The caller.                                                             *)
(***************************************************************************)

(* watchCancel: a background context is not watched; a context with a      *)
(* deadline puts it on the socket.                                         *)
watchCancel(k, kind) ==
  /\ ctx' = [ctx EXCEPT ![k] = kind]
  /\ watch' = [watch EXCEPT ![k] =
                 IF kind = "background" THEN "none" ELSE "select"]
  /\ deadline' = IF kind = "timeout" THEN k ELSE deadline

(* connect after a successful dial: handshake starts the CONNECT exchange. *)
Connect(kind) ==
  /\ pc = "new"
  /\ call' = 1 /\ pc' = "send"
  /\ watchCancel(1, kind)
  /\ UNCHANGED <<clientVars, res, ctxDone, due, done, up, toServer, toClient,
                 serverVars, cancels, answerVars>>

(* execCtx on a closed or broken connection: driver.ErrBadConn. *)
ExecRefused ==
  /\ pc = "idle" /\ call < MaxCalls
  /\ closed \/ broken
  /\ call' = call + 1
  /\ outcome' = [outcome EXCEPT ![call + 1] = "badConn"]
  /\ UNCHANGED <<clientVars, pc, res, ctxVars, watchVars, up, deadline,
                 toServer,
                 toClient, serverVars, cancels, from>>

(* execCtx under a context that is already done: nothing is sent and the   *)
(* connection stays usable.                                                *)
ExecExpired(kind) ==
  /\ pc = "idle" /\ call < MaxCalls
  /\ ~closed /\ ~broken
  /\ kind # "background"
  /\ call' = call + 1
  /\ ctx' = [ctx EXCEPT ![call + 1] = kind]
  /\ ctxDone' = ctxDone \cup {call + 1}
  /\ outcome' = [outcome EXCEPT ![call + 1] = "ctxErr"]
  /\ UNCHANGED <<clientVars, pc, res, due, watchVars, up, deadline, toServer,
                 toClient, serverVars, cancels, from>>

(* execCtx up to the send of the exchange. *)
ExecStart(kind) ==
  /\ pc = "idle" /\ call < MaxCalls
  /\ ~closed /\ ~broken
  /\ call' = call + 1 /\ pc' = "send"
  /\ watchCancel(call + 1, kind)
  /\ UNCHANGED <<clientVars, res, ctxDone, due, done, up, toServer, toClient,
                 serverVars, cancels, answerVars>>

\* Variant: the error path forgets broken = true.
exchangeFailsNotBroken ==
  /\ pc' = (IF call = 1 THEN "abandon" ELSE "stop")
  /\ outcome' = [outcome EXCEPT ![call] = "ioErr"]
  /\ UNCHANGED <<closed, broken, sessionID, call, ctxVars, watchVars, up,
                 deadline, cancels, serverVars, from>>

\* Variant: a context error is taken for one that left the wire intact.
exchangeFailsCtxIntact ==
  /\ pc' = (IF call = 1 THEN "abandon" ELSE "stop")
  /\ broken' = (call # 1 /\ call \notin ctxDone)
  /\ outcome' = [outcome EXCEPT ![call] =
                   IF call \in ctxDone THEN "ctxErr" ELSE "ioErr"]
  /\ UNCHANGED <<closed, sessionID, call, ctxVars, watchVars, up,
                 deadline, cancels, serverVars, from>>

(* The error path of the exchange: execCtx marks the connection broken and *)
(* prefers the context's error; handshake leaves the flag alone, because   *)
(* connect is about to close the socket and drop the conn.                 *)
exchangeFails ==
  /\ IF call = 1 THEN /\ pc' = "abandon" /\ UNCHANGED broken
                 ELSE /\ pc' = "stop" /\ broken' = TRUE
  /\ outcome' = [outcome EXCEPT ![call] =
                   IF call \in ctxDone /\ call # 1 THEN "ctxErr" ELSE "ioErr"]
  /\ UNCHANGED <<closed, sessionID, call, ctxVars, watchVars, up,
                 deadline, cancels, serverVars, from>>

(* send: the frames and the terminator are written and flushed. *)
Send ==
  /\ pc = "send" /\ up /\ ~Expired
  /\ toServer' = Append(toServer, call)
  /\ pc' = "read"
  /\ UNCHANGED <<clientVars, call, res, ctxVars, watchVars, up, deadline,
                 toClient,
                 serverVars, cancels, answerVars>>

(* send fails: a parameter that cannot be encoded (before a byte leaves),  *)
(* the socket, or a LOB reader; after a reader the request, complete but   *)
(* for its LOB frames and the terminator, is left in c.bw.                 *)
SendFails ==
  /\ pc = "send"
  /\ exchangeFails
  /\ left' \in IF call = 1 THEN {0} ELSE {0, call}
  /\ UNCHANGED <<res, toServer, toClient>>

\* Variant: receive returns the main Result without reading to the terminator.
ReceiveMainOnly ==
  /\ pc = "read" /\ toClient # <<>>
  /\ outcome' = [outcome EXCEPT ![call] = Head(toClient).kind]
  /\ from' = [from EXCEPT ![call] = Head(toClient).of]
  /\ toClient' = Tail(toClient)
  /\ sessionID' = TRUE /\ pc' = "stop"
  /\ UNCHANGED <<closed, broken, left, call, res, ctxVars, watchVars, up, deadline,
                 toServer, serverVars, cancels>>

(* receive: the first frame is the main Result. *)
ReceiveMain ==
  /\ pc = "read" /\ toClient # <<>>
  /\ res' = Head(toClient).kind
  /\ from' = [from EXCEPT ![call] = Head(toClient).of]
  /\ toClient' = Tail(toClient)
  /\ pc' = "rest"
  /\ UNCHANGED <<clientVars, call, ctxVars, watchVars, up, deadline, toServer,
                 serverVars, cancels, outcome>>

(* receive: chained frames up to the terminator. *)
ReceiveChained ==
  /\ pc = "rest" /\ toClient # <<>>
  /\ Head(toClient).kind # "end"
  /\ toClient' = Tail(toClient)
  /\ UNCHANGED <<clientVars, pc, call, res, ctxVars, watchVars, up, deadline,
                 toServer, serverVars, cancels, answerVars>>

\* Variant: the response is returned without looking at its mode.
ReceiveEndAnyMode ==
  /\ pc = "rest" /\ toClient # <<>>
  /\ Head(toClient).kind = "end"
  /\ toClient' = Tail(toClient)
  /\ outcome' = [outcome EXCEPT ![call] = "main"]
  /\ res' = "none" /\ sessionID' = TRUE /\ pc' = "stop"
  /\ UNCHANGED <<closed, broken, left, call, ctxVars, watchVars, up, deadline,
                 toServer,
                 serverVars, cancels, from>>

(* receive returns.  An ERROR Result becomes an *Error and leaves the      *)
(* connection usable; to handshake anything but CONNECTACKNOWLEDGE is fatal. *)
ReceiveEnd ==
  /\ pc = "rest" /\ toClient # <<>>
  /\ Head(toClient).kind = "end"
  /\ toClient' = Tail(toClient)
  /\ outcome' = [outcome EXCEPT ![call] = res]
  /\ res' = "none"
  /\ sessionID' = (sessionID \/ (call = 1 /\ res = "main"))
  /\ pc' = IF call = 1 /\ res # "main" THEN "abandon" ELSE "stop"
  /\ UNCHANGED <<closed, broken, left, call, ctxVars, watchVars, up, deadline,
                 toServer,
                 serverVars, cancels, from>>

(* receive fails: the deadline passed, the socket is gone, or a frame does *)
(* not decode.                                                             *)
ReceiveFails ==
  /\ pc \in {"read", "rest"}
  /\ Expired \/ ~up \/ toClient # <<>>
  /\ exchangeFails
  /\ res' = "none"
  /\ UNCHANGED <<left, toServer, toClient>>

\* Variant: stop leaves the deadline on the socket.
stopKeepsDeadline(k) ==
  /\ done' = IF ctx[k] = "background" THEN done ELSE done \cup {k}
  /\ UNCHANGED deadline

\* Variant: stop does not close the done channel.
stopKeepsWatcher(k) ==
  /\ done' = done
  /\ deadline' = IF ctx[k] = "background" \/ broken THEN deadline ELSE NoDeadline

(* The deferred stop of watchCancel: close(done), then clear the deadline  *)
(* unless the connection is broken.  It does not wait for the watcher.     *)
stop(k) ==
  /\ done' = IF ctx[k] = "background" THEN done ELSE done \cup {k}
  /\ deadline' = IF ctx[k] = "background" \/ broken THEN deadline ELSE NoDeadline

Stop ==
  /\ pc = "stop"
  /\ stop(call)
  /\ pc' = "idle"
  /\ UNCHANGED <<clientVars, call, res, ctxVars, watch, up, toServer, toClient,
                 serverVars, cancels, answerVars>>

(* connect after a failed handshake: stop, netConn.Close(), no conn. *)
Abandon ==
  /\ pc = "abandon"
  /\ stop(call)
  /\ pc' = "dead" /\ up' = FALSE
  /\ UNCHANGED <<clientVars, call, res, ctxVars, watch, toServer, toClient,
                 serverVars, cancels, answerVars>>

(* Close: a best-effort DISCONNECT, then netConn.Close().  Behind a request *)
(* that is left in c.bw DISCONNECT is a frame of that request, which the   *)
(* terminator completes: the server may run it although execCtx failed.    *)
Close ==
  /\ pc = "idle" /\ ~closed
  /\ closed' = TRUE
  /\ \/ toServer' = toServer
     \/ /\ up /\ ~Expired
        /\ toServer' = Append(toServer, IF left = 0 THEN DISCONNECT ELSE left)
  /\ up' = FALSE
  /\ UNCHANGED <<broken, sessionID, left, pc, call, res, ctxVars, watchVars, deadline,
                 toClient, serverVars, cancels, answerVars>>

-----------------------------------------------------------------------------
(***************************************************************************)
(* The watcher goroutine of exchange k.                                    *)
(***************************************************************************)
watcherUnchanged ==
  UNCHANGED <<clientVars, pc, call, res, ctxVars, done, up, toServer, toClient,
              serverVars, answerVars>>

(* select, ctx.Done() arm.  When done is closed too, select may still take *)
(* this arm.                                                               *)
WatchCancelled(k) ==
  /\ watch[k] = "select" /\ k \in ctxDone
  /\ watch' = [watch EXCEPT ![k] = "fire"]
  /\ watcherUnchanged /\ UNCHANGED <<deadline, cancels>>

(* select, done arm. *)
WatchDone(k) ==
  /\ watch[k] = "select" /\ k \in done
  /\ watch' = [watch EXCEPT ![k] = "exit"]
  /\ watcherUnchanged /\ UNCHANGED <<deadline, cancels>>

(* fireCancel: SQLCANCEL with statement id 0 on a second connection.  It   *)
(* may return without sending anything: no session id yet (or not yet      *)
(* visible: the field is read without synchronisation), a failed dial or   *)
(* write.  The bounded wait for the reply is part of the step.             *)
fireCancel(k) ==
  /\ watch[k] = "fire"
  /\ watch' = [watch EXCEPT ![k] = "expire"]
  /\ \/ cancels' = cancels
     \/ sessionID /\ cancels' = cancels \cup {k}
  /\ watcherUnchanged /\ UNCHANGED deadline

\* Variant: the watcher only asks the server to stop.
WatchExpireMissing(k) ==
  /\ watch[k] = "expire"
  /\ watch' = [watch EXCEPT ![k] = "exit"]
  /\ watcherUnchanged /\ UNCHANGED <<deadline, cancels>>

(* SetDeadline(time.Now()) on the connection's socket. *)
WatchExpire(k) ==
  /\ watch[k] = "expire"
  /\ watch' = [watch EXCEPT ![k] = "exit"]
  /\ deadline' = Past
  /\ watcherUnchanged /\ UNCHANGED cancels

-----------------------------------------------------------------------------
(***************************************************************************)
(* The environment: contexts, the network and the server (external).       *)
(***************************************************************************)
(* The clock reaches the deadline that is on the socket. *)
DeadlinePasses(k) ==
  /\ deadline = k /\ k \notin due
  /\ due' = due \cup {k}
  /\ UNCHANGED <<clientVars, pc, call, res, ctx, ctxDone, watchVars, up,
                 deadline,
                 toServer, toClient, serverVars, cancels, answerVars>>

(* Context k is done: its owner cancels it (deferred cancel functions run  *)
(* after the call has returned) or its deadline has passed.  Once its      *)
(* watcher is past the select nothing observes the context any more.       *)
ContextDone(k) ==
  /\ watch[k] = "select" /\ k \notin ctxDone
  /\ ctxDone' = ctxDone \cup {k}
  /\ UNCHANGED <<clientVars, pc, call, res, ctx, due, watchVars, up, deadline,
                 toServer, toClient, serverVars, cancels, answerVars>>

NetworkDrops ==
  /\ up /\ pc # "new"
  /\ up' = FALSE /\ toServer' = <<>>
  /\ UNCHANGED <<clientVars, pc, call, res, ctxVars, watchVars, deadline,
                 toClient,
                 serverVars, cancels, answerVars>>

(* The server reads the next request; DISCONNECT ends the session. *)
ServerReads ==
  /\ toServer # <<>> /\ serving = 0
  /\ serving' = Head(toServer)
  /\ toServer' = Tail(toServer)
  /\ UNCHANGED <<clientVars, pc, call, res, ctxVars, watchVars, up, deadline,
                 toClient, written, aborted, cancels, answerVars>>

serverWrites(kind) ==
  /\ toClient' = Append(toClient, [of |-> serving, kind |-> kind])
  /\ UNCHANGED <<clientVars, pc, call, res, ctxVars, watchVars, up, deadline,
                 toServer, answerVars>>

(* The statement ends, well or with an SQL error. *)
ServerAnswers ==
  /\ up /\ serving # 0 /\ written = 0
  /\ \E kind \in {"main", "error"} : serverWrites(kind)
  /\ written' = 1
  /\ UNCHANGED <<serving, aborted, cancels>>

ServerChains ==
  /\ up /\ written \in 1 .. MaxChain
  /\ serverWrites("chained")
  /\ written' = written + 1
  /\ UNCHANGED <<serving, aborted, cancels>>

ServerEnds ==
  /\ up /\ written > 0
  /\ serverWrites("end")
  /\ serving' = 0 /\ written' = 0
  /\ UNCHANGED <<aborted, cancels>>

(* An SQLCANCEL arrives: it names the session, not a statement, so it      *)
(* aborts whatever statement the session is running, if any.               *)
CancelArrives(k) ==
  /\ k \in cancels
  /\ cancels' = cancels \ {k}
  /\ IF up /\ serving # 0 /\ written = 0
       THEN /\ serverWrites("error")
            /\ written' = 1
            /\ aborted' = aborted \cup {serving}
            /\ UNCHANGED serving
       ELSE /\ UNCHANGED <<clientVars, pc, call, res, ctxVars, watchVars, up,
                           deadline, toServer, toClient, serverVars, answerVars>>

-----------------------------------------------------------------------------
Caller ==
  \/ \E kind \in CtxKinds : Connect(kind) \/ ExecExpired(kind) \/ ExecStart(kind)
  \/ ExecRefused \/ Send \/ SendFails
  \/ ReceiveMain \/ ReceiveChained \/ ReceiveEnd \/ ReceiveFails
  \/ Stop \/ Abandon \/ Close

Watcher(k) == WatchCancelled(k) \/ WatchDone(k) \/ fireCancel(k) \/ WatchExpire(k)

Environment ==
  \/ \E k \in Calls : DeadlinePasses(k) \/ ContextDone(k) \/ CancelArrives(k)
  \/ NetworkDrops \/ ServerReads \/ ServerAnswers \/ ServerChains \/ ServerEnds

Next == Caller \/ (\E k \in Calls : Watcher(k)) \/ Environment

Spec == Init /\ [][Next]_vars

(***************************************************************************)
(* Fairness.  A caller inside an exchange runs on whenever it is not       *)
(* blocked on the socket (Stop included: it is deferred), and the Go       *)
(* scheduler runs every goroutine; fireCancel is bounded by cancelTimeout. *)
(* Nothing is assumed of the server, the network or whoever owns a         *)
(* context: a call the server never answers may hang.                      *)
(***************************************************************************)
InExchange == Send \/ SendFails \/ ReceiveMain \/ ReceiveChained \/ ReceiveEnd
                \/ ReceiveFails \/ Stop \/ Abandon

FairSpec == Spec /\ WF_vars(InExchange) /\ \A k \in Calls : WF_vars(Watcher(k))

-----------------------------------------------------------------------------
(***************************************************************************)
(* Properties.                                                             *)
(***************************************************************************)
Valid      == ~closed /\ ~broken                                 \* IsValid
Exchanging == {"send", "read", "rest"}

(* Every variable stays in its type: the fields of conn (conn.go), the     *)
(* caller's position, the watchers, the socket and the server's session.   *)
TypeOK ==
  /\ closed \in BOOLEAN /\ broken \in BOOLEAN /\ sessionID \in BOOLEAN
  /\ left \in Calls \cup {0} /\ (left # 0 => broken)
  /\ pc \in {"new", "idle", "stop", "abandon", "dead"} \cup Exchanging
  /\ call \in 0 .. MaxCalls
  /\ (pc = "new" => call = 0) /\ (pc # "new" => call > 0)
  /\ res \in {"none", "main", "error"}
  /\ ctx \in [Calls -> CtxKinds \cup {"background"}]
  /\ ctxDone \subseteq Calls /\ due \subseteq Calls
  /\ watch \in [Calls -> {"none", "select", "fire", "expire", "exit"}]
  /\ done \subseteq Calls
  /\ up \in BOOLEAN /\ deadline \in Calls \cup {NoDeadline, Past}
  /\ toServer \in Seq(Calls \cup {DISCONNECT}) /\ toClient \in Seq(Frames)
  /\ serving \in Calls \cup {0} /\ written \in Nat
  /\ (written > 0 => serving # 0)
  /\ cancels \subseteq Calls
  /\ outcome \in [Calls -> Outcomes]
  /\ from \in [Calls -> Calls \cup {0}]
  /\ aborted \subseteq Calls

(* The response the caller of exchange k decodes (receive) is never        *)
(* another exchange's: a response that was given up is never read by a     *)
(* later call.                                                             *)
NoCrossTalk == \A k \in Calls : from[k] \in {0, k}

(* A connection that IsValid lets back into the pool has an empty wire: no *)
(* request the server has still to read or to answer, no unread frame.     *)
ValidIsAligned ==
  pc = "idle" /\ Valid => toServer = <<>> /\ toClient = <<>> /\ serving = 0

(* The shapes the wire can have.  At rest it is quiet; during an exchange  *)
(* exactly one of the request on its way, the server at work and the       *)
(* response on its way stands for it.  A response is open until the        *)
(* terminator, and begins with the main Result.                            *)
Quiet == Len(toServer) = 0 /\ Len(toClient) = 0 /\ serving = 0

OpenPart(k) ==
  \A i \in 1 .. Len(toClient) :
     toClient[i].of = k /\ toClient[i].kind # "end"

LastPart(k) ==
  /\ Len(toClient) > 0 /\ toClient[Len(toClient)].kind = "end"
  /\ \A i \in 1 .. Len(toClient) : toClient[i].of = k
  /\ \A i \in 1 .. Len(toClient) - 1 : toClient[i].kind # "end"

Headed == Len(toClient) > 0 /\ toClient[1].kind \in {"main", "error"}

(* The inductive invariant behind NoCrossTalk and ValidIsAligned: what is  *)
(* on the wire of a usable connection belongs to the exchange under way,   *)
(* and the caller of exec, send and receive is at the matching point of it. *)
OneExchange ==
  /\ pc \in Exchanging \cup {"new"} => Valid
  /\ pc \in {"new", "idle", "send", "stop"} /\ Valid => Quiet
  /\ pc = "read" =>
       \/ /\ Len(toServer) = 1 /\ toServer[1] = call
          /\ serving = 0 /\ Len(toClient) = 0
       \/ /\ Len(toServer) = 0 /\ Len(toClient) = 0
          /\ serving \in {0, call} /\ written = 0
       \/ /\ Len(toServer) = 0 /\ Headed
          /\ \/ serving = call /\ written > 0 /\ OpenPart(call)
             \/ serving = 0 /\ LastPart(call)
  /\ pc = "rest" =>
       /\ Len(toServer) = 0 /\ res \in {"main", "error"}
       /\ \/ serving = call /\ written > 0 /\ OpenPart(call)
          \/ serving = 0 /\ LastPart(call)

(* A statement the server aborted is never reported to its caller as done, *)
(* whichever of the response, the SQLCANCEL and the deadline came first.   *)
AbortIsReported == \A k \in aborted : outcome[k] # "main"

(* stop takes a context's own deadline off the socket: a later call never  *)
(* runs under the deadline of an earlier call's context.                   *)
NoInheritedDeadline ==
  deadline \in Calls /\ Valid
    => deadline = call /\ pc \in Exchanging \cup {"stop", "abandon"}

(* Once a context is done, the exchange that runs under it returns even if *)
(* the server never answers: the watcher forces the socket's deadline.     *)
CancelUnblocks ==
  \A k \in Calls :
     (call = k /\ pc \in Exchanging /\ k \in ctxDone)
       ~> (call > k \/ pc \in {"idle", "dead"})

(* No watcher goroutine leaks: the one of an exchange that returns ends,   *)
(* whether or not its context is ever done.                                *)
WatchersExit ==
  \A k \in Calls :
     (call = k /\ pc \in {"stop", "abandon"} /\ ctx[k] # "background")
       ~> watch[k] = "exit"

(* What the comment on watchCancel says of stop: it tears the watcher down *)
(* and clears the deadline, so a valid connection at rest has none.        *)
ValidHasNoDeadline == pc = "idle" /\ Valid => deadline = NoDeadline
=============================================================================
