----------------------------- MODULE ConnProofs -----------------------------
(***************************************************************************)
(* Proofs about Conn, for every number of exchanges, every length of       *)
(* response and every mix of contexts: the types, and that a connection    *)
(* the pool takes back has a quiet wire, so that no caller ever reads      *)
(* another caller's response.                                              *)
(***************************************************************************)
EXTENDS Conn, SequenceTheorems, TLAPS

(* What Append does to a queue of frames or requests. *)
LEMMA AppendFacts ==
  ASSUME NEW S, NEW s \in Seq(S), NEW e \in S
  PROVE  /\ Append(s, e) \in Seq(S)
         /\ Len(Append(s, e)) = Len(s) + 1
         /\ \A i \in 1 .. Len(s) : Append(s, e)[i] = s[i]
         /\ Append(s, e)[Len(s) + 1] = e
  OBVIOUS

(* What taking the head of a queue does. *)
LEMMA TailFacts ==
  ASSUME NEW S, NEW s \in Seq(S), s # <<>>
  PROVE  /\ Head(s) = s[1] /\ Head(s) \in S
         /\ Tail(s) \in Seq(S)
         /\ Len(s) \in Nat /\ Len(s) > 0
         /\ Len(Tail(s)) = Len(s) - 1
         /\ \A i \in 1 .. Len(s) - 1 : Tail(s)[i] = s[i + 1]
  BY HeadTailProperties, EmptySeq

(* A queue of length zero is the empty one. *)
LEMMA EmptyFacts ==
  ASSUME NEW S, NEW s \in Seq(S)
  PROVE  Len(s) = 0 <=> s = <<>>
  BY EmptySeq

-----------------------------------------------------------------------------
(* The part of the state the wire invariant speaks of.                     *)
wire == <<closed, broken, pc, call, res, toServer, toClient, serving, written>>

(* The type invariant, with the wire invariant that keeps a response's     *)
(* first frame a main Result, and the ownership of what callers decode.    *)
Inv == TypeOK /\ OneExchange /\ NoCrossTalk

LEMMA InitInv == Init => Inv
<1> SUFFICES ASSUME Init PROVE Inv
  OBVIOUS
<1>1. /\ <<>> \in Seq(Calls \cup {DISCONNECT}) /\ <<>> \in Seq(Frames)
      /\ Len(<<>>) = 0
  BY EmptySeq
<1>2. TypeOK
  <2> USE DEF Init, TypeOK
  <2>1. call \in 0 .. MaxCalls /\ (pc # "new" => call > 0)
    BY ConnBounds
  <2>2. deadline \in Calls \cup {NoDeadline, Past} /\ serving \in Calls \cup {0}
        /\ written \in Nat /\ (written > 0 => serving # 0)
    OBVIOUS
  <2>3. outcome \in [Calls -> Outcomes] /\ from \in [Calls -> Calls \cup {0}]
    BY DEF Outcomes
  <2>4. ctx \in [Calls -> CtxKinds \cup {"background"}]
        /\ watch \in [Calls -> {"none", "select", "fire", "expire", "exit"}]
    OBVIOUS
  <2> QED BY <1>1, <2>1, <2>2, <2>3, <2>4
<1>3. OneExchange /\ NoCrossTalk
  BY <1>1 DEF Init, OneExchange, NoCrossTalk, Quiet, Valid, Exchanging
<1> QED BY <1>2, <1>3 DEF Inv

(* A step that leaves the wire alone and keeps the types preserves Inv. *)
LEMMA WireUnchanged ==
  ASSUME Inv, TypeOK', UNCHANGED <<wire, from>>
  PROVE  Inv'
  BY DEF Inv, OneExchange, NoCrossTalk, wire, Valid, Exchanging, Quiet, OpenPart, LastPart,
     Headed

LEMMA WatcherInv ==
  ASSUME Inv, NEW k \in Calls, Watcher(k)
  PROVE  Inv'
<1> USE DEF Inv
<1>1. UNCHANGED <<wire, from>>
  BY DEF Watcher, WatchCancelled, WatchDone, fireCancel, WatchExpire, watcherUnchanged,
     clientVars, serverVars, answerVars, wire
<1>2. TypeOK'
  BY DEF TypeOK, Watcher, WatchCancelled, WatchDone, fireCancel, WatchExpire,
     watcherUnchanged, clientVars, ctxVars, serverVars, answerVars, Exchanging
<1> QED BY <1>1, <1>2, WireUnchanged

LEMMA ContextInv ==
  ASSUME Inv, NEW k \in Calls, DeadlinePasses(k) \/ ContextDone(k)
  PROVE  Inv'
<1> USE DEF Inv
<1>1. UNCHANGED <<wire, from>>
  BY DEF DeadlinePasses, ContextDone, clientVars, serverVars, answerVars, wire
<1>2. TypeOK'
  BY DEF TypeOK, DeadlinePasses, ContextDone, clientVars, watchVars, serverVars,
     answerVars, Exchanging
<1> QED BY <1>1, <1>2, WireUnchanged

LEMMA StartInv ==
  ASSUME Inv, NEW kind \in CtxKinds,
         Connect(kind) \/ ExecStart(kind) \/ ExecExpired(kind)
  PROVE  Inv'
<1> USE DEF Inv, clientVars, ctxVars, watchVars, serverVars, answerVars
<1>1. CASE Connect(kind)
  <2>1. call' = 1 /\ 1 \in Calls
    BY <1>1, ConnBounds DEF Connect, Calls
  <2>2. TypeOK'
    BY <1>1, <2>1, ConnBounds DEF Connect, watchCancel, TypeOK, Exchanging
  <2>3. OneExchange' /\ NoCrossTalk'
    BY <1>1 DEF Connect, watchCancel, OneExchange, NoCrossTalk, Quiet, Valid, Exchanging
  <2> QED BY <2>2, <2>3
<1>2. CASE ExecStart(kind)
  <2>1. call' = call + 1 /\ call + 1 \in Calls /\ call + 1 \in 0 .. MaxCalls
        /\ call + 1 > 0
    BY <1>2, ConnBounds DEF ExecStart, Calls, TypeOK
  <2>2. TypeOK'
    BY <1>2, <2>1, ConnBounds DEF ExecStart, watchCancel, TypeOK, Exchanging
  <2>3. OneExchange' /\ NoCrossTalk'
    BY <1>2 DEF ExecStart, watchCancel, OneExchange, NoCrossTalk, Quiet, Valid, Exchanging
  <2> QED BY <2>2, <2>3
<1>3. CASE ExecExpired(kind)
  <2>1. call' = call + 1 /\ call + 1 \in Calls /\ call + 1 \in 0 .. MaxCalls
        /\ call + 1 > 0
    BY <1>3, ConnBounds DEF ExecExpired, Calls, TypeOK
  <2>2. TypeOK'
    BY <1>3, <2>1 DEF ExecExpired, TypeOK, Exchanging, Outcomes
  <2>3. OneExchange' /\ NoCrossTalk'
    BY <1>3 DEF ExecExpired, OneExchange, NoCrossTalk, Quiet, Valid, Exchanging
  <2> QED BY <2>2, <2>3
<1> QED BY <1>1, <1>2, <1>3

LEMMA RefusedInv ==
  ASSUME Inv, ExecRefused
  PROVE  Inv'
<1> USE DEF Inv, clientVars, ctxVars, watchVars, serverVars, answerVars
<1>1. call' = call + 1 /\ call + 1 \in Calls /\ call + 1 \in 0 .. MaxCalls
      /\ call + 1 > 0
  BY ConnBounds DEF ExecRefused, Calls, TypeOK
<1>2. TypeOK'
  BY <1>1 DEF ExecRefused, TypeOK, Exchanging, Outcomes
<1>3. OneExchange' /\ NoCrossTalk'
  BY DEF ExecRefused, OneExchange, NoCrossTalk, Quiet, Valid, Exchanging
<1> QED BY <1>2, <1>3

LEMMA SendInv ==
  ASSUME Inv, Send
  PROVE  Inv'
<1> USE DEF Inv, clientVars, ctxVars, watchVars, serverVars, answerVars
<1>1. call \in Calls \cup {DISCONNECT} /\ toServer \in Seq(Calls \cup {DISCONNECT})
  BY ConnBounds DEF Send, TypeOK, Calls
<1>2. /\ toServer' \in Seq(Calls \cup {DISCONNECT})
      /\ Len(toServer') = Len(toServer) + 1
      /\ toServer'[Len(toServer) + 1] = call
  BY <1>1, AppendFacts DEF Send
<1>3. TypeOK'
  BY <1>2 DEF Send, TypeOK, Exchanging
<1>4. Quiet /\ written = 0 /\ Valid
  BY DEF Send, OneExchange, Exchanging, TypeOK, Quiet
<1>5. OneExchange' /\ NoCrossTalk'
  BY <1>2, <1>4 DEF Send, OneExchange, NoCrossTalk, Quiet, Valid, Exchanging
<1> QED BY <1>3, <1>5

LEMMA FailInv ==
  ASSUME Inv, SendFails \/ ReceiveFails
  PROVE  Inv'
<1> USE DEF Inv, clientVars, ctxVars, watchVars, serverVars, answerVars
<1>1. call \in Calls
  BY ConnBounds DEF SendFails, ReceiveFails, TypeOK, Calls
<1>2. TypeOK'
  BY <1>1 DEF SendFails, ReceiveFails, exchangeFails, TypeOK, Exchanging, Outcomes
<1>3. OneExchange' /\ NoCrossTalk'
  BY DEF SendFails, ReceiveFails, exchangeFails, OneExchange, NoCrossTalk, Valid, Exchanging
<1> QED BY <1>2, <1>3

LEMMA ReceiveMainInv ==
  ASSUME Inv, ReceiveMain
  PROVE  Inv'
<1> USE DEF Inv, clientVars, ctxVars, watchVars, serverVars, answerVars
<1>1. call \in Calls /\ toClient \in Seq(Frames) /\ toClient # <<>> /\ pc = "read"
  BY ConnBounds DEF ReceiveMain, TypeOK, Calls
<1>2. /\ Head(toClient) = toClient[1] /\ toClient[1] \in Frames
      /\ toClient' \in Seq(Frames)
      /\ Len(toClient) \in Nat /\ Len(toClient) > 0
      /\ Len(toClient') = Len(toClient) - 1
      /\ \A i \in 1 .. Len(toClient) - 1 : toClient'[i] = toClient[i + 1]
  BY <1>1, TailFacts DEF ReceiveMain
<1>3. /\ Len(toServer) = 0 /\ toClient[1].kind \in {"main", "error"}
      /\ toClient[1].of = call
      /\ \/ serving = call /\ written > 0 /\ OpenPart(call)
         \/ serving = 0 /\ LastPart(call)
  BY <1>1, <1>2 DEF OneExchange, Headed, OpenPart, LastPart
<1>4. TypeOK'
  BY <1>1, <1>2, <1>3 DEF ReceiveMain, TypeOK, Exchanging
<1>5. OneExchange'
  <2>1. ASSUME OpenPart(call) PROVE OpenPart(call)'
    BY <1>2, <2>1 DEF OpenPart, ReceiveMain
  <2>2. ASSUME LastPart(call) PROVE LastPart(call)'
    <3>1. Len(toClient) # 1
      BY <1>2, <1>3, <2>2 DEF LastPart
    <3> QED BY <1>2, <2>2, <3>1 DEF LastPart, ReceiveMain
  <2> QED BY <1>1, <1>3, <2>1, <2>2 DEF OneExchange, ReceiveMain, Valid, Exchanging
<1>6. NoCrossTalk'
  BY <1>1, <1>2, <1>3 DEF ReceiveMain, NoCrossTalk, TypeOK
<1> QED BY <1>4, <1>5, <1>6

LEMMA ReceiveRestInv ==
  ASSUME Inv, ReceiveChained \/ ReceiveEnd
  PROVE  Inv'
<1> USE DEF Inv, clientVars, ctxVars, watchVars, serverVars, answerVars
<1>1. call \in Calls /\ toClient \in Seq(Frames) /\ toClient # <<>> /\ pc = "rest"
  BY ConnBounds DEF ReceiveChained, ReceiveEnd, TypeOK, Calls
<1>2. /\ Head(toClient) = toClient[1] /\ toClient[1] \in Frames
      /\ toClient' \in Seq(Frames)
      /\ Len(toClient) \in Nat /\ Len(toClient) > 0
      /\ Len(toClient') = Len(toClient) - 1
      /\ \A i \in 1 .. Len(toClient) - 1 : toClient'[i] = toClient[i + 1]
  BY <1>1, TailFacts DEF ReceiveChained, ReceiveEnd
<1>3. /\ Len(toServer) = 0 /\ res \in {"main", "error"}
      /\ \/ serving = call /\ written > 0 /\ OpenPart(call)
         \/ serving = 0 /\ LastPart(call)
  BY <1>1 DEF OneExchange
<1>4. CASE ReceiveChained
  <2>1. TypeOK'
    BY <1>2, <1>4 DEF ReceiveChained, TypeOK, Exchanging
  <2>2. ASSUME OpenPart(call) PROVE OpenPart(call)'
    BY <1>2, <1>4, <2>2 DEF OpenPart, ReceiveChained
  <2>3. ASSUME LastPart(call) PROVE LastPart(call)'
    <3>1. Len(toClient) # 1
      BY <1>2, <1>4, <2>3 DEF LastPart, ReceiveChained
    <3> QED BY <1>2, <1>4, <2>3, <3>1 DEF LastPart, ReceiveChained
  <2>4. OneExchange'
    BY <1>1, <1>3, <1>4, <2>2, <2>3 DEF OneExchange, ReceiveChained, Valid, Exchanging
  <2> QED BY <1>4, <2>1, <2>4 DEF ReceiveChained, NoCrossTalk
<1>5. CASE ReceiveEnd
  <2>1. Len(toClient) = 1 /\ serving = 0
    BY <1>2, <1>3, <1>5 DEF ReceiveEnd, OpenPart, LastPart
  <2>2. TypeOK'
    BY <1>1, <1>2, <1>3, <1>5 DEF ReceiveEnd, TypeOK, Exchanging, Outcomes
  <2>3. OneExchange'
    BY <1>1, <1>2, <1>3, <1>5, <2>1 DEF OneExchange, ReceiveEnd, Valid, Exchanging, Quiet
  <2> QED BY <1>5, <2>2, <2>3 DEF ReceiveEnd, NoCrossTalk
<1> QED BY <1>4, <1>5

LEMMA StopInv ==
  ASSUME Inv, Stop \/ Abandon
  PROVE  Inv'
<1> USE DEF Inv, clientVars, ctxVars, watchVars, serverVars, answerVars
<1>1. call \in Calls
  BY ConnBounds DEF Stop, Abandon, TypeOK, Calls
<1>2. TypeOK'
  BY <1>1 DEF Stop, Abandon, stop, TypeOK, Exchanging
<1>3. OneExchange' /\ NoCrossTalk'
  BY DEF Stop, Abandon, OneExchange, NoCrossTalk, Valid, Exchanging, Quiet
<1> QED BY <1>2, <1>3

LEMMA CloseInv ==
  ASSUME Inv, Close
  PROVE  Inv'
<1> USE DEF Inv, clientVars, ctxVars, watchVars, serverVars, answerVars
<1>1. toServer' \in Seq(Calls \cup {DISCONNECT})
  <2>1. PICK r \in {left, DISCONNECT} :
          toServer' = toServer \/ toServer' = Append(toServer, r)
    BY DEF Close
  <2>2. toServer \in Seq(Calls \cup {DISCONNECT}) /\ r \in Calls \cup {DISCONNECT}
    BY DEF TypeOK, DISCONNECT
  <2> QED BY <2>1, <2>2, AppendFacts
<1>2. TypeOK'
  BY <1>1 DEF Close, TypeOK, Exchanging
<1>3. OneExchange' /\ NoCrossTalk'
  BY DEF Close, OneExchange, NoCrossTalk, Valid, Exchanging
<1> QED BY <1>2, <1>3

LEMMA NetworkInv ==
  ASSUME Inv, NetworkDrops
  PROVE  Inv'
<1> USE DEF Inv, clientVars, ctxVars, watchVars, serverVars, answerVars
<1>1. toServer' \in Seq(Calls \cup {DISCONNECT}) /\ Len(toServer') = 0
  BY EmptySeq DEF NetworkDrops
<1>2. TypeOK'
  BY <1>1, ZenonT(40) DEF NetworkDrops, TypeOK, Exchanging
<1>3. OneExchange' /\ NoCrossTalk'
  BY <1>1 DEF NetworkDrops, OneExchange, NoCrossTalk, Valid, Exchanging, Quiet,
     Headed, OpenPart, LastPart, TypeOK
<1> QED BY <1>2, <1>3

LEMMA ServerReadsInv ==
  ASSUME Inv, ServerReads
  PROVE  Inv'
<1> USE DEF Inv, clientVars, ctxVars, watchVars, serverVars, answerVars
<1>1. /\ Head(toServer) = toServer[1] /\ Head(toServer) \in Calls \cup {DISCONNECT}
      /\ toServer' \in Seq(Calls \cup {DISCONNECT})
      /\ Len(toServer) > 0 /\ Len(toServer) \in Nat
      /\ Len(toServer') = Len(toServer) - 1
  BY TailFacts DEF ServerReads, TypeOK
<1>2. TypeOK'
  BY <1>1 DEF ServerReads, TypeOK, Exchanging, DISCONNECT
<1>3. OneExchange' /\ NoCrossTalk'
  BY <1>1 DEF ServerReads, OneExchange, NoCrossTalk, Valid, Exchanging, Quiet, TypeOK
<1> QED BY <1>2, <1>3

(* The server appends a frame to its response. *)
LEMMA WriteFacts ==
  ASSUME TypeOK, serving # 0, NEW kind \in {"main", "error", "chained", "end"},
         serverWrites(kind)
  PROVE  /\ toClient' \in Seq(Frames) /\ Len(toClient) \in Nat
         /\ Len(toClient') = Len(toClient) + 1
         /\ \A i \in 1 .. Len(toClient) : toClient'[i] = toClient[i]
         /\ toClient'[Len(toClient) + 1].of = serving
         /\ toClient'[Len(toClient) + 1].kind = kind
<1>1. [of |-> serving, kind |-> kind] \in Frames /\ toClient \in Seq(Frames)
  BY DEF TypeOK, Frames
<1> QED BY <1>1, AppendFacts, LenProperties DEF serverWrites

(* The first frame, written when the statement ends or is aborted: only    *)
(* the exchange under way can be served on a usable connection.            *)
LEMMA FirstFrame ==
  ASSUME Inv, serving # 0, written = 0, NEW kind \in {"main", "error"},
         serverWrites(kind), written' = 1, serving' = serving
  PROVE  OneExchange'
<1>1. /\ Len(toClient) \in Nat /\ Len(toClient') = Len(toClient) + 1
      /\ toClient'[Len(toClient) + 1].of = serving
      /\ toClient'[Len(toClient) + 1].kind = kind
  BY WriteFacts DEF Inv
<1> USE DEF clientVars, ctxVars, watchVars, answerVars, serverWrites
<1>2. pc \in {"read", "rest"} => /\ pc = "read" /\ serving = call
                                 /\ Len(toServer) = 0 /\ Len(toClient) = 0
  BY DEF Inv, OneExchange, Headed, LastPart
<1>3. ASSUME pc = "read" PROVE Headed' /\ OpenPart(call)'
  BY <1>1, <1>2, <1>3 DEF Headed, OpenPart
<1>4. pc \in {"new", "idle", "send", "stop"} => ~Valid
  BY DEF Inv, OneExchange, Quiet
<1> QED BY <1>2, <1>3, <1>4 DEF Inv, OneExchange, Valid, Exchanging

LEMMA ServerAnswersInv ==
  ASSUME Inv, ServerAnswers
  PROVE  Inv'
<1>1. PICK kind \in {"main", "error"} : serverWrites(kind)
  BY DEF ServerAnswers
<1>2. serving # 0 /\ written = 0 /\ written' = 1 /\ serving' = serving
  BY DEF ServerAnswers
<1>3. OneExchange'
  BY <1>1, <1>2, FirstFrame
<1>4. toClient' \in Seq(Frames)
  BY <1>1, <1>2, WriteFacts DEF Inv
<1>5. TypeOK' /\ NoCrossTalk'
  BY <1>1, <1>2, <1>4 DEF ServerAnswers, serverWrites, Inv, TypeOK, NoCrossTalk, Exchanging,
     clientVars, ctxVars, watchVars, answerVars
<1> QED BY <1>3, <1>5 DEF Inv

LEMMA ServerChainsInv ==
  ASSUME Inv, ServerChains
  PROVE  Inv'
<1>1. serverWrites("chained") /\ written' = written + 1 /\ serving' = serving /\ written > 0
  BY DEF ServerChains, Inv, TypeOK
<1>2. serving # 0
  BY <1>1 DEF Inv, TypeOK
<1>3. /\ toClient' \in Seq(Frames) /\ Len(toClient) \in Nat
      /\ Len(toClient') = Len(toClient) + 1
      /\ \A i \in 1 .. Len(toClient) : toClient'[i] = toClient[i]
      /\ toClient'[Len(toClient) + 1].of = serving
      /\ toClient'[Len(toClient) + 1].kind = "chained"
  BY <1>1, <1>2, WriteFacts DEF Inv
<1>4. TypeOK' /\ NoCrossTalk'
  BY <1>1, <1>2, <1>3 DEF ServerChains, serverWrites, Inv, TypeOK, NoCrossTalk, Exchanging,
     clientVars, ctxVars, watchVars, answerVars
<1>5. pc \in {"read", "rest"} => serving = call /\ Len(toServer) = 0 /\ OpenPart(call)
  BY <1>1, <1>2 DEF Inv, OneExchange
<1>6. ASSUME pc \in {"read", "rest"} PROVE OpenPart(call)'
  BY <1>1, <1>3, <1>5, <1>6 DEF OpenPart, serverWrites
<1>7. pc = "read" => Headed /\ Headed'
  BY <1>1, <1>2, <1>3 DEF Inv, OneExchange, Headed
<1>8. pc \in {"new", "idle", "send", "stop"} => ~Valid
  BY <1>2 DEF Inv, OneExchange, Quiet
<1>9. OneExchange'
  <2>1. written' > 0
    BY <1>1 DEF Inv, TypeOK
  <2> QED
    BY <1>1, <1>5, <1>6, <1>7, <1>8, <2>1 DEF Inv, OneExchange, Valid, Exchanging,
       serverWrites, clientVars
<1> QED BY <1>4, <1>9 DEF Inv

LEMMA ServerEndsInv ==
  ASSUME Inv, ServerEnds
  PROVE  Inv'
<1>1. serverWrites("end") /\ written' = 0 /\ serving' = 0 /\ written > 0
  BY DEF ServerEnds
<1>2. serving # 0
  BY <1>1 DEF Inv, TypeOK
<1>3. /\ toClient' \in Seq(Frames) /\ Len(toClient) \in Nat
      /\ Len(toClient') = Len(toClient) + 1
      /\ \A i \in 1 .. Len(toClient) : toClient'[i] = toClient[i]
      /\ toClient'[Len(toClient) + 1].of = serving
      /\ toClient'[Len(toClient) + 1].kind = "end"
  BY <1>1, <1>2, WriteFacts DEF Inv
<1>4. TypeOK' /\ NoCrossTalk'
  BY <1>1, <1>2, <1>3 DEF ServerEnds, serverWrites, Inv, TypeOK, NoCrossTalk, Exchanging,
     clientVars, ctxVars, watchVars, answerVars
<1>5. pc \in {"read", "rest"} => serving = call /\ Len(toServer) = 0 /\ OpenPart(call)
  BY <1>1, <1>2 DEF Inv, OneExchange
<1>6. ASSUME pc \in {"read", "rest"} PROVE LastPart(call)'
  BY <1>1, <1>3, <1>5, <1>6 DEF OpenPart, LastPart, serverWrites
<1>7. pc = "read" => Headed /\ Headed'
  BY <1>1, <1>2, <1>3 DEF Inv, OneExchange, Headed
<1>8. pc \in {"new", "idle", "send", "stop"} => ~Valid
  BY <1>2 DEF Inv, OneExchange, Quiet
<1>9. OneExchange'
  BY <1>1, <1>5, <1>6, <1>7, <1>8 DEF Inv, OneExchange, Valid, Exchanging,
     serverWrites, clientVars
<1> QED BY <1>4, <1>9 DEF Inv

LEMMA CancelArrivesInv ==
  ASSUME Inv, NEW k \in Calls, CancelArrives(k)
  PROVE  Inv'
<1>1. CASE up /\ serving # 0 /\ written = 0
  <2>1. /\ serverWrites("error") /\ written' = 1 /\ serving' = serving
        /\ aborted' = aborted \cup {serving} /\ cancels' = cancels \ {k}
    BY <1>1 DEF CancelArrives
  <2>2. OneExchange'
    BY <1>1, <2>1, FirstFrame
  <2>3. toClient' \in Seq(Frames)
    BY <1>1, <2>1, WriteFacts DEF Inv
  <2>4. TypeOK' /\ NoCrossTalk'
    BY <1>1, <2>1, <2>3 DEF serverWrites, Inv, TypeOK, NoCrossTalk, Exchanging, clientVars,
       ctxVars, watchVars, answerVars
  <2> QED BY <2>2, <2>4 DEF Inv
<1>2. CASE ~(up /\ serving # 0 /\ written = 0)
  <2>1. UNCHANGED <<wire, from>>
    BY <1>2 DEF CancelArrives, clientVars, serverVars, answerVars, wire
  <2>2. TypeOK'
    BY <1>2 DEF CancelArrives, Inv, TypeOK, Exchanging, clientVars, ctxVars, watchVars,
       serverVars, answerVars
  <2> QED BY <2>1, <2>2, WireUnchanged
<1> QED BY <1>1, <1>2

-----------------------------------------------------------------------------
LEMMA NextInv == Inv /\ [Next]_vars => Inv'
<1> SUFFICES ASSUME Inv, [Next]_vars PROVE Inv'
  OBVIOUS
<1>1. CASE Caller
  BY <1>1, StartInv, RefusedInv, SendInv, FailInv, ReceiveMainInv, ReceiveRestInv, StopInv, CloseInv,
     ConnBounds DEF Caller
<1>2. CASE \E k \in Calls : Watcher(k)
  BY <1>2, WatcherInv
<1>3. CASE Environment
  BY <1>3, ContextInv, CancelArrivesInv, NetworkInv, ServerReadsInv, ServerAnswersInv,
     ServerChainsInv, ServerEndsInv DEF Environment
<1>4. CASE UNCHANGED vars
  <2>1. UNCHANGED <<wire, from>>
    BY <1>4 DEF vars, wire
  <2>2. TypeOK'
    BY <1>4 DEF vars, Inv, TypeOK, Exchanging
  <2> QED BY <2>1, <2>2, WireUnchanged
<1> QED BY <1>1, <1>2, <1>3, <1>4 DEF Next

(* The inductive invariant holds in every reachable state. *)
THEOREM ConnInvariant == Spec => []Inv
<1> QED BY InitInv, NextInv, PTL DEF Spec

(* The fields of conn, the watchers, the socket and the session keep their *)
(* types; in particular the main Result of every response decodes as a     *)
(* main Result.                                                            *)
THEOREM TypeCorrect == Spec => []TypeOK
<1>1. Inv => TypeOK
  BY DEF Inv
<1> QED BY <1>1, ConnInvariant, PTL

(* What is on the wire of a usable connection is the exchange under way:   *)
(* its request, the server at work on it, or its response.                 *)
THEOREM WireHoldsOneExchange == Spec => []OneExchange
<1>1. Inv => OneExchange
  BY DEF Inv
<1> QED BY <1>1, ConnInvariant, PTL

(* No caller of receive ever gets the response of another exchange, in     *)
(* whichever order responses, cancellations, deadlines and drops come.     *)
THEOREM NeverCrossTalks == Spec => []NoCrossTalk
<1>1. Inv => NoCrossTalk
  BY DEF Inv
<1> QED BY <1>1, ConnInvariant, PTL

(* A connection that IsValid lets back into the pool has a quiet wire. *)
THEOREM ValidStaysAligned == Spec => []ValidIsAligned
<1>1. Inv => ValidIsAligned
  BY EmptyFacts DEF Inv, ValidIsAligned, OneExchange, Quiet, TypeOK
<1> QED BY <1>1, ConnInvariant, PTL

-----------------------------------------------------------------------------
(* A deadline that is on the socket of a usable connection is that of the  *)
(* context of the exchange under way, so stop will take it off.            *)
OwnDeadline ==
  deadline \in Calls /\ Valid
    => /\ deadline = call /\ pc \in Exchanging \cup {"stop", "abandon"}
       /\ ctx[call] = "timeout"

LEMMA OwnDeadlineStep == Inv /\ OwnDeadline /\ [Next]_vars => OwnDeadline'
<1> SUFFICES ASSUME Inv, OwnDeadline, [Next]_vars PROVE OwnDeadline'
  OBVIOUS
<1> USE DEF OwnDeadline, Valid, Exchanging, clientVars, ctxVars, watchVars, serverVars,
        answerVars
<1>0. NoDeadline \notin Calls /\ Past \notin Calls
  BY DEF Calls, NoDeadline, Past
<1>1. ASSUME NEW kind \in CtxKinds, Connect(kind) PROVE OwnDeadline'
  <2>1. deadline \notin Calls \/ ~Valid
    BY <1>1 DEF Connect
  <2>2. 1 \in Calls /\ call' = 1 /\ ctx' = [ctx EXCEPT ![1] = kind]
        /\ deadline' = IF kind = "timeout" THEN 1 ELSE deadline
    BY <1>1, ConnBounds DEF Connect, watchCancel, Calls
  <2> QED BY <1>1, <2>1, <2>2 DEF Connect, Inv, TypeOK
<1>2. ASSUME NEW kind \in CtxKinds, ExecStart(kind) PROVE OwnDeadline'
  <2>1. deadline \notin Calls \/ ~Valid
    BY <1>2 DEF ExecStart
  <2>2. call + 1 \in Calls /\ call' = call + 1 /\ ctx' = [ctx EXCEPT ![call + 1] = kind]
        /\ deadline' = IF kind = "timeout" THEN call + 1 ELSE deadline
    BY <1>2, ConnBounds DEF ExecStart, watchCancel, Calls, Inv, TypeOK
  <2> QED BY <1>2, <2>1, <2>2 DEF ExecStart, Inv, TypeOK
<1>3. ASSUME NEW kind \in CtxKinds, ExecExpired(kind) PROVE OwnDeadline'
  BY <1>3 DEF ExecExpired
<1>4. CASE ExecRefused
  BY <1>4 DEF ExecRefused
<1>5. CASE Send \/ ReceiveMain \/ ReceiveChained \/ ReceiveEnd
  BY <1>5 DEF Send, ReceiveMain, ReceiveChained, ReceiveEnd
<1>6. CASE SendFails \/ ReceiveFails
  BY <1>6 DEF SendFails, ReceiveFails, exchangeFails
<1>7. CASE Stop \/ Abandon
  BY <1>0, <1>7 DEF Stop, Abandon, stop
<1>8. CASE Close
  BY <1>8 DEF Close
<1>9. ASSUME NEW k \in Calls, Watcher(k) PROVE OwnDeadline'
  BY <1>0, <1>9 DEF Watcher, WatchCancelled, WatchDone, fireCancel, WatchExpire,
     watcherUnchanged
<1>10. CASE Environment
  BY <1>10 DEF Environment, DeadlinePasses, ContextDone, CancelArrives, NetworkDrops,
     ServerReads, ServerAnswers, ServerChains, ServerEnds, serverWrites
<1>11. CASE UNCHANGED vars
  BY <1>11 DEF vars
<1> QED BY <1>1, <1>2, <1>3, <1>4, <1>5, <1>6, <1>7, <1>8, <1>9, <1>10, <1>11
           DEF Next, Caller

(* stop takes a context's own deadline off the socket before the next call: *)
(* what a later call can inherit is at most a watcher's immediate deadline. *)
THEOREM DeadlinesNotInherited == Spec => []NoInheritedDeadline
<1>1. Init => OwnDeadline
  BY DEF Init, OwnDeadline, Calls, NoDeadline
<1>2. OwnDeadline => NoInheritedDeadline
  BY DEF OwnDeadline, NoInheritedDeadline
<1> QED BY <1>1, <1>2, ConnInvariant, OwnDeadlineStep, PTL DEF Spec

-----------------------------------------------------------------------------
(* Why an abort cannot be mistaken for success.  The server works only on  *)
(* exchanges that were begun and that no caller was told are done; and the *)
(* response to an aborted one is an ERROR wherever it is on its way.       *)
OpenWork ==
  /\ serving <= call /\ left <= call
  /\ \A i \in 1 .. Len(toServer) : toServer[i] <= call
  /\ \A k \in Calls : outcome[k] = "main" =>
       /\ k < call \/ (k = call /\ pc \notin Exchanging)
       /\ serving # k /\ left # k
       /\ \A i \in 1 .. Len(toServer) : toServer[i] # k

AbortsOnWire ==
  \A k \in aborted :
     /\ k < call \/ (k = call /\ pc \notin {"new", "send"})
     /\ k = call /\ pc = "read" => Len(toClient) > 0 /\ toClient[1].kind = "error"
     /\ k = call /\ pc = "rest" => res = "error"
     /\ outcome[k] # "main"

AbortInv == OpenWork /\ AbortsOnWire

(* The state AbortInv speaks of. *)
work == <<call, pc, res, left, serving, toServer, toClient, outcome, aborted>>

LEMMA WorkUnchanged ==
  ASSUME AbortInv, UNCHANGED work
  PROVE  AbortInv'
  BY DEF AbortInv, OpenWork, AbortsOnWire, work, Exchanging

LEMMA AbortStart ==
  ASSUME Inv, AbortInv, pc \in {"new", "idle"}, call < MaxCalls,
         call' = (IF pc = "new" THEN 1 ELSE call + 1), pc' \in {"idle", "send"},
         outcome' = outcome \/ (\E o \in {"badConn", "ctxErr"} :
                                  outcome' = [outcome EXCEPT ![call + 1] = o]),
         pc = "new" => call = 0,
         UNCHANGED <<res, left, serving, toServer, toClient, aborted>>
  PROVE  AbortInv'
<1>1. call \in Nat /\ call' = call + 1 /\ call + 1 \in Calls
  BY ConnBounds DEF Inv, TypeOK, Calls
<1>2. /\ \A k \in Calls : outcome'[k] = "main" => outcome[k] = "main"
      /\ \A k \in Calls : k < call + 1 => outcome'[k] = outcome[k]
  <2>1. CASE outcome' = outcome
    BY <2>1
  <2>2. ASSUME NEW o \in {"badConn", "ctxErr"},
               outcome' = [outcome EXCEPT ![call + 1] = o]
        PROVE  <1>2!1 /\ <1>2!2
    <3>1. outcome \in [Calls -> Outcomes]
      BY DEF Inv, TypeOK
    <3>2. \A k \in Calls : outcome'[k] = IF k = call + 1 THEN o ELSE outcome[k]
      BY <2>2, <3>1, <1>1
    <3>3. \A k \in Calls : k < call + 1 => k # call + 1
      BY <1>1 DEF Calls
    <3> QED BY <3>2, <3>3
  <2> QED BY <2>1, <2>2
<1>3. serving \in Int /\ left \in Int /\ \A i \in 1 .. Len(toServer) : toServer[i] \in Int
  BY ElementOfSeq DEF Inv, TypeOK, Calls, DISCONNECT
<1>4. OpenWork'
  BY <1>1, <1>2, <1>3 DEF AbortInv, OpenWork, Exchanging, Calls
<1>5. AbortsOnWire'
  BY <1>1, <1>2 DEF AbortInv, AbortsOnWire, Calls, Inv, TypeOK
<1> QED BY <1>4, <1>5 DEF AbortInv

LEMMA AbortCaller ==
  ASSUME Inv, AbortInv, Caller
  PROVE  AbortInv'
<1> USE DEF clientVars, ctxVars, watchVars, serverVars, answerVars
<1>0. pc # "new" => call \in Calls
  BY ConnBounds DEF Inv, TypeOK, Calls
<1>1. ASSUME NEW kind \in CtxKinds,
             Connect(kind) \/ ExecExpired(kind) \/ ExecStart(kind)
      PROVE  AbortInv'
  <2>1. CASE Connect(kind)
    <3>1. call = 0
      BY <2>1, ConnBounds DEF Connect, Inv, TypeOK, OneExchange
    <3> QED BY <2>1, <3>1, AbortStart, ConnBounds DEF Connect
  <2>2. CASE ExecExpired(kind)
    BY <2>2, AbortStart DEF ExecExpired
  <2>3. CASE ExecStart(kind)
    BY <2>3, AbortStart DEF ExecStart
  <2> QED BY <1>1, <2>1, <2>2, <2>3
<1>2. CASE ExecRefused
  BY <1>2, AbortStart DEF ExecRefused
<1>3. CASE Send
  <2>1. call \in Calls /\ pc = "send" /\ call' = call
    BY <1>0, <1>3 DEF Send
  <2>2. /\ Len(toServer') = 1 /\ toServer'[1] = call /\ serving = 0
    <3>1. Len(toServer) = 0 /\ serving = 0
      BY <1>3 DEF Send, Inv, OneExchange, Exchanging, Valid, Quiet
    <3> QED BY <2>1, <3>1, <1>3, AppendFacts DEF Send, Inv, TypeOK
  <2>3. OpenWork'
    BY <1>3, <2>1, <2>2 DEF Send, AbortInv, OpenWork, Exchanging, Calls
  <2>4. AbortsOnWire'
    <3>1. \A k \in aborted : k < call /\ k # call /\ outcome[k] # "main"
      BY <2>1 DEF AbortInv, AbortsOnWire, Inv, TypeOK, Calls
    <3> QED BY <1>3, <2>1, <3>1 DEF Send, AbortsOnWire
  <2> QED BY <2>3, <2>4 DEF AbortInv
<1>4. CASE SendFails \/ ReceiveFails
  <2>1. /\ call \in Calls /\ pc' \in {"abandon", "stop"} /\ call' = call
        /\ \E o \in {"ctxErr", "ioErr"} : outcome' = [outcome EXCEPT ![call] = o]
        /\ UNCHANGED <<serving, toServer, toClient, aborted>>
    BY <1>0, <1>4 DEF SendFails, ReceiveFails, exchangeFails
  <2>2. left' \in {left, 0, call}
    BY <1>4 DEF SendFails, ReceiveFails
  <2>3. OpenWork'
    <3>1. \A k \in Calls : outcome'[k] = "main" => k # call /\ outcome[k] = "main"
      BY <2>1 DEF Inv, TypeOK
    <3>2. left' <= call' /\ \A k \in Calls : outcome'[k] = "main" => left' # k
      BY <2>1, <2>2, <3>1 DEF AbortInv, OpenWork, Calls
    <3> QED BY <2>1, <3>1, <3>2 DEF AbortInv, OpenWork, Exchanging
  <2>4. AbortsOnWire'
    BY <1>4, <2>1 DEF AbortInv, AbortsOnWire, Inv, TypeOK, SendFails, ReceiveFails
  <2> QED BY <2>3, <2>4 DEF AbortInv
<1>5. CASE ReceiveMain
  <2>1. Head(toClient) = toClient[1]
    BY <1>5, TailFacts DEF ReceiveMain, Inv, TypeOK
  <2> QED BY <1>5, <2>1 DEF ReceiveMain, AbortInv, OpenWork, AbortsOnWire, Exchanging
<1>6. CASE ReceiveChained
  BY <1>6 DEF ReceiveChained, AbortInv, OpenWork, AbortsOnWire, Exchanging
<1>7. CASE ReceiveEnd
  <2>1. call \in Calls /\ pc = "rest" /\ pc' \in {"abandon", "stop"} /\ call' = call
        /\ outcome' = [outcome EXCEPT ![call] = res]
    BY <1>0, <1>7 DEF ReceiveEnd
  <2>2. serving = 0 /\ Len(toServer) = 0 /\ left = 0 /\ left' = left
    <3>1. serving = 0 /\ Len(toServer) = 0
      BY <1>7, TailFacts DEF ReceiveEnd, Inv, OneExchange, OpenPart, TypeOK
    <3>2. left = 0 /\ left' = left
      BY <1>7 DEF ReceiveEnd, Inv, OneExchange, Exchanging, Valid, TypeOK
    <3> QED BY <3>1, <3>2
  <2>3. OpenWork'
    BY <1>7, <2>1, <2>2 DEF ReceiveEnd, AbortInv, OpenWork, Exchanging, Inv, TypeOK, Calls
  <2>4. AbortsOnWire'
    BY <1>7, <2>1 DEF ReceiveEnd, AbortInv, AbortsOnWire, Inv, TypeOK
  <2> QED BY <2>3, <2>4 DEF AbortInv
<1>8. CASE Stop \/ Abandon
  BY <1>8 DEF Stop, Abandon, AbortInv, OpenWork, AbortsOnWire, Exchanging
<1>9. CASE Close
  <2>1. \A i \in 1 .. Len(toServer') : toServer'[i] \in {left, DISCONNECT}
          \/ (i \in 1 .. Len(toServer) /\ toServer'[i] = toServer[i])
    <3>1. CASE toServer' = toServer
      BY <3>1
    <3>2. ASSUME NEW r \in {left, DISCONNECT}, toServer' = Append(toServer, r)
          PROVE  \A i \in 1 .. Len(toServer') : toServer'[i] = r
                   \/ (i \in 1 .. Len(toServer) /\ toServer'[i] = toServer[i])
      <4>1. r \in Calls \cup {DISCONNECT}
        BY DEF Inv, TypeOK, DISCONNECT
      <4> QED BY <3>2, <4>1, AppendFacts, LenProperties DEF Inv, TypeOK
    <3> QED BY <1>9, <3>1, <3>2 DEF Close
  <2>2. call \in Nat
    BY ConnBounds DEF Inv, TypeOK
  <2>3. OpenWork'
    BY <1>9, <2>1, <2>2 DEF Close, AbortInv, OpenWork, DISCONNECT, Calls
  <2>4. AbortsOnWire'
    BY <1>9 DEF Close, AbortInv, AbortsOnWire
  <2> QED BY <2>3, <2>4 DEF AbortInv
<1> QED BY <1>1, <1>2, <1>3, <1>4, <1>5, <1>6, <1>7, <1>8, <1>9 DEF Caller

(* A frame the server appends leaves the ones before it in place. *)
LEMMA AbortWrites ==
  ASSUME Inv, AbortInv, NEW kind \in {"main", "error", "chained", "end"},
         serverWrites(kind), serving # 0
  PROVE  /\ Len(toClient') = Len(toClient) + 1
         /\ Len(toClient) > 0 => toClient'[1] = toClient[1]
         /\ Len(toClient) = 0 => toClient'[1].kind = kind
<1>1. toClient \in Seq(Frames) /\ [of |-> serving, kind |-> kind] \in Frames
  BY DEF Inv, TypeOK, Frames
<1>2. toClient' = Append(toClient, [of |-> serving, kind |-> kind])
  BY DEF serverWrites
<1> QED BY <1>1, <1>2, AppendFacts, LenProperties

LEMMA AbortServer ==
  ASSUME Inv, AbortInv, ServerAnswers \/ ServerChains \/ ServerEnds
  PROVE  AbortInv'
<1> USE DEF clientVars, ctxVars, watchVars, serverVars, answerVars
<1>1. PICK kind \in {"main", "error", "chained", "end"} : serverWrites(kind)
  BY DEF ServerAnswers, ServerChains, ServerEnds
<1>2. serving # 0
  BY DEF Inv, TypeOK, ServerAnswers, ServerChains, ServerEnds
<1>3. Len(toClient) > 0 => Len(toClient') > 0 /\ toClient'[1] = toClient[1]
  <2>1. Len(toClient) \in Nat
    BY LenProperties DEF Inv, TypeOK
  <2> QED BY <1>1, <1>2, <2>1, AbortWrites
<1>4. UNCHANGED <<call, pc, res, left, toServer, outcome, aborted>>
      /\ serving' \in {serving, 0}
  BY DEF ServerAnswers, ServerChains, ServerEnds, serverWrites
<1>5. OpenWork'
  <2>1. call \in Nat
    BY ConnBounds DEF Inv, TypeOK
  <2>2. \A k \in Calls : k # 0
    BY DEF Calls
  <2> QED BY <1>4, <2>1, <2>2 DEF AbortInv, OpenWork, Exchanging
<1>6. AbortsOnWire'
  BY <1>3, <1>4 DEF AbortInv, AbortsOnWire
<1> QED BY <1>5, <1>6 DEF AbortInv

LEMMA AbortReads ==
  ASSUME Inv, AbortInv, ServerReads
  PROVE  AbortInv'
<1> USE DEF clientVars, ctxVars, watchVars, serverVars, answerVars
<1>1. /\ Len(toServer) \in Nat /\ Len(toServer) > 0
      /\ serving' = toServer[1] /\ Len(toServer') = Len(toServer) - 1
      /\ \A i \in 1 .. Len(toServer') : toServer'[i] = toServer[i + 1]
  BY TailFacts DEF ServerReads, Inv, TypeOK
<1>2. \A i \in 1 .. Len(toServer') : i + 1 \in 1 .. Len(toServer)
  BY <1>1
<1>3. UNCHANGED <<call, pc, res, left, toClient, outcome, aborted>>
  BY DEF ServerReads
<1>4. OpenWork'
  <2>1. 1 \in 1 .. Len(toServer)
    BY <1>1
  <2> QED BY <1>1, <1>2, <1>3, <2>1 DEF AbortInv, OpenWork, Exchanging
<1>5. AbortsOnWire'
  BY <1>3 DEF AbortInv, AbortsOnWire
<1> QED BY <1>4, <1>5 DEF AbortInv

LEMMA AbortDrops ==
  ASSUME Inv, AbortInv, NetworkDrops
  PROVE  AbortInv'
<1>1. Len(toServer') = 0
  BY EmptySeq DEF NetworkDrops
<1>2. UNCHANGED <<call, pc, res, left, serving, toClient, outcome, aborted>>
  BY DEF NetworkDrops, clientVars, serverVars, answerVars
<1> QED BY <1>1, <1>2 DEF AbortInv, OpenWork, AbortsOnWire, Exchanging

(* The SQLCANCEL itself: the statement it aborts has no frame of its       *)
(* response on the wire yet, so the ERROR is what its caller reads first.  *)
LEMMA AbortArrives ==
  ASSUME Inv, AbortInv, NEW c \in Calls, CancelArrives(c)
  PROVE  AbortInv'
<1> USE DEF clientVars, ctxVars, watchVars, serverVars, answerVars
<1>1. CASE ~(up /\ serving # 0 /\ written = 0)
  BY <1>1, WorkUnchanged DEF CancelArrives, work
<1>2. CASE up /\ serving # 0 /\ written = 0
  <2>1. serverWrites("error") /\ aborted' = aborted \cup {serving}
        /\ UNCHANGED <<call, pc, res, left, serving, toServer, outcome>>
    BY <1>2 DEF CancelArrives, serverWrites
  <2>2. Len(toClient) \in Nat /\ serving \in Calls /\ call \in Nat
    BY <1>2, ConnBounds, LenProperties DEF Inv, TypeOK
  <2>3. /\ Len(toClient') = Len(toClient) + 1
        /\ Len(toClient) > 0 => toClient'[1] = toClient[1]
        /\ Len(toClient) = 0 => toClient'[1].kind = "error"
    BY <1>2, <2>1, AbortWrites
  <2>4. OpenWork'
    BY <2>1 DEF AbortInv, OpenWork, Exchanging
  <2>5. /\ pc \notin {"new", "send", "rest"} \/ serving # call
        /\ pc = "read" /\ serving = call => Len(toClient) = 0
    BY <1>2 DEF Inv, OneExchange, Exchanging, Quiet
  <2>6. serving < call \/ (serving = call /\ pc \notin {"new", "send"})
    <3>1. serving <= call
      BY DEF AbortInv, OpenWork
    <3> QED BY <2>2, <2>5, <3>1 DEF Calls
  <2>7. outcome[serving] # "main"
    BY <2>2 DEF AbortInv, OpenWork
  <2>8. AbortsOnWire'
    BY <2>1, <2>2, <2>3, <2>5, <2>6, <2>7 DEF AbortInv, AbortsOnWire
  <2> QED BY <2>4, <2>8 DEF AbortInv
<1> QED BY <1>1, <1>2

LEMMA AbortStep == Inv /\ AbortInv /\ [Next]_vars => AbortInv'
<1> SUFFICES ASSUME Inv, AbortInv, [Next]_vars PROVE AbortInv'
  OBVIOUS
<1> USE DEF clientVars, ctxVars, watchVars, serverVars, answerVars
<1>1. CASE Caller
  BY <1>1, AbortCaller
<1>2. ASSUME NEW k \in Calls, Watcher(k) PROVE AbortInv'
  <2>1. UNCHANGED work
    BY <1>2 DEF Watcher, WatchCancelled, WatchDone, fireCancel, WatchExpire,
       watcherUnchanged, work
  <2> QED BY <2>1, WorkUnchanged
<1>3. ASSUME NEW k \in Calls, DeadlinePasses(k) \/ ContextDone(k) PROVE AbortInv'
  <2>1. UNCHANGED work
    BY <1>3 DEF DeadlinePasses, ContextDone, work
  <2> QED BY <2>1, WorkUnchanged
<1>4. ASSUME NEW k \in Calls, CancelArrives(k) PROVE AbortInv'
  BY <1>4, AbortArrives
<1>5. CASE NetworkDrops
  BY <1>5, AbortDrops
<1>6. CASE ServerReads
  BY <1>6, AbortReads
<1>7. CASE ServerAnswers \/ ServerChains \/ ServerEnds
  BY <1>7, AbortServer
<1>8. CASE UNCHANGED vars
  <2>1. UNCHANGED work
    BY <1>8 DEF vars, work
  <2> QED BY <2>1, WorkUnchanged
<1> QED BY <1>1, <1>2, <1>3, <1>4, <1>5, <1>6, <1>7, <1>8 DEF Next, Environment

(* Whatever the order of the response, the SQLCANCEL and the deadline, a   *)
(* statement the server aborted is not reported to its caller as done.     *)
THEOREM AbortsAreReported == Spec => []AbortIsReported
<1>1. Init => AbortInv
  BY EmptySeq, ConnBounds
     DEF Init, AbortInv, OpenWork, AbortsOnWire, Calls
<1>2. AbortInv => AbortIsReported
  BY DEF AbortInv, AbortsOnWire, AbortIsReported
<1> QED BY <1>1, <1>2, ConnInvariant, AbortStep, PTL DEF Spec
=============================================================================
