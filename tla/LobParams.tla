------------------------------ MODULE LobParams ------------------------------
(***************************************************************************)
(* LOB parameters of a statement (lob.go, array_param.go): before a request *)
(* is written, prepareLobParams replaces each LOB value in the request by a *)
(* LobRef with a temporary id, and the payloads follow in the same         *)
(* transmission.  Ids come from the connection's lobIDSeq, which counts    *)
(* down from -1 and which ResetSession starts again.                       *)
(*                                                                         *)
(* The replacement happens in place.  stmt.execute binds a copy of the     *)
(* caller's values; QueryUpdatable binds the caller's own slice, which the *)
(* caller may use again, on this connection or on another one after a      *)
(* failure.                                                                *)
(***************************************************************************)
EXTENDS Integers, FiniteSets

CONSTANTS Conns,      \* connections
          NumParams,  \* parameters of the statement
          Payloads,   \* contents of LOBs
          Paths,      \* "stmt" and "updatable": how the values are passed
          MaxIDs,     \* bound on the temporary ids of a connection
          MaxFails    \* bound on the exchanges that fail

ASSUME LobParamsBounds ==
  /\ NumParams \in Nat /\ MaxIDs \in Nat /\ MaxFails \in Nat
  /\ Paths \subseteq {"stmt", "updatable"} /\ "none" \notin Payloads

Params == 1 .. NumParams
Ids    == -MaxIDs .. -1

(* A value of a LOB parameter: NULL, content, a reference, or something    *)
(* blobParam and clobParam cannot bind.                                    *)
Null    == [kind |-> "null", id |-> 0, data |-> "none"]
Bad     == [kind |-> "bad", id |-> 0, data |-> "none"]
Raw(p)  == [kind |-> "raw", id |-> 0, data |-> p]
Ref(id) == [kind |-> "ref", id |-> id, data |-> "none"]
Inputs  == {Null, Bad} \cup {Raw(p) : p \in Payloads}

VARIABLES
  lobIDSeq,           \* a field of each connection
  brokenConns,        \* the connections whose broken is set
  args, meant,        \* the caller's slice, and what it put there
  reused,             \* the slice has been through QueryUpdatable
  temp,               \* the server's sessions: content of each temporary id
  last,               \* the last execution: its connection, how it ended,
                      \* the ids whose payload it carried, the values bound
  fails

bindVars == <<lobIDSeq, brokenConns, args, meant, reused, temp, last, fails>>

NoExec == [how |-> "none", again |-> FALSE, sent |-> {}, ids |-> {},
           bound |-> [i \in Params |-> "none"]]

BindInit ==
  /\ lobIDSeq = [c \in Conns |-> -1] /\ brokenConns = {}
  /\ args \in [Params -> Inputs] /\ meant = args
  /\ temp = [c \in Conns |-> [id \in Ids |-> "none"]]
  /\ last = NoExec /\ fails = 0 /\ reused = FALSE

-----------------------------------------------------------------------------
\* Variant: the sequence does not move.
nextLobIDStuck(seq, n) == seq

\* Variant: the sequence counts up, into the ids of stored LOBs.
nextLobIDUp(seq, n) == seq + n

(* nextLobID, called n times: the next id is seq - n. *)
nextLobID(seq, n) == seq - n

(* The parameters prepareLobParams reaches: it returns at the first value  *)
(* it cannot bind.                                                         *)
reached == {i \in Params : \A j \in 1 .. i : args[j].kind # "bad"}

(* Those that need an id; a value that is a LobRef already is skipped.     *)
raws == {i \in reached : args[i].kind = "raw"}

idOf(seq, i) == nextLobID(seq, Cardinality({j \in raws : j < i}))

(* prepareLobParams: the value slice it leaves behind. *)
prepareLobParams(seq) ==
  [i \in Params |-> IF i \in raws THEN Ref(idOf(seq, i)) ELSE args[i]]

Fits(c) == lobIDSeq[c] - Cardinality(raws) >= -MaxIDs - 1

\* Variant: the caller's values are not copied on any path.
argsAfterShared(path, values) == values

(* The slice the caller has after a call: its own, or the request's. *)
argsAfter(path, values) == IF path = "updatable" THEN values ELSE args

(* send fails on a value it cannot bind: nothing is written, but ids are   *)
(* used up, values before it are replaced, and execCtx breaks the          *)
(* connection.                                                             *)
ExecuteRefused(c, path) ==
  /\ c \notin brokenConns /\ Fits(c)
  /\ reached # Params
  /\ args' = argsAfter(path, prepareLobParams(lobIDSeq[c]))
  /\ reused' = (reused \/ path = "updatable")
  /\ lobIDSeq' = [lobIDSeq EXCEPT ![c] = nextLobID(@, Cardinality(raws))]
  /\ brokenConns' = brokenConns \cup {c}
  /\ last' = [NoExec EXCEPT !.how = "error"]
  /\ UNCHANGED <<meant, temp, fails>>

(* The payloads reach the server (external) with the request; it resolves  *)
(* every reference, and refuses one it does not know.                      *)
received(c, values) ==
  [temp EXCEPT ![c] =
     [id \in Ids |-> IF \E i \in raws : values[i].id = id
                     THEN args[CHOOSE i \in raws :
                                 /\ values[i].id = id
                                 /\ \A j \in raws : values[j].id = id => j <= i].data
                     ELSE @[id]]]

ids(values) == {values[i].id : i \in {j \in Params : values[j].kind = "ref"}}

Execute(c, path) ==
  /\ c \notin brokenConns /\ Fits(c)
  /\ reached = Params
  /\ LET values == prepareLobParams(lobIDSeq[c]) IN
       /\ args' = argsAfter(path, values) /\ reused' = (reused \/ path = "updatable")
       /\ temp' = received(c, values)
       /\ last' =
            [again |-> reused,
             how   |-> IF \E id \in ids(values) : temp'[c][id] = "none"
                       THEN "error" ELSE "ok",
             sent  |-> {values[i].id : i \in raws},
             ids   |-> ids(values),
             bound |-> [i \in Params |-> IF values[i].kind = "ref"
                                         THEN temp'[c][values[i].id] ELSE "none"]]
  /\ lobIDSeq' = [lobIDSeq EXCEPT ![c] = nextLobID(@, Cardinality(raws))]
  /\ UNCHANGED <<brokenConns, meant, fails>>

(* The exchange fails: the connection is broken, and the server may or may *)
(* not have received the request.                                          *)
ExecuteFails(c, path) ==
  /\ c \notin brokenConns /\ Fits(c)
  /\ reached = Params /\ fails < MaxFails
  /\ LET values == prepareLobParams(lobIDSeq[c]) IN
       /\ args' = argsAfter(path, values) /\ reused' = (reused \/ path = "updatable")
       /\ temp' \in {temp, received(c, values)}
  /\ lobIDSeq' = [lobIDSeq EXCEPT ![c] = nextLobID(@, Cardinality(raws))]
  /\ brokenConns' = brokenConns \cup {c} /\ fails' = fails + 1
  /\ last' = [NoExec EXCEPT !.how = "error"]
  /\ UNCHANGED meant

(* ResetSession: the ids of the previous user are used again. *)
ResetSession(c) ==
  /\ c \notin brokenConns
  /\ lobIDSeq' = [lobIDSeq EXCEPT ![c] = -1]
  /\ last' = NoExec
  /\ UNCHANGED <<brokenConns, args, meant, reused, temp, fails>>

(* The caller makes a new slice. *)
NewArgs(values) ==
  /\ args' = values /\ meant' = values /\ reused' = FALSE
  /\ last' = NoExec
  /\ UNCHANGED <<lobIDSeq, brokenConns, temp, fails>>

BindNext ==
  \/ \E c \in Conns, path \in Paths :
       Execute(c, path) \/ ExecuteRefused(c, path) \/ ExecuteFails(c, path)
  \/ \E c \in Conns : ResetSession(c)
  \/ \E values \in [Params -> Inputs] : NewArgs(values)

BindSpec == BindInit /\ [][BindNext]_bindVars

-----------------------------------------------------------------------------
(***************************************************************************)
(* Properties.                                                             *)
(***************************************************************************)
Slots == Inputs \cup {Ref(id) : id \in Ids}

(* Every variable stays in its type; temporary ids are negative, so they   *)
(* never meet the ids of stored LOBs.                                      *)
BindTypeOK ==
  /\ lobIDSeq \in [Conns -> -MaxIDs - 1 .. -1] /\ brokenConns \subseteq Conns
  /\ args \in [Params -> Slots] /\ meant \in [Params -> Inputs]
  /\ temp \in [Conns -> [Ids -> Payloads \cup {"none"}]]
  /\ last.how \in {"none", "ok", "error"} /\ {reused, last.again} \subseteq BOOLEAN
  /\ last.sent \subseteq Ids /\ last.ids \subseteq Ids
  /\ last.bound \in [Params -> Payloads \cup {"none"}]
  /\ fails \in 0 .. MaxFails

(* A statement that succeeds has bound to every LOB parameter the content  *)
(* its caller passed for it, also when ids are used again after a          *)
(* ResetSession or left over from a failed exchange.  Exception of the     *)
(* code: a slice that QueryUpdatable was given before.                     *)
BindsOwnPayload ==
  last.how = "ok" /\ ~last.again => \A i \in Params : last.bound[i] = meant[i].data

(* What the comment on prepareLobParams says: the request binds only ids,  *)
(* and their payloads are sent in the same transmission; with the same     *)
(* exception.                                                              *)
PayloadTravels == ~last.again => last.ids \subseteq last.sent
=============================================================================
