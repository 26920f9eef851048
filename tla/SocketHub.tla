----------------------------- MODULE SocketHub -----------------------------
(***************************************************************************)
(* The websocket hub (api/sockets): one goroutine that owns the set of     *)
(* connections, two pumps for each connection, and the goroutines of the   *)
(* task pool that hand it log lines and status updates with Message.       *)
(* A message is the number under which the hub received it.                *)
(***************************************************************************)
EXTENDS Integers, Sequences, FiniteSets

CONSTANTS
    Conn,      \* websocket connections
    User,      \* users
    UserOf,    \* connection.userID
    NoUser,    \* userID 0: a message for everybody
    Addressee, \* bound: the users, or NoUser, that messages are sent to
    Caller,    \* goroutines that call Message
    SendCap,   \* capacity of connection.send
    MaxSent    \* bound: messages the hub receives

ASSUME SocketHubAssumption ==
    /\ UserOf \in [Conn -> User]
    /\ NoUser \notin User
    /\ Addressee \subseteq User \cup {NoUser}
    /\ "idle" \notin User \cup {NoUser}
    /\ SendCap \in Nat
    /\ MaxSent \in Nat

VARIABLES
    connections,  \* hub.connections
    todo,         \* connections the current broadcast has still to look at
    msg,          \* the sendRequest of that broadcast
    sent,         \* how many messages the hub has received
    panicked,     \* a channel was used after it was closed
    buf,          \* what is in connection.send
    closed,       \* the connections whose send is closed
    ws,           \* whether the websocket is open
    readPc,       \* Handler and readPump
    writePc,      \* writePump
    hand,         \* the message writePump is writing, 0 for none
    callPc,       \* "idle", or the user that Message is called for
    got,          \* what the peer has received
    due           \* history: the messages for its user since it registered

hub    == <<connections, todo, msg, sent, panicked, due>>
chan   == <<buf, closed>>
pumps  == <<ws, readPc, writePc, hand, got>>
vars   == <<connections, todo, msg, sent, panicked, buf, closed, ws, readPc,
            writePc, hand, callPc, got, due>>

NoMsg == [userID |-> NoUser, id |-> 0]

TypeOK ==
    /\ connections \subseteq Conn
    /\ todo \subseteq connections
    /\ msg \in [userID : User \cup {NoUser}, id : Nat]
    /\ sent \in Nat
    /\ panicked \in BOOLEAN
    /\ buf \in [Conn -> Seq(Nat)]
    /\ closed \subseteq Conn
    /\ ws \in [Conn -> BOOLEAN]
    /\ readPc \in [Conn -> {"new", "register", "reading", "unregister", "close", "done"}]
    /\ writePc \in [Conn -> {"new", "select", "writing", "done"}]
    /\ hand \in [Conn -> Nat]
    /\ callPc \in [Caller -> User \cup {NoUser, "idle"}]
    /\ got \in [Conn -> Seq(Nat)]
    /\ due \in [Conn -> Seq(Nat)]

Init ==
    /\ connections = {} /\ todo = {} /\ closed = {}
    /\ msg = NoMsg
    /\ sent = 0
    /\ panicked = FALSE
    /\ buf = [c \in Conn |-> <<>>]
    /\ ws = [c \in Conn |-> FALSE]
    /\ readPc = [c \in Conn |-> "new"]
    /\ writePc = [c \in Conn |-> "new"]
    /\ hand = [c \in Conn |-> 0]
    /\ callPc = [s \in Caller |-> "idle"]
    /\ got = [c \in Conn |-> <<>>]
    /\ due = [c \in Conn |-> <<>>]

-----------------------------------------------------------------------------
(***************************************************************************)
(* The hub.  Its channels are unbuffered: it takes part in every send.     *)
(***************************************************************************)

HubIdle == todo = {} /\ ~ panicked

\* The registration over, Handler starts writePump and becomes readPump.
HubRegister(c) ==
    /\ HubIdle
    /\ readPc[c] = "register"
    /\ connections' = connections \cup {c}
    /\ readPc' = [readPc EXCEPT ![c] = "reading"]
    /\ writePc' = [writePc EXCEPT ![c] = "select"]
    /\ UNCHANGED <<todo, msg, sent, panicked, due, chan, ws, hand, got, callPc>>

CloseSend(c) ==
    /\ closed' = closed \cup {c}
    /\ panicked' = (c \in closed)

\* Faulty variant: the connection is not looked up first.
HubUnregisterBlind(c) ==
    /\ HubIdle
    /\ readPc[c] = "unregister"
    /\ connections' = connections \ {c}
    /\ CloseSend(c)
    /\ readPc' = [readPc EXCEPT ![c] = "close"]
    /\ UNCHANGED <<todo, msg, sent, due, buf, ws, writePc, hand, got, callPc>>

HubUnregister(c) ==
    /\ HubIdle
    /\ readPc[c] = "unregister"
    /\ IF c \in connections
       THEN connections' = connections \ {c} /\ CloseSend(c)
       ELSE UNCHANGED <<connections, closed, panicked>>
    /\ readPc' = [readPc EXCEPT ![c] = "close"]
    /\ UNCHANGED <<todo, msg, sent, due, buf, ws, writePc, hand, got, callPc>>

Addressed(c, userID) == userID = NoUser \/ userID = UserOf[c]

\* The broadcast begins; connections for other users are passed over.
HubBroadcast(s) ==
    /\ HubIdle
    /\ callPc[s] # "idle"
    /\ callPc' = [callPc EXCEPT ![s] = "idle"]
    /\ sent' = sent + 1
    /\ msg' = [userID |-> callPc[s], id |-> sent + 1]
    /\ todo' = {c \in connections : Addressed(c, callPc[s])}
    /\ due' = [c \in Conn |-> IF c \in todo' THEN Append(due[c], sent + 1) ELSE due[c]]
    /\ UNCHANGED <<connections, panicked, chan, pumps>>

\* Faulty variants: the hub waits for room, or leaves a message out.
HubSendWaits(c) ==
    /\ ~ panicked
    /\ c \in todo
    /\ Len(buf[c]) < SendCap
    /\ buf' = [buf EXCEPT ![c] = Append(@, msg.id)]
    /\ todo' = todo \ {c}
    /\ UNCHANGED <<connections, msg, sent, panicked, due, closed, pumps, callPc>>
HubSendSkips(c) ==
    /\ ~ panicked
    /\ c \in todo
    /\ todo' = todo \ {c}
    /\ buf' = IF Len(buf[c]) < SendCap THEN [buf EXCEPT ![c] = Append(@, msg.id)] ELSE buf
    /\ UNCHANGED <<connections, msg, sent, panicked, due, closed, pumps, callPc>>

\* Faulty variant: the loop does not get past a connection that is given up.
HubSendStays(c) ==
    /\ ~ panicked
    /\ c \in todo
    /\ IF Len(buf[c]) < SendCap
       THEN /\ buf' = [buf EXCEPT ![c] = Append(@, msg.id)]
            /\ todo' = todo \ {c}
            /\ UNCHANGED <<connections, closed, panicked>>
       ELSE /\ CloseSend(c)
            /\ connections' = connections \ {c}
            /\ UNCHANGED <<buf, todo>>
    /\ UNCHANGED <<msg, sent, due, pumps, callPc>>

\* The non-blocking send: a connection whose buffer is full is given up.
HubSend(c) ==
    /\ ~ panicked
    /\ c \in todo
    /\ todo' = todo \ {c}
    /\ IF Len(buf[c]) < SendCap
       THEN /\ buf' = [buf EXCEPT ![c] = Append(@, msg.id)]
            /\ panicked' = (c \in closed)
            /\ UNCHANGED <<connections, closed>>
       ELSE /\ CloseSend(c)
            /\ connections' = connections \ {c}
            /\ UNCHANGED buf
    /\ UNCHANGED <<msg, sent, due, pumps, callPc>>

-----------------------------------------------------------------------------
(***************************************************************************)
(* The callers: Message, from Log2 and saveStatus of a task.               *)
(***************************************************************************)
Message(s, userID) ==
    /\ ~ panicked
    /\ callPc[s] = "idle"
    /\ sent + Cardinality({r \in Caller : callPc[r] # "idle"}) < MaxSent
    /\ callPc' = [callPc EXCEPT ![s] = userID]
    /\ UNCHANGED <<hub, chan, pumps>>

-----------------------------------------------------------------------------
(***************************************************************************)
(* A connection: Handler, which is readPump once it has registered.        *)
(***************************************************************************)

Handler(c) ==
    /\ ~ panicked
    /\ readPc[c] = "new"
    /\ ws' = [ws EXCEPT ![c] = TRUE]
    /\ readPc' = [readPc EXCEPT ![c] = "register"]
    /\ UNCHANGED <<hub, chan, writePc, hand, got, callPc>>

\* Faulty variant: readPump returns without a word to the hub.
ReadFailsSilently(c) ==
    /\ ~ panicked
    /\ readPc[c] = "reading"
    /\ readPc' = [readPc EXCEPT ![c] = "close"]
    /\ UNCHANGED <<hub, chan, ws, writePc, hand, got, callPc>>

\* ReadMessage fails: the peer has gone, a deadline has passed or writePump
\* has closed the websocket.
ReadFails(c) ==
    /\ ~ panicked
    /\ readPc[c] = "reading"
    /\ readPc' = [readPc EXCEPT ![c] = "unregister"]
    /\ UNCHANGED <<hub, chan, ws, writePc, hand, got, callPc>>

ReadClose(c) ==
    /\ ~ panicked
    /\ readPc[c] = "close"
    /\ ws' = [ws EXCEPT ![c] = FALSE]
    /\ readPc' = [readPc EXCEPT ![c] = "done"]
    /\ UNCHANGED <<hub, chan, writePc, hand, got, callPc>>

(***************************************************************************)
(* writePump.                                                              *)
(***************************************************************************)
WriteTake(c) ==
    /\ ~ panicked
    /\ writePc[c] = "select"
    /\ buf[c] # <<>>
    /\ hand' = [hand EXCEPT ![c] = Head(buf[c])]
    /\ buf' = [buf EXCEPT ![c] = Tail(@)]
    /\ writePc' = [writePc EXCEPT ![c] = "writing"]
    /\ UNCHANGED <<hub, closed, ws, readPc, got, callPc>>

WriteDone(c) ==
    /\ ~ panicked
    /\ writePc[c] = "writing"
    /\ ws[c]
    /\ got' = [got EXCEPT ![c] = Append(@, hand[c])]
    /\ hand' = [hand EXCEPT ![c] = 0]
    /\ writePc' = [writePc EXCEPT ![c] = "select"]
    /\ UNCHANGED <<hub, chan, ws, readPc, callPc>>

WriteStop(c) ==
    /\ writePc' = [writePc EXCEPT ![c] = "done"]
    /\ hand' = [hand EXCEPT ![c] = 0]
    /\ ws' = [ws EXCEPT ![c] = FALSE]
    /\ UNCHANGED <<hub, chan, readPc, got, callPc>>

\* A write, of a message or of a ping, fails or runs into writeWait.
WriteFails(c) ==
    /\ ~ panicked
    /\ writePc[c] \in {"select", "writing"}
    /\ WriteStop(c)

\* send is closed and drained.
WriteEnd(c) ==
    /\ ~ panicked
    /\ writePc[c] = "select"
    /\ c \in closed
    /\ buf[c] = <<>>
    /\ WriteStop(c)

-----------------------------------------------------------------------------
Next ==
    \/ \E c \in Conn :
          \/ HubRegister(c) \/ HubUnregister(c) \/ HubSend(c)
          \/ Handler(c) \/ ReadFails(c) \/ ReadClose(c)
          \/ WriteTake(c) \/ WriteDone(c) \/ WriteFails(c) \/ WriteEnd(c)
    \/ \E s \in Caller : HubBroadcast(s) \/ \E u \in Addressee : Message(s, u)

Spec == Init /\ [][Next]_vars

(***************************************************************************)
(* The hub goroutine runs, and its select does not pass over a sender for  *)
(* ever.  A read of a closed websocket fails; a write ends one way or the  *)
(* other because of its deadline, and pings fail on a closed websocket.    *)
(***************************************************************************)
HubFairness ==
    /\ WF_vars(\E c \in Conn : HubSend(c))
    /\ \A c \in Conn : SF_vars(HubRegister(c) \/ HubUnregister(c))
    /\ \A s \in Caller : SF_vars(HubBroadcast(s))

PumpFairness ==
    \A c \in Conn :
        /\ WF_vars((~ ws[c] /\ ReadFails(c)) \/ ReadClose(c))
        /\ WF_vars(\/ WriteTake(c) \/ WriteDone(c) \/ WriteEnd(c)
                   \/ (writePc[c] = "writing" \/ ~ ws[c]) /\ WriteFails(c))

FairSpec == Spec /\ HubFairness /\ PumpFairness

-----------------------------------------------------------------------------
(***************************************************************************)
(* Properties.                                                             *)
(***************************************************************************)

\* No send on a closed channel and no second close of one, although both the
\* drop of a slow connection and the end of readPump close send (hub.run).
NoPanic == ~ panicked

\* A peer sees a prefix of the messages for its user since it registered: one
\* that is too slow for its buffer loses the connection, never a message in
\* between (hub.run, writePump).
NoGaps ==
    \A c \in Conn :
        /\ Len(got[c]) <= Len(due[c])
        /\ \A i \in 1..Len(got[c]) : got[c][i] = due[c][i]

\* The hub keeps no connection whose handler has returned (readPump).
NoDeadConnection ==
    \A c \in Conn : readPc[c] = "done" => c \notin connections

\* Message returns whatever the peers do: a peer that does not read delays
\* neither the task pool nor the other peers (hub.run, default branch).
MessageReturns ==
    \A s \in Caller : callPc[s] # "idle" ~> callPc[s] = "idle"

\* Once one pump has ended both have, the connection is out of the hub and
\* its websocket is closed (readPump, writePump).
PumpsEnd ==
    \A c \in Conn :
        (readPc[c] = "done" \/ writePc[c] = "done")
            ~> (readPc[c] = "done" /\ writePc[c] = "done" /\ ~ ws[c] /\ c \notin connections)

=============================================================================
