-------------------------- MODULE SocketHubProofs --------------------------
(***************************************************************************)
(* Proofs about SocketHub: no use of a closed channel, no gap in what a    *)
(* peer sees and no connection left behind, for every number of            *)
(* connections, users and callers and every capacity of the buffers.       *)
(***************************************************************************)
EXTENDS SocketHub, TLAPS

-----------------------------------------------------------------------------
(***************************************************************************)
(* The inductive invariant.                                                *)
(***************************************************************************)

\* A connection is known to the hub from its registration until its send is
\* closed, which happens before readPump can return.
Lifecycle ==
    \A c \in Conn :
        /\ c \in connections => /\ c \notin closed
                                /\ readPc[c] \in {"reading", "unregister"}
                                /\ writePc[c] # "new"
        /\ readPc[c] \in {"new", "register"} =>
              /\ c \notin closed
              /\ writePc[c] = "new"
              /\ buf[c] = <<>> /\ got[c] = <<>> /\ due[c] = <<>>
        /\ readPc[c] \notin {"new", "register"} => writePc[c] # "new"

InHand(c) == IF writePc[c] = "writing" THEN 1 ELSE 0

\* What is written, in hand, buffered and about to be buffered makes up the
\* messages that are due, in their order, as long as writePump works.
Pipeline(c) ==
    writePc[c] # "done" =>
        /\ Len(got[c]) + InHand(c) + Len(buf[c]) <= Len(due[c])
        /\ c \in connections =>
              Len(got[c]) + InHand(c) + Len(buf[c]) + (IF c \in todo THEN 1 ELSE 0) = Len(due[c])
        /\ c \in todo => due[c][Len(due[c])] = msg.id
        /\ writePc[c] = "writing" => hand[c] = due[c][Len(got[c]) + 1]
        /\ \A i \in 1..Len(buf[c]) : buf[c][i] = due[c][Len(got[c]) + InHand(c) + i]

HubInv ==
    /\ TypeOK
    /\ NoPanic
    /\ Lifecycle
    /\ NoGaps
    /\ \A c \in Conn : Pipeline(c)

-----------------------------------------------------------------------------
\* Init establishes the invariant.
LEMMA HubInvInit == Init => HubInv
<1> SUFFICES ASSUME Init PROVE HubInv
  OBVIOUS
<1> USE DEF Init
<1>1. TypeOK
  <2>1. msg \in [userID : User \cup {NoUser}, id : Nat]
    BY DEF NoMsg
  <2>2. callPc \in [Caller -> User \cup {NoUser, "idle"}]
    OBVIOUS
  <2>3. /\ buf \in [Conn -> Seq(Nat)] /\ got \in [Conn -> Seq(Nat)] /\ due \in [Conn -> Seq(Nat)]
        /\ hand \in [Conn -> Nat] /\ ws \in [Conn -> BOOLEAN]
    OBVIOUS
  <2>4. /\ connections \subseteq Conn /\ todo \subseteq connections /\ closed \subseteq Conn
        /\ sent \in Nat /\ panicked \in BOOLEAN
    OBVIOUS
  <2> QED BY <2>1, <2>2, <2>3, <2>4 DEF TypeOK
<1>2. NoPanic
  BY DEF NoPanic
<1>3. Lifecycle
  BY DEF Lifecycle
<1>4. NoGaps
  BY DEF NoGaps
<1>5. ASSUME NEW c \in Conn PROVE Pipeline(c)
  BY DEF Pipeline, InHand
<1> QED BY <1>1, <1>2, <1>3, <1>4, <1>5 DEF HubInv

\* Arithmetic of the positions in the pipeline.
LEMMA Shift == \A a, i \in Nat : a + 0 + (i + 1) = a + 1 + i
OBVIOUS

\* A buffered message has its place among those that are due.
LEMMA Within ==
    \A a, h, b, n \in Nat : a + h + b = n => \A i \in 1..b : a + h + i \in 1..n
OBVIOUS

\* The counts on both sides stay equal when one message moves.
LEMMA Counted ==
    \A a, h, b, n \in Nat :
        /\ a + h + b + 1 = n => a + h + (b + 1) = n
        /\ a + h + b = n => a + h + b + 1 = n + 1 /\ a + h + b <= n /\ a + h + b <= n + 1
        /\ a + h + b = n => a + h + b + 0 = n
OBVIOUS

\* A connection whose part of the pipeline does not change keeps it in order.
LEMMA PipelineFrame ==
    ASSUME NEW c \in Conn, Pipeline(c),
           got'[c] = got[c], buf'[c] = buf[c], due'[c] = due[c], hand'[c] = hand[c],
           writePc'[c] = writePc[c], msg' = msg,
           (c \in connections') => (c \in connections),
           (c \in connections') => ((c \in todo') <=> (c \in todo)),
           (c \in todo') => (c \in todo)
    PROVE  Pipeline(c)'
BY DEF Pipeline, InHand

\* A registered connection starts with nothing due and nothing sent.
LEMMA HubRegisterStep == ASSUME HubInv, NEW c \in Conn, HubRegister(c) PROVE HubInv'
<1> USE DEF HubInv, HubRegister, HubIdle, hub, chan, pumps
<1>1. TypeOK'
  BY DEF TypeOK
<1>2. NoPanic'
  BY DEF NoPanic, Lifecycle, TypeOK
<1>3. Lifecycle'
  BY DEF TypeOK, Lifecycle
<1>4. NoGaps'
  BY DEF TypeOK, NoGaps
<1>5. ASSUME NEW d \in Conn PROVE Pipeline(d)'
  <2>1. Pipeline(d) OBVIOUS
  <2>2. CASE d = c
    BY <2>1, <2>2 DEF TypeOK, Lifecycle, Pipeline, InHand
  <2>3. CASE d # c
    BY <2>1, <2>3, PipelineFrame DEF TypeOK
  <2> QED BY <2>2, <2>3
<1> QED BY <1>1, <1>2, <1>3, <1>4, <1>5

\* Only a connection the hub still knows is closed, so its send is open.
LEMMA HubUnregisterStep == ASSUME HubInv, NEW c \in Conn, HubUnregister(c) PROVE HubInv'
<1> USE DEF HubInv, HubUnregister, HubIdle, CloseSend, hub, chan, pumps
<1>1. TypeOK'
  <2>1. CASE c \in connections
    <3>1. panicked' \in BOOLEAN
      <4>1. panicked' = (c \in closed)
        BY <2>1 DEF TypeOK
      <4> QED BY <4>1
    <3> QED BY <2>1, <3>1 DEF TypeOK
  <2>2. CASE c \notin connections
    BY <2>2 DEF TypeOK
  <2> QED BY <2>1, <2>2
<1>2. NoPanic'
  BY DEF NoPanic, Lifecycle, TypeOK
<1>3. Lifecycle'
  BY DEF TypeOK, Lifecycle
<1>4. NoGaps'
  BY DEF TypeOK, NoGaps
<1>5. ASSUME NEW d \in Conn PROVE Pipeline(d)'
  <2>1. Pipeline(d) OBVIOUS
  <2>2. CASE d = c
    BY <2>1, <2>2, PipelineFrame DEF TypeOK
  <2>3. CASE d # c
    BY <2>1, <2>3, PipelineFrame DEF TypeOK
  <2> QED BY <2>2, <2>3
<1> QED BY <1>1, <1>2, <1>3, <1>4, <1>5

\* The message is appended to the buffer it is due in, or the connection is given up.
LEMMA HubSendStep == ASSUME HubInv, NEW c \in Conn, HubSend(c) PROVE HubInv'
<1> USE DEF HubInv, HubSend, CloseSend, hub, chan, pumps
<1>1. TypeOK'
  <2>1. panicked' = (c \in closed)
    OBVIOUS
  <2>2. panicked' \in BOOLEAN
    BY <2>1
  <2>3. CASE Len(buf[c]) < SendCap
    <3>1. msg.id \in Nat /\ buf[c] \in Seq(Nat) /\ buf \in [Conn -> Seq(Nat)]
      BY DEF TypeOK
    <3>2. Append(buf[c], msg.id) \in Seq(Nat) /\ buf' = [buf EXCEPT ![c] = Append(buf[c], msg.id)]
      BY <2>3, <3>1
    <3>3. buf' \in [Conn -> Seq(Nat)]
      BY <3>1, <3>2
    <3> QED BY <2>2, <2>3, <3>3 DEF TypeOK
  <2>4. CASE ~ (Len(buf[c]) < SendCap)
    BY <2>2, <2>4 DEF TypeOK
  <2> QED BY <2>3, <2>4
<1>2. NoPanic'
  BY DEF NoPanic, Lifecycle, TypeOK
<1>3. Lifecycle'
  BY DEF TypeOK, Lifecycle
<1>4. NoGaps'
  BY DEF TypeOK, NoGaps
<1>5. ASSUME NEW d \in Conn PROVE Pipeline(d)'
  <2>1. Pipeline(d) OBVIOUS
  <2>2. CASE d = c /\ Len(buf[c]) < SendCap
    <3>1. /\ buf'[c] = Append(buf[c], msg.id)
          /\ UNCHANGED <<connections, due, got, hand, writePc, msg>>
          /\ c \notin todo' /\ c \in connections /\ c \in todo
      BY <2>2 DEF TypeOK
    <3>2. /\ Len(buf'[c]) = Len(buf[c]) + 1
          /\ \A i \in 1..Len(buf[c]) : buf'[c][i] = buf[c][i]
          /\ buf'[c][Len(buf[c]) + 1] = msg.id
      BY <3>1 DEF TypeOK
    <3>3. InHand(c)' = InHand(c) /\ InHand(c) \in {0, 1} /\ Len(got[c]) \in Nat /\ Len(buf[c]) \in Nat
      BY <3>1 DEF InHand, TypeOK
    <3>4. CASE writePc[c] = "done"
      BY <2>2, <3>1, <3>4 DEF Pipeline
    <3>5. CASE writePc[c] # "done"
      <4>1. Len(got[c]) + InHand(c) + Len(buf[c]) + 1 = Len(due[c]) /\ due[c][Len(due[c])] = msg.id
        BY <2>1, <2>2, <3>1, <3>5 DEF Pipeline
      <4>3. Len(due[c]) \in Nat
        BY DEF TypeOK
      <4>0. Len(got[c]) + InHand(c) + (Len(buf[c]) + 1) = Len(due[c])
        <5>1. PICK a \in Nat : a = Len(got[c])
          BY <3>3
        <5>2. PICK h \in Nat : h = InHand(c)
          BY <3>3
        <5>3. PICK b \in Nat : b = Len(buf[c])
          BY <3>3
        <5>4. PICK n \in Nat : n = Len(due[c])
          BY <4>3
        <5>5. a + h + b + 1 = n
          BY <4>1, <5>1, <5>2, <5>3, <5>4, Zenon
        <5>6. a + h + (b + 1) = n
          <6> HIDE DEF HubSend, HubInv
          <6> QED BY <5>5
        <5> QED BY <5>1, <5>2, <5>3, <5>4, <5>6, Zenon
      <4>2. \A i \in 1..Len(buf'[c]) : buf'[c][i] = due[c][Len(got[c]) + InHand(c) + i]
        <5> TAKE i \in 1..Len(buf'[c])
        <5>1. CASE i = Len(buf[c]) + 1
          <6>1. Len(got[c]) + InHand(c) + i = Len(due[c])
            BY <4>0, <5>1, Zenon
          <6> QED BY <3>2, <4>1, <5>1, <6>1
        <5>2. CASE i \in 1..Len(buf[c])
          BY <2>1, <2>2, <3>2, <3>5, <5>2 DEF Pipeline
        <5> QED BY <3>2, <3>3, <5>1, <5>2
      <4>4. Len(got[c]) + InHand(c) + Len(buf'[c]) = Len(due[c])
        BY <3>2, <4>0, Zenon
      <4>5. writePc[c] = "writing" => hand[c] = due[c][Len(got[c]) + 1]
        BY <2>1, <2>2, <3>5 DEF Pipeline
      <4>6. /\ Len(got[c]) + InHand(c) + Len(buf'[c]) <= Len(due[c])
            /\ Len(got[c]) + InHand(c) + Len(buf'[c]) + (IF c \in todo' THEN 1 ELSE 0) = Len(due[c])
        <5>1. Len(buf'[c]) \in Nat /\ InHand(c) \in Nat
          BY <3>2, <3>3
        <5> QED BY <3>1, <3>3, <4>3, <4>4, <5>1, Counted
      <4> QED BY <2>2, <3>1, <4>2, <4>5, <4>6, ZenonT(40) DEF Pipeline, InHand
    <3> QED BY <3>4, <3>5
  <2>3. CASE d = c /\ ~ (Len(buf[c]) < SendCap)
    <3>1. /\ UNCHANGED <<buf, due, got, hand, writePc, msg>>
          /\ c \notin connections' /\ c \notin todo'
      BY <2>3 DEF TypeOK
    <3> QED BY <2>1, <2>3, <3>1, PipelineFrame
  <2>4. CASE d # c
    BY <2>1, <2>4, PipelineFrame DEF TypeOK
  <2> QED BY <2>2, <2>3, <2>4
<1> QED BY <1>1, <1>2, <1>3, <1>4, <1>5

\* A new handler touches neither the hub nor the pipeline.
LEMMA HandlerStep == ASSUME HubInv, NEW c \in Conn, Handler(c) PROVE HubInv'
<1> USE DEF HubInv, Handler, hub, chan, pumps
<1>1. TypeOK'
  BY DEF TypeOK
<1>2. NoPanic'
  BY DEF NoPanic, Lifecycle, TypeOK
<1>3. Lifecycle'
  BY DEF TypeOK, Lifecycle
<1>4. NoGaps'
  BY DEF TypeOK, NoGaps
<1>5. ASSUME NEW d \in Conn PROVE Pipeline(d)'
  <2>1. Pipeline(d) OBVIOUS
  <2>2. CASE d = c
    BY <2>1, <2>2, PipelineFrame DEF TypeOK
  <2>3. CASE d # c
    BY <2>1, <2>3, PipelineFrame DEF TypeOK
  <2> QED BY <2>2, <2>3
<1> QED BY <1>1, <1>2, <1>3, <1>4, <1>5

\* The reader's failure changes the life cycle only.
LEMMA ReadFailsStep == ASSUME HubInv, NEW c \in Conn, ReadFails(c) PROVE HubInv'
<1> USE DEF HubInv, ReadFails, hub, chan, pumps
<1>1. TypeOK'
  BY DEF TypeOK
<1>2. NoPanic'
  BY DEF NoPanic, Lifecycle, TypeOK
<1>3. Lifecycle'
  BY DEF TypeOK, Lifecycle
<1>4. NoGaps'
  BY DEF TypeOK, NoGaps
<1>5. ASSUME NEW d \in Conn PROVE Pipeline(d)'
  <2>1. Pipeline(d) OBVIOUS
  <2>2. CASE d = c
    BY <2>1, <2>2, PipelineFrame DEF TypeOK
  <2>3. CASE d # c
    BY <2>1, <2>3, PipelineFrame DEF TypeOK
  <2> QED BY <2>2, <2>3
<1> QED BY <1>1, <1>2, <1>3, <1>4, <1>5

\* The handler returns after the hub has forgotten the connection.
LEMMA ReadCloseStep == ASSUME HubInv, NEW c \in Conn, ReadClose(c) PROVE HubInv'
<1> USE DEF HubInv, ReadClose, hub, chan, pumps
<1>1. TypeOK'
  BY DEF TypeOK
<1>2. NoPanic'
  BY DEF NoPanic, Lifecycle, TypeOK
<1>3. Lifecycle'
  BY DEF TypeOK, Lifecycle
<1>4. NoGaps'
  BY DEF TypeOK, NoGaps
<1>5. ASSUME NEW d \in Conn PROVE Pipeline(d)'
  <2>1. Pipeline(d) OBVIOUS
  <2>2. CASE d = c
    BY <2>1, <2>2, PipelineFrame DEF TypeOK
  <2>3. CASE d # c
    BY <2>1, <2>3, PipelineFrame DEF TypeOK
  <2> QED BY <2>2, <2>3
<1> QED BY <1>1, <1>2, <1>3, <1>4, <1>5

\* The head of the buffer becomes the message in hand.
LEMMA WriteTakeStep == ASSUME HubInv, NEW c \in Conn, WriteTake(c) PROVE HubInv'
<1> USE DEF HubInv, WriteTake, hub, chan, pumps
<1>1. TypeOK'
  BY DEF TypeOK
<1>2. NoPanic'
  BY DEF NoPanic, Lifecycle, TypeOK
<1>3. Lifecycle'
  BY DEF TypeOK, Lifecycle
<1>4. NoGaps'
  BY DEF TypeOK, NoGaps
<1>5. ASSUME NEW d \in Conn PROVE Pipeline(d)'
  <2>1. Pipeline(d) OBVIOUS
  <2>2. CASE d = c
    <3>1. /\ hand'[c] = Head(buf[c]) /\ buf'[c] = Tail(buf[c]) /\ buf[c] # <<>>
          /\ writePc[c] = "select" /\ writePc'[c] = "writing"
          /\ UNCHANGED <<connections, todo, msg, due, got>>
      BY DEF TypeOK
    <3>2. /\ Len(buf[c]) >= 1 /\ Len(buf'[c]) = Len(buf[c]) - 1
          /\ hand'[c] = buf[c][1]
          /\ \A i \in 1..Len(buf'[c]) : buf'[c][i] = buf[c][i + 1]
      BY <3>1 DEF TypeOK
    <3>3. InHand(c) = 0 /\ InHand(c)' = 1
      BY <3>1 DEF InHand
    <3>4. Pipeline(c) /\ writePc[c] # "done"
      BY <2>1, <2>2, <3>1
    <3>5. \A i \in 1..Len(buf'[c]) : buf'[c][i] = due[c][Len(got[c]) + 1 + i]
      <4> TAKE i \in 1..Len(buf'[c])
      <4>1. i + 1 \in 1..Len(buf[c]) /\ Len(got[c]) \in Nat /\ i \in Nat
        BY <3>2 DEF TypeOK
      <4>2. buf[c][i + 1] = due[c][Len(got[c]) + 0 + (i + 1)]
        BY <3>3, <3>4, <4>1 DEF Pipeline
      <4>3. Len(got[c]) + 0 + (i + 1) = Len(got[c]) + 1 + i
        BY <4>1, Shift
      <4> QED BY <3>2, <4>2, <4>3
    <3>6. hand'[c] = due[c][Len(got[c]) + 1]
      <4>1. 1 \in 1..Len(buf[c]) /\ Len(got[c]) \in Nat
        BY <3>2 DEF TypeOK
      <4>2. buf[c][1] = due[c][Len(got[c]) + 0 + 1]
        BY <3>3, <3>4, <4>1 DEF Pipeline
      <4> QED BY <3>2, <4>1, <4>2
    <3> QED BY <2>2, <3>1, <3>2, <3>3, <3>4, <3>5, <3>6 DEF TypeOK, Pipeline
  <2>3. CASE d # c
    BY <2>1, <2>3, PipelineFrame DEF TypeOK
  <2> QED BY <2>2, <2>3
<1> QED BY <1>1, <1>2, <1>3, <1>4, <1>5

\* The message in hand is the next one that is due.
LEMMA WriteDoneStep == ASSUME HubInv, NEW c \in Conn, WriteDone(c) PROVE HubInv'
<1> USE DEF HubInv, WriteDone, hub, chan, pumps
<1>1. TypeOK'
  BY DEF TypeOK
<1>2. NoPanic'
  BY DEF NoPanic, Lifecycle, TypeOK
<1>3. Lifecycle'
  BY DEF TypeOK, Lifecycle
<1>4. NoGaps'
  <2>1. /\ got'[c] = Append(got[c], hand[c]) /\ due' = due
        /\ \A d \in Conn \ {c} : got'[d] = got[d]
    BY DEF TypeOK
  <2>2. /\ Len(got[c]) + 1 <= Len(due[c])
        /\ hand[c] = due[c][Len(got[c]) + 1]
    <3>1. Pipeline(c) /\ writePc[c] = "writing" /\ InHand(c) = 1
      BY DEF InHand
    <3>2. Len(got[c]) + 1 + Len(buf[c]) <= Len(due[c])
      BY <3>1 DEF Pipeline
    <3>3. Len(got[c]) \in Nat /\ Len(buf[c]) \in Nat /\ Len(due[c]) \in Nat
      BY DEF TypeOK
    <3> QED BY <3>1, <3>2, <3>3 DEF Pipeline
  <2>3. /\ Len(got'[c]) = Len(got[c]) + 1
        /\ \A i \in 1..Len(got[c]) : got'[c][i] = got[c][i]
        /\ got'[c][Len(got[c]) + 1] = hand[c]
    BY <2>1 DEF TypeOK
  <2>4. Len(got[c]) \in Nat /\ Len(due[c]) \in Nat
    BY DEF TypeOK
  <2>5. NoGaps
    OBVIOUS
  <2> HIDE DEF HubInv, WriteDone
  <2>6. Len(got'[c]) <= Len(due'[c])
    BY <2>1, <2>2, <2>3
  <2>7. ASSUME NEW i \in 1..Len(got'[c]) PROVE got'[c][i] = due'[c][i]
    <3>1. CASE i = Len(got[c]) + 1
      BY <2>1, <2>2, <2>3, <3>1
    <3>2. CASE i \in 1..Len(got[c])
      BY <2>1, <2>3, <2>5, <3>2 DEF NoGaps
    <3> QED
      BY <2>3, <2>4, <3>1, <3>2
  <2> QED BY <2>1, <2>5, <2>6, <2>7 DEF NoGaps
<1>5. ASSUME NEW d \in Conn PROVE Pipeline(d)'
  <2>1. Pipeline(d) OBVIOUS
  <2>2. CASE d = c
    <3>1. /\ got'[c] = Append(got[c], hand[c])
          /\ writePc[c] = "writing" /\ writePc'[c] = "select"
          /\ UNCHANGED <<connections, todo, msg, due, buf>>
      BY DEF TypeOK
    <3>2. Len(got'[c]) = Len(got[c]) + 1
      BY <3>1 DEF TypeOK
    <3>3. InHand(c) = 1 /\ InHand(c)' = 0
      BY <3>1 DEF InHand
    <3> QED BY <2>1, <2>2, <3>1, <3>2, <3>3 DEF TypeOK, Pipeline
  <2>3. CASE d # c
    BY <2>1, <2>3, PipelineFrame DEF TypeOK
  <2> QED BY <2>2, <2>3
<1> QED BY <1>1, <1>2, <1>3, <1>4, <1>5

\* A writer that fails leaves a prefix behind.
LEMMA WriteFailsStep == ASSUME HubInv, NEW c \in Conn, WriteFails(c) PROVE HubInv'
<1> USE DEF HubInv, WriteFails, WriteStop, hub, chan, pumps
<1>1. TypeOK'
  BY DEF TypeOK
<1>2. NoPanic'
  BY DEF NoPanic, Lifecycle, TypeOK
<1>3. Lifecycle'
  BY DEF TypeOK, Lifecycle
<1>4. NoGaps'
  BY DEF TypeOK, NoGaps
<1>5. ASSUME NEW d \in Conn PROVE Pipeline(d)'
  <2>1. Pipeline(d) OBVIOUS
  <2>2. CASE d = c
    BY <2>1, <2>2 DEF TypeOK, Lifecycle, Pipeline, InHand
  <2>3. CASE d # c
    BY <2>1, <2>3, PipelineFrame DEF TypeOK
  <2> QED BY <2>2, <2>3
<1> QED BY <1>1, <1>2, <1>3, <1>4, <1>5

\* So does a writer whose channel is closed and drained.
LEMMA WriteEndStep == ASSUME HubInv, NEW c \in Conn, WriteEnd(c) PROVE HubInv'
<1> USE DEF HubInv, WriteEnd, WriteStop, hub, chan, pumps
<1>1. TypeOK'
  BY DEF TypeOK
<1>2. NoPanic'
  BY DEF NoPanic, Lifecycle, TypeOK
<1>3. Lifecycle'
  BY DEF TypeOK, Lifecycle
<1>4. NoGaps'
  BY DEF TypeOK, NoGaps
<1>5. ASSUME NEW d \in Conn PROVE Pipeline(d)'
  <2>1. Pipeline(d) OBVIOUS
  <2>2. CASE d = c
    BY <2>1, <2>2 DEF TypeOK, Lifecycle, Pipeline, InHand
  <2>3. CASE d # c
    BY <2>1, <2>3, PipelineFrame DEF TypeOK
  <2> QED BY <2>2, <2>3
<1> QED BY <1>1, <1>2, <1>3, <1>4, <1>5

\* The broadcast adds one message to what is due.
LEMMA HubBroadcastStep == ASSUME HubInv, NEW s \in Caller, HubBroadcast(s) PROVE HubInv'
<1> USE DEF HubInv, HubBroadcast, HubIdle, chan, pumps
<1>1. TypeOK'
  BY DEF TypeOK
<1>2. NoPanic'
  BY DEF NoPanic
<1>3. Lifecycle'
  BY DEF TypeOK, Lifecycle
<1>4. NoGaps'
  BY DEF TypeOK, NoGaps
<1>5. ASSUME NEW d \in Conn PROVE Pipeline(d)'
  <2>1. Pipeline(d) /\ d \notin todo
    OBVIOUS
  <2>2. CASE d \notin todo'
    <3>1. due'[d] = due[d]
      BY <2>2
    <3> QED BY <2>1, <2>2, <3>1 DEF TypeOK, Pipeline, InHand
  <2>3. CASE d \in todo'
    <3>1. /\ due'[d] = Append(due[d], sent + 1)
          /\ msg'.id = sent + 1
          /\ UNCHANGED <<connections, got, buf, hand, writePc>>
      BY <2>3
    <3>2. /\ Len(due'[d]) = Len(due[d]) + 1
          /\ \A i \in 1..Len(due[d]) : due'[d][i] = due[d][i]
          /\ due'[d][Len(due[d]) + 1] = sent + 1
      BY <3>1 DEF TypeOK
    <3>3. d \in connections
      BY <2>3 DEF TypeOK
    <3>4. InHand(d)' = InHand(d) /\ InHand(d) \in {0, 1} /\ (InHand(d) = 1 <=> writePc[d] = "writing")
      BY <3>1 DEF InHand
    <3>5. CASE writePc[d] = "done"
      BY <3>1, <3>5 DEF Pipeline
    <3>6. CASE writePc[d] # "done"
      <4>1. Len(got[d]) + InHand(d) + Len(buf[d]) = Len(due[d])
        BY <2>1, <3>3, <3>4, <3>6 DEF TypeOK, Pipeline
      <4>2. Len(got[d]) \in Nat /\ Len(buf[d]) \in Nat /\ Len(due[d]) \in Nat /\ InHand(d) \in Nat
        BY <3>4 DEF TypeOK
      <4>3. writePc[d] = "writing" => hand[d] = due'[d][Len(got[d]) + 1]
        BY <2>1, <3>2, <3>4, <3>6, <4>1 DEF TypeOK, Pipeline
      <4>4. \A i \in 1..Len(buf[d]) : buf[d][i] = due'[d][Len(got[d]) + InHand(d) + i]
        <5> TAKE i \in 1..Len(buf[d])
        <5>1. buf[d][i] = due[d][Len(got[d]) + InHand(d) + i]
          BY <2>1, <3>6 DEF Pipeline
        <5>2. Len(got[d]) + InHand(d) + i \in 1..Len(due[d])
          BY <3>4, <4>1, <4>2, Within
        <5> QED BY <3>2, <5>1, <5>2
      <4>5. /\ Len(got[d]) + InHand(d) + Len(buf[d]) <= Len(due'[d])
            /\ Len(got[d]) + InHand(d) + Len(buf[d]) + (IF d \in todo' THEN 1 ELSE 0) = Len(due'[d])
        BY <2>3, <3>2, <4>1, <4>2, Counted
      <4>6. due'[d][Len(due'[d])] = msg'.id
        BY <3>1, <3>2
      <4> QED BY <3>1, <4>3, <4>4, <4>5, <4>6, ZenonT(40) DEF Pipeline, InHand
    <3> QED BY <3>5, <3>6
  <2> QED BY <2>2, <2>3
<1> QED BY <1>1, <1>2, <1>3, <1>4, <1>5

\* A step that changes neither the hub nor a connection preserves it.
LEMMA HubInvFrame ==
    ASSUME HubInv, UNCHANGED <<hub, chan, pumps>>,
           callPc' \in [Caller -> User \cup {NoUser, "idle"}]
    PROVE  HubInv'
<1> USE DEF HubInv, hub, chan, pumps
<1>1. TypeOK'
  BY DEF TypeOK
<1>2. NoPanic'
  BY DEF NoPanic
<1>3. Lifecycle'
  BY DEF Lifecycle
<1>4. NoGaps'
  BY DEF NoGaps
<1>5. ASSUME NEW d \in Conn PROVE Pipeline(d)'
  BY PipelineFrame
<1> QED BY <1>1, <1>2, <1>3, <1>4, <1>5

\* A call of Message only waits for the hub.
LEMMA MessageStep ==
    ASSUME HubInv, NEW s \in Caller, NEW u \in User \cup {NoUser}, Message(s, u)
    PROVE  HubInv'
<1>1. callPc' \in [Caller -> User \cup {NoUser, "idle"}]
  BY DEF HubInv, TypeOK, Message
<1> QED BY <1>1, HubInvFrame DEF Message

\* Every step of the hub, of its callers and of the pumps preserves it.
LEMMA HubInvNext == HubInv /\ [Next]_vars => HubInv'
<1> SUFFICES ASSUME HubInv, [Next]_vars PROVE HubInv'
  OBVIOUS
<1>1. CASE \E c \in Conn :
          \/ HubRegister(c) \/ HubUnregister(c) \/ HubSend(c)
          \/ Handler(c) \/ ReadFails(c) \/ ReadClose(c)
          \/ WriteTake(c) \/ WriteDone(c) \/ WriteFails(c) \/ WriteEnd(c)
  BY <1>1, HubRegisterStep, HubUnregisterStep, HubSendStep, HandlerStep, ReadFailsStep,
     ReadCloseStep, WriteTakeStep, WriteDoneStep, WriteFailsStep, WriteEndStep
<1>2. CASE \E s \in Caller : HubBroadcast(s) \/ \E u \in Addressee : Message(s, u)
  BY <1>2, HubBroadcastStep, MessageStep, SocketHubAssumption
<1>3. CASE UNCHANGED vars
  BY <1>3, HubInvFrame DEF vars, hub, chan, pumps, HubInv, TypeOK
<1> QED BY <1>1, <1>2, <1>3 DEF Next

\* Hence it always holds.
LEMMA HubInvariant == Spec => []HubInv
BY HubInvInit, HubInvNext, PTL DEF Spec

-----------------------------------------------------------------------------
\* The hub's state keeps its type, whatever peers and callers do (hub.run).
THEOREM HubTypeCorrect == Spec => []TypeOK
<1>1. HubInv => TypeOK BY DEF HubInv
<1> QED BY <1>1, HubInvariant, PTL

\* Neither dropping a slow connection nor unregistering one makes the hub use
\* a closed channel (hub.run).
THEOREM HubNeverPanics == Spec => []NoPanic
<1>1. HubInv => NoPanic BY DEF HubInv
<1> QED BY <1>1, HubInvariant, PTL

\* A peer sees a prefix of the messages for its user (hub.run, writePump).
THEOREM PeersSeePrefixes == Spec => []NoGaps
<1>1. HubInv => NoGaps BY DEF HubInv
<1> QED BY <1>1, HubInvariant, PTL

\* A handler that has returned is unknown to the hub (readPump).
THEOREM HandlersAreForgotten == Spec => []NoDeadConnection
<1>1. HubInv => NoDeadConnection BY DEF HubInv, Lifecycle, NoDeadConnection
<1> QED BY <1>1, HubInvariant, PTL

=============================================================================
