------------------------- MODULE StreamTargetProofs -------------------------
(***************************************************************************)
(* For any set of connections and any number of messages: what a handler   *)
(* has read is delivered or reported, and before Stop nothing but the end  *)
(* of its connection ends a handler.  clientWG counts the handlers.        *)
(***************************************************************************)
EXTENDS StreamTarget, FiniteSetTheorems, TLAPS

\* Types of what the arguments below are about.
StreamTypes ==
  /\ sent \in [Conn -> 0..MaxMsg] /\ end \in [Conn -> Ends]
  /\ pc \in [Conn -> HandlerPc] /\ read \in [Conn -> 0..MaxMsg]
  /\ item \in [Conn -> 0..(MaxMsg + 1)] /\ eof \in [Conn -> BOOLEAN]
  /\ delivered \in [Conn -> SUBSET (1..MaxMsg)] /\ failed \in [Conn -> SUBSET (1..MaxMsg)]
  /\ accepted \subseteq Conn

\* A handler has in hand the message it has read last, or is about to read the next; after
\* an error it has nothing.
NextInHand ==
  \A c \in Conn :
    /\ read[c] <= sent[c]
    /\ pc[c] = "payload" => item[c] \in {Empty, read[c] + 1}
    /\ pc[c] = "sendMsg" => item[c] = read[c] /\ read[c] # Empty
    /\ pc[c] = "sendParseErr" => item[c] \in {Empty, read[c]}
    /\ pc[c] \in {"headerErr", "payloadErr"} => item[c] = Empty

\* io.EOF is reported, and the handler gone, only at the end of the connection.
EndIsEnd ==
  \A c \in Conn :
    pc[c] \in {"exit", "done"} \/ (pc[c] \in {"headerErr", "payloadErr"} /\ eof[c])
      => end[c] = "eof" /\ read[c] = sent[c]

ListensUntilStop == stopChan => listening /\ recv \notin {"lastErr", "done"}

\* A connection that receive has in hand has no handler yet.
AcceptedIsNew == \A c \in accepted : pc[c] = "none"

StreamIInv ==
  StreamTypes /\ NextInHand /\ NothingLost /\ EndIsEnd /\ ListensUntilStop /\ AcceptedIsNew

-----------------------------------------------------------------------------
LEMMA StreamInitially == StreamInit => StreamIInv
<1> SUFFICES ASSUME StreamInit PROVE StreamIInv
  OBVIOUS
<1> USE MaxMsgAssumption DEF StreamInit
<1>1. StreamTypes /\ NextInHand
  BY DEF StreamTypes, NextInHand, Ends, HandlerPc, Empty
<1>2. NothingLost
  BY DEF NothingLost, InHand
<1>3. EndIsEnd /\ ListensUntilStop /\ AcceptedIsNew
  BY DEF EndIsEnd, ListensUntilStop, AcceptedIsNew
<1> QED BY <1>1, <1>2, <1>3 DEF StreamIInv

\* The handlers' steps leave the listener alone, the listener's steps the handlers.
LEMMA HandlersStep ==
  ASSUME StreamIInv, NEW c \in Conn, HandlerStep(c)
  PROVE  StreamTypes' /\ NextInHand' /\ NothingLost' /\ EndIsEnd'
<1> USE MaxMsgAssumption
    DEF StreamIInv, StreamTypes, NextInHand, EndIsEnd, Goto, Empty, Ends, HandlerPc,
        peer, handler, history, others
<1>1. CASE ReadHeader(c)
  <2>1. StreamTypes' /\ NextInHand' /\ EndIsEnd'
    BY <1>1 DEF ReadHeader
  <2>2. NothingLost'
    BY <1>1 DEF ReadHeader, NothingLost, InHand
  <2> QED BY <2>1, <2>2
<1>2. CASE HeaderFails(c)
  <2>1. StreamTypes'
    <3>1. PICK b \in BOOLEAN : eof' = [eof EXCEPT ![c] = b]
      BY <1>2 DEF HeaderFails, ReadFails
    <3>2. eof' \in [Conn -> BOOLEAN]
      BY <3>1
    <3>3. /\ sent' \in [Conn -> 0..MaxMsg] /\ end' \in [Conn -> Ends]
          /\ pc' \in [Conn -> HandlerPc] /\ read' \in [Conn -> 0..MaxMsg]
          /\ item' \in [Conn -> 0..(MaxMsg + 1)]
          /\ UNCHANGED <<history, accepted>>
      BY <1>2 DEF HeaderFails, ReadFails
    <3> QED BY <3>2, <3>3
  <2>2. NextInHand'
    BY <1>2 DEF HeaderFails, ReadFails
  <2>3. EndIsEnd'
    BY <1>2 DEF HeaderFails, ReadFails
  <2>4. NothingLost'
    BY <1>2 DEF HeaderFails, ReadFails, NothingLost, InHand
  <2> QED BY <2>1, <2>2, <2>3, <2>4
<1>3. CASE HeaderOfCutMessage(c)
  <2>1. StreamTypes' /\ NextInHand' /\ EndIsEnd'
    BY <1>3 DEF HeaderOfCutMessage
  <2>2. NothingLost'
    BY <1>3 DEF HeaderOfCutMessage, NothingLost, InHand
  <2> QED BY <2>1, <2>2
<1>4. CASE ReadPayload(c)
  <2>1. StreamTypes' /\ NextInHand' /\ EndIsEnd'
    BY <1>4 DEF ReadPayload
  <2>2. NothingLost'
    <3>1. CASE item[c] = Empty
      BY <1>4, <3>1 DEF ReadPayload, NothingLost, InHand
    <3>2. CASE item[c] # Empty
      <4>1. /\ item[c] = read[c] + 1 /\ item' = item
            /\ read' = [read EXCEPT ![c] = item[c]]
            /\ pc'[c] \in {"sendMsg", "sendParseErr"} /\ pc[c] = "payload"
            /\ \A d \in Conn : d # c => pc'[d] = pc[d]
            /\ UNCHANGED <<delivered, failed>>
        BY <1>4, <3>2 DEF ReadPayload
      <4>2. 1..(read[c] + 1) = 1..read[c] \cup {read[c] + 1}
        OBVIOUS
      <4>3. 1..read'[c] = delivered'[c] \cup failed'[c] \cup InHand(c)'
        BY <3>2, <4>1, <4>2 DEF NothingLost, InHand
      <4>4. ASSUME NEW d \in Conn, d # c
            PROVE  1..read'[d] = delivered'[d] \cup failed'[d] \cup InHand(d)'
        BY <4>1, <4>4 DEF NothingLost, InHand
      <4> QED BY <4>3, <4>4 DEF NothingLost
    <3> QED BY <3>1, <3>2
  <2> QED BY <2>1, <2>2
<1>5. CASE PayloadFails(c)
  <2>1. StreamTypes'
    <3>1. PICK b \in BOOLEAN : eof' = [eof EXCEPT ![c] = b]
      BY <1>5 DEF PayloadFails, ReadFails
    <3>2. eof' \in [Conn -> BOOLEAN]
      BY <3>1
    <3>3. /\ sent' \in [Conn -> 0..MaxMsg] /\ end' \in [Conn -> Ends]
          /\ pc' \in [Conn -> HandlerPc] /\ read' \in [Conn -> 0..MaxMsg]
          /\ item' \in [Conn -> 0..(MaxMsg + 1)]
          /\ UNCHANGED <<history, accepted>>
      BY <1>5 DEF PayloadFails, ReadFails
    <3> QED BY <3>2, <3>3
  <2>2. NextInHand'
    BY <1>5 DEF PayloadFails, ReadFails
  <2>3. EndIsEnd'
    BY <1>5 DEF PayloadFails, ReadFails
  <2>4. NothingLost'
    BY <1>5 DEF PayloadFails, ReadFails, NothingLost, InHand
  <2> QED BY <2>1, <2>2, <2>3, <2>4
<1>6. CASE SendMsg(c)
  <2>1. StreamTypes' /\ NextInHand' /\ EndIsEnd'
    BY <1>6 DEF SendMsg
  <2>2. NothingLost'
    BY <1>6 DEF SendMsg, NothingLost, InHand
  <2> QED BY <2>1, <2>2
<1>7. CASE SendErr(c)
  <2>1. /\ pc[c] \in {"headerErr", "payloadErr", "sendParseErr"}
        /\ failed' = IF pc[c] = "sendParseErr"
                       THEN [failed EXCEPT ![c] = @ \cup ({item[c]} \ {Empty})] ELSE failed
        /\ UNCHANGED <<peer, read, item, eof, delivered, accepted>>
    BY <1>7 DEF SendErr
  <2>2. PICK l \in HandlerPc :
          /\ pc' = [pc EXCEPT ![c] = l]
          /\ \/ pc[c] = "sendParseErr" /\ l = "header"
             \/ pc[c] \in {"headerErr", "payloadErr"} /\ eof[c] /\ l = "exit"
             \/ pc[c] = "headerErr" /\ l = "payload"
             \/ pc[c] = "payloadErr" /\ l = "sendParseErr"
    <3>1. CASE pc[c] = "sendParseErr"
      <4>1. pc' = [pc EXCEPT ![c] = "header"]
        BY <1>7, <3>1 DEF SendErr
      <4> QED BY <2>1, <3>1, <4>1
    <3>2. CASE pc[c] # "sendParseErr" /\ eof[c]
      <4>1. pc' = [pc EXCEPT ![c] = "exit"]
        BY <1>7, <3>2 DEF SendErr
      <4> QED BY <2>1, <3>2, <4>1
    <3>3. CASE pc[c] = "headerErr" /\ ~eof[c]
      BY <1>7, <3>3 DEF SendErr
    <3>4. CASE pc[c] = "payloadErr" /\ ~eof[c]
      BY <1>7, <3>4 DEF SendErr
    <3> QED BY <2>1, <3>1, <3>2, <3>3, <3>4
  <2>3. StreamTypes' /\ NextInHand' /\ EndIsEnd'
    BY <2>1, <2>2
  <2>4. NothingLost'
    BY <2>1, <2>2 DEF NothingLost, InHand
  <2> QED BY <2>3, <2>4
<1>8. CASE Exit(c)
  <2>1. StreamTypes' /\ NextInHand' /\ EndIsEnd'
    BY <1>8 DEF Exit
  <2>2. NothingLost'
    BY <1>8 DEF Exit, NothingLost, InHand
  <2> QED BY <2>1, <2>2
<1> QED BY <1>1, <1>2, <1>3, <1>4, <1>5, <1>6, <1>7, <1>8 DEF HandlerStep

LEMMA PeerSteps ==
  ASSUME StreamIInv, NEW c \in Conn, Connect(c) \/ PeerSends(c) \/ PeerCloses(c)
  PROVE  StreamIInv'
<1> USE MaxMsgAssumption
    DEF StreamIInv, Connect, PeerSends, PeerCloses, peer, handler, history, others
<1>1. StreamTypes'
  BY DEF StreamTypes, Ends
<1>2. NextInHand'
  BY DEF NextInHand, StreamTypes
<1>3. NothingLost' /\ ListensUntilStop' /\ AcceptedIsNew'
  BY DEF NothingLost, InHand, ListensUntilStop, AcceptedIsNew
<1>4. EndIsEnd'
  BY DEF EndIsEnd, StreamTypes
<1> QED BY <1>1, <1>2, <1>3, <1>4

LEMMA StreamStep == StreamIInv /\ [StreamNext]_streamVars => StreamIInv'
<1> SUFFICES ASSUME StreamIInv, [StreamNext]_streamVars PROVE StreamIInv'
  OBVIOUS
<1> USE MaxMsgAssumption
    DEF StreamIInv, peer, handler, history, others
<1>1. ASSUME NEW c \in Conn, Connect(c) \/ PeerSends(c) \/ PeerCloses(c) PROVE StreamIInv'
  BY <1>1, PeerSteps
<1>2. ASSUME NEW c \in Conn, HandlerStep(c) PROVE StreamIInv'
  <2>1. ListensUntilStop'
    BY <1>2 DEF HandlerStep, ReadHeader, HeaderFails, ReadFails, HeaderOfCutMessage, ReadPayload,
         PayloadFails, SendMsg, SendErr, Exit, ListensUntilStop
  <2>2. accepted' = accepted /\ pc[c] # "none" /\ \A d \in Conn : d # c => pc'[d] = pc[d]
    BY <1>2 DEF HandlerStep, ReadHeader, HeaderFails, ReadFails, HeaderOfCutMessage, ReadPayload,
         PayloadFails, SendMsg, SendErr, Exit, Goto, StreamTypes
  <2>3. accepted \subseteq Conn
    BY DEF StreamTypes
  <2>4. AcceptedIsNew'
    BY <2>2, <2>3 DEF AcceptedIsNew
  <2> QED BY <1>2, <2>1, <2>4, HandlersStep
<1>3. ASSUME NEW c \in Conn, Accept(c) \/ CloseConn(c) PROVE StreamIInv'
  BY <1>3 DEF Accept, CloseConn, StreamTypes, NextInHand, NothingLost, InHand, EndIsEnd,
       ListensUntilStop, AcceptedIsNew
<1>4. ASSUME NEW c \in Conn, Serve(c) PROVE StreamIInv'
  <2>1. pc[c] = "none" /\ pc' = [pc EXCEPT ![c] = "header"] /\ accepted' = {}
    BY <1>4 DEF Serve, Goto, AcceptedIsNew
  <2> QED
    BY <1>4, <2>1 DEF Serve, StreamTypes, HandlerPc, NextInHand, NothingLost, InHand, EndIsEnd,
       ListensUntilStop, AcceptedIsNew
<1>5. CASE AcceptClosed \/ AcceptFails \/ RecvErr \/ SendPanics
  BY <1>5 DEF AcceptClosed, AcceptFails, RecvErr, SendPanics, StreamTypes, NextInHand, NothingLost,
       InHand, EndIsEnd, ListensUntilStop, AcceptedIsNew
<1>6. CASE ShutStep \/ Stop \/ StopStep
  BY <1>6 DEF ShutStep, CloseListener, SendCloseErr, HandlersGone, CloseErrChan, Stop, StopStep, StopWaited,
       StopReturns, StreamTypes, NextInHand, NothingLost, InHand, EndIsEnd, ListensUntilStop,
       AcceptedIsNew
<1>7. CASE UNCHANGED streamVars
  BY <1>7 DEF streamVars, StreamTypes, NextInHand, NothingLost, InHand, EndIsEnd, ListensUntilStop,
       AcceptedIsNew
<1> QED BY <1>1, <1>2, <1>3, <1>4, <1>5, <1>6, <1>7 DEF StreamNext

\* StreamIInv holds in every state of Start, receive, the handlers and Stop.
THEOREM StreamInvariant == StreamSpec => []StreamIInv
BY StreamInitially, StreamStep, PTL DEF StreamSpec

\* Whatever a handler has read it has in hand, or the application has received it or its
\* parse error (stream_target.go 88-89).
THEOREM EverythingIsDelivered == StreamSpec => []NothingLost
<1>1. StreamIInv => NothingLost
  BY DEF StreamIInv
<1> QED BY <1>1, StreamInvariant, PTL

\* Before Stop, receive goes on and a handler ends only with its connection, everything
\* handled (stream_target.go 87-90).
THEOREM ServesUntilStopHolds == StreamSpec => []ServesUntilStop
<1>1. StreamIInv => ServesUntilStop
  <2> SUFFICES ASSUME StreamIInv, stopChan PROVE ServesUntilStop
    BY DEF ServesUntilStop
  <2>1. recv # "done"
    BY DEF StreamIInv, ListensUntilStop
  <2>2. ASSUME NEW c \in Conn, pc[c] \in {"exit", "done"}
        PROVE  end[c] = "eof" /\ delivered[c] \cup failed[c] = 1..sent[c]
    BY <2>2 DEF StreamIInv, EndIsEnd, NothingLost, InHand
  <2> QED BY <2>1, <2>2 DEF ServesUntilStop
<1> QED BY <1>1, StreamInvariant, PTL

-----------------------------------------------------------------------------
(* Every message once, and in order.                                       *)

\* The messages of a connection that are out of the handler's hands: all it has read, but the
\* last while that is in its hand.
Handled(c) == IF InHand(c) = {} THEN read[c] ELSE read[c] - 1

ExactlyOnce ==
  \A c \in Conn :
    delivered[c] \cup failed[c] = 1..Handled(c) /\ delivered[c] \cap failed[c] = {}

\* What is received next follows all that has been received, from either channel.
IsNext(c, new, old) == new # old => new = old \cup {Handled(c) + 1}

InOrder ==
  \A c \in Conn : IsNext(c, delivered'[c], delivered[c]) /\ IsNext(c, failed'[c], failed[c])

\* Only ReadPayload takes a message in hand, the next; only SendMsg and SendErr let it go.
LEMMA OnceStep ==
  ASSUME StreamIInv, ExactlyOnce, [StreamNext]_streamVars
  PROVE  ExactlyOnce' /\ InOrder
<1> USE DEF ExactlyOnce, InOrder, IsNext, Handled
<1>1. StreamTypes /\ NextInHand
  BY DEF StreamIInv
<1>2. ASSUME UNCHANGED <<history, read, item>>,
             \A c \in Conn : InHand(c)' = InHand(c)
      PROVE  ExactlyOnce' /\ InOrder
  BY <1>2 DEF history
<1>3. ASSUME NEW c \in Conn,
             ReadHeader(c) \/ HeaderFails(c) \/ HeaderOfCutMessage(c) \/ PayloadFails(c) \/ Exit(c)
      PROVE  ExactlyOnce' /\ InOrder
  <2>1. /\ pc[c] \in {"header", "payload", "exit"}
        /\ \E l \in {"payload", "headerErr", "payloadErr", "done"} : pc' = [pc EXCEPT ![c] = l]
        /\ \A d \in Conn : d # c => item'[d] = item[d]
        /\ UNCHANGED <<history, read>>
    BY <1>1, <1>3 DEF ReadHeader, HeaderFails, HeaderOfCutMessage, PayloadFails, Exit, ReadFails, Goto,
         StreamTypes
  <2>2. \A d \in Conn : InHand(d)' = InHand(d)
    BY <1>1, <2>1 DEF InHand, StreamTypes
  <2> QED BY <2>1, <2>2 DEF history
<1>4. ASSUME NEW c \in Conn, ReadPayload(c)
      PROVE  ExactlyOnce' /\ InOrder
  <2>1. /\ pc[c] = "payload" /\ item' = item
        /\ \E l \in {"sendMsg", "sendParseErr"} : pc' = [pc EXCEPT ![c] = l]
        /\ UNCHANGED history
        /\ \A d \in Conn : d # c => read'[d] = read[d]
    BY <1>1, <1>4 DEF ReadPayload, Goto, StreamTypes
  <2>2. \A d \in Conn : d # c => InHand(d)' = InHand(d)
    BY <1>1, <2>1 DEF InHand, StreamTypes
  <2>3. InHand(c) = {}
    BY <2>1 DEF InHand
  <2>4. CASE item[c] = Empty
    <3>1. read'[c] = read[c] /\ pc' = [pc EXCEPT ![c] = "sendParseErr"]
      BY <1>4, <2>4 DEF ReadPayload, Goto, Empty
    <3>2. InHand(c)' = {}
      BY <1>1, <2>1, <2>4, <3>1 DEF InHand, StreamTypes
    <3> QED BY <2>1, <2>2, <2>3, <3>1, <3>2 DEF history
  <2>5. CASE item[c] # Empty
    <3>1. read'[c] = read[c] + 1
      BY <1>1, <1>4, <2>5 DEF ReadPayload, NextInHand, StreamTypes
    <3>2. InHand(c)' # {} /\ read[c] \in Nat
      <4>1. pc'[c] \in {"sendMsg", "sendParseErr"} /\ item'[c] = item[c] /\ read[c] \in Nat
        BY <1>1, <2>1 DEF StreamTypes
      <4>2. item'[c] \in InHand(c)'
        BY <4>1, <2>5 DEF InHand
      <4> QED BY <4>1, <4>2
    <3>3. read'[c] - 1 = read[c]
      BY <3>1, <3>2
    <3> QED BY <2>1, <2>2, <2>3, <3>2, <3>3 DEF history
  <2> QED BY <2>4, <2>5
\* Out of hand goes only the message read last, and to one of the two channels.
<1>5. ASSUME NEW c \in Conn, SendMsg(c) \/ SendErr(c)
      PROVE  ExactlyOnce' /\ InOrder
  <2>1. /\ UNCHANGED <<read, item>>
        /\ \A d \in Conn : d # c =>
             pc'[d] = pc[d] /\ delivered'[d] = delivered[d] /\ failed'[d] = failed[d]
        /\ delivered'[c] = IF pc[c] = "sendMsg" THEN delivered[c] \cup InHand(c) ELSE delivered[c]
        /\ failed'[c] = IF pc[c] = "sendParseErr" THEN failed[c] \cup InHand(c) ELSE failed[c]
    <3>1. CASE SendMsg(c)
      BY <1>1, <3>1 DEF SendMsg, Goto, StreamTypes, InHand
    <3>2. CASE SendErr(c)
      <4>1. /\ UNCHANGED <<read, item, delivered>> /\ pc[c] # "sendMsg"
            /\ failed' = IF pc[c] = "sendParseErr" THEN [failed EXCEPT ![c] = @ \cup ({item[c]} \ {Empty})]
                                                    ELSE failed
            /\ \A d \in Conn : d # c => pc'[d] = pc[d]
        BY <1>1, <3>2 DEF SendErr, Goto, StreamTypes
      <4>2. pc[c] = "sendParseErr" => InHand(c) = {item[c]} \ {Empty}
        BY <1>1 DEF InHand, NextInHand
      <4> QED BY <1>1, <4>1, <4>2 DEF StreamTypes
    <3> QED BY <1>5, <3>1, <3>2
  <2>2. InHand(c)' = {}
    BY <1>1, <1>5 DEF SendMsg, SendErr, Goto, StreamTypes, InHand, NextInHand
  <2>3. \A d \in Conn : d # c => InHand(d)' = InHand(d)
    BY <2>1 DEF InHand
  <2>4. InHand(c) \in {{}, {read[c]}} /\ read[c] \in Nat /\ (InHand(c) # {} => read[c] # 0)
    BY <1>1 DEF InHand, NextInHand, StreamTypes, Empty
  <2>5. CASE InHand(c) = {}
    BY <2>1, <2>2, <2>3, <2>5
  <2>6. CASE InHand(c) = {read[c]}
    <3>1. 1..read[c] = 1..(read[c] - 1) \cup {read[c]} /\ read[c] \notin 1..(read[c] - 1)
          /\ read[c] = read[c] - 1 + 1
      BY <2>4, <2>6
    <3>2. pc[c] \in {"sendMsg", "sendParseErr"}
      BY <2>6 DEF InHand
    <3>3. /\ delivered'[c] \cup failed'[c] = 1..read[c] /\ delivered'[c] \cap failed'[c] = {}
          /\ IsNext(c, delivered'[c], delivered[c]) /\ IsNext(c, failed'[c], failed[c])
      BY <2>1, <2>6, <3>1, <3>2
    <3> QED BY <2>1, <2>2, <2>3, <3>3
  <2> QED BY <2>4, <2>5, <2>6
<1>6. ASSUME NEW c \in Conn, Connect(c) \/ PeerSends(c) \/ PeerCloses(c) \/ Accept(c) \/ CloseConn(c)
      PROVE  ExactlyOnce' /\ InOrder
  BY <1>2, <1>6 DEF Connect, PeerSends, PeerCloses, Accept, CloseConn, handler, InHand
<1>7. ASSUME NEW c \in Conn, Serve(c)
      PROVE  ExactlyOnce' /\ InOrder
  <2>1. pc[c] = "none" /\ pc' = [pc EXCEPT ![c] = "header"] /\ UNCHANGED <<history, read, item>>
    BY <1>7 DEF Serve, Goto, StreamIInv, AcceptedIsNew
  <2>2. \A d \in Conn : InHand(d)' = InHand(d)
    BY <1>1, <2>1 DEF InHand, StreamTypes
  <2> QED BY <1>2, <2>1, <2>2
<1>8. CASE AcceptClosed \/ AcceptFails \/ RecvErr \/ SendPanics
  BY <1>2, <1>8 DEF AcceptClosed, AcceptFails, RecvErr, SendPanics, handler, InHand
<1>9. CASE ShutStep \/ Stop \/ StopStep
  BY <1>2, <1>9 DEF ShutStep, CloseListener, SendCloseErr, HandlersGone, CloseErrChan, Stop, StopStep, StopWaited,
       StopReturns, handler, InHand
<1>10. CASE UNCHANGED streamVars
  BY <1>2, <1>10 DEF streamVars, handler, InHand
<1> QED BY <1>3, <1>4, <1>5, <1>6, <1>7, <1>8, <1>9, <1>10 DEF StreamNext, HandlerStep

\* Every message that was read reaches one of the two channels once, and those of a connection
\* come in the order in which they were sent, with parse errors in their places.
THEOREM DeliveredInOrder == StreamSpec => []ExactlyOnce /\ [][InOrder]_streamVars
<1>1. StreamInit => ExactlyOnce
  BY DEF StreamInit, ExactlyOnce, Handled, InHand
<1>2. StreamIInv /\ ExactlyOnce /\ [StreamNext]_streamVars => ExactlyOnce' /\ [InOrder]_streamVars
  BY OnceStep
<1> QED BY <1>1, <1>2, StreamInvariant, PTL DEF StreamSpec

-----------------------------------------------------------------------------
(* clientWG, the counter that Stop and the shutdown goroutine wait for.    *)

\* The connections with a handler that runs.
Serving == {c \in Conn : pc[c] \notin {"none", "done"}}

HandlersCounted == IsFiniteSet(Serving) /\ clientWG = Cardinality(Serving)

\* Neither the shutdown goroutine nor Stop goes on, to close errChan or to drain it, while a
\* handler runs.
WaitsForHandlers == HandlersGone \/ StopWaited => Serving = {}

RestOfTypes ==
  /\ closed \subseteq Conn
  /\ recv \in {"accept", "serve", "acceptErr", "lastErr", "done"}
  /\ shut \in {"wait", "sendErr", "wgWait", "closeErr", "done"}
  /\ stopper \in {"idle", "wgWait", "drain", "returned"}
  /\ listening \in BOOLEAN /\ stopChan \in BOOLEAN /\ errChan \in BOOLEAN /\ consuming \in BOOLEAN
  /\ panicked \in BOOLEAN

CountIInv == HandlersCounted /\ RestOfTypes

\* Only Serve adds a handler to those that run, and only Exit takes one away; each does
\* what it does to the counter.
LEMMA CountStep ==
  ASSUME StreamIInv, HandlersCounted, [StreamNext]_streamVars
  PROVE  HandlersCounted'
<1>1. IsFiniteSet(Serving) /\ clientWG = Cardinality(Serving) /\ Cardinality(Serving) \in Nat
  BY FS_CardinalityType DEF HandlersCounted
<1>2. pc \in [Conn -> HandlerPc]
  BY DEF StreamIInv, StreamTypes
<1>3. ASSUME NEW c \in Conn, Serve(c) PROVE HandlersCounted'
  <2>1. pc[c] = "none" /\ pc' = [pc EXCEPT ![c] = "header"] /\ clientWG' = clientWG + 1
    BY <1>3 DEF Serve, Goto, StreamIInv, AcceptedIsNew
  <2>2. c \notin Serving /\ Serving' = Serving \cup {c}
    BY <1>2, <2>1 DEF Serving
  <2> QED BY <1>1, <2>1, <2>2, FS_AddElement DEF HandlersCounted
<1>4. ASSUME NEW c \in Conn, Exit(c) PROVE HandlersCounted'
  <2>1. pc[c] = "exit" /\ pc' = [pc EXCEPT ![c] = "done"] /\ clientWG' = clientWG - 1
    BY <1>4 DEF Exit, Goto
  <2>2. c \in Serving /\ Serving' = Serving \ {c}
    BY <1>2, <2>1 DEF Serving
  <2> QED BY <1>1, <2>1, <2>2, FS_RemoveElement DEF HandlersCounted
<1>5. ASSUME Serving' = Serving, clientWG' = clientWG PROVE HandlersCounted'
  BY <1>5 DEF HandlersCounted
<1>6. ASSUME NEW c \in Conn, HandlerStep(c), ~ Exit(c) PROVE HandlersCounted'
  <2>1. clientWG' = clientWG
    BY <1>6 DEF HandlerStep, ReadHeader, HeaderFails, ReadFails, HeaderOfCutMessage, ReadPayload,
         PayloadFails, SendMsg, SendErr, others
  <2>2. /\ pc[c] \in {"header", "headerErr", "payload", "payloadErr", "sendMsg", "sendParseErr"}
        /\ \E l \in HandlerPc \ {"none", "done"} : pc' = [pc EXCEPT ![c] = l]
    BY <1>6 DEF HandlerStep, ReadHeader, HeaderFails, ReadFails, HeaderOfCutMessage, ReadPayload,
         PayloadFails, SendMsg, SendErr, Goto, HandlerPc
  <2>3. Serving' = Serving
    BY <1>2, <2>2 DEF Serving
  <2> QED BY <1>5, <2>1, <2>3
<1>7. ASSUME UNCHANGED <<pc, clientWG>> PROVE HandlersCounted'
  BY <1>5, <1>7 DEF Serving
<1>8. ASSUME NEW c \in Conn, Connect(c) \/ PeerSends(c) \/ PeerCloses(c) \/ Accept(c) \/ CloseConn(c)
      PROVE  UNCHANGED <<pc, clientWG>>
  BY <1>8 DEF Connect, PeerSends, PeerCloses, Accept, CloseConn, handler, others
<1>9. ASSUME AcceptClosed \/ AcceptFails \/ RecvErr \/ SendPanics PROVE UNCHANGED <<pc, clientWG>>
  BY <1>9 DEF AcceptClosed, AcceptFails, RecvErr, SendPanics, handler, others
<1>10. ASSUME ShutStep \/ Stop \/ StopStep PROVE UNCHANGED <<pc, clientWG>>
  BY <1>10 DEF ShutStep, CloseListener, SendCloseErr, HandlersGone, CloseErrChan, Stop, StopStep, StopWaited,
       StopReturns, handler
<1>11. ASSUME UNCHANGED streamVars PROVE UNCHANGED <<pc, clientWG>>
  BY <1>11 DEF streamVars, handler, others
<1> QED BY <1>3, <1>4, <1>6, <1>7, <1>8, <1>9, <1>10, <1>11 DEF StreamNext

LEMMA RestStep ==
  ASSUME StreamIInv, RestOfTypes, [StreamNext]_streamVars
  PROVE  RestOfTypes'
<1> USE DEF RestOfTypes
<1>1. ASSUME NEW c \in Conn, Connect(c) \/ PeerSends(c) \/ PeerCloses(c) \/ HandlerStep(c)
      PROVE  RestOfTypes'
  BY <1>1 DEF Connect, PeerSends, PeerCloses, HandlerStep, ReadHeader, HeaderFails, ReadFails,
       HeaderOfCutMessage, ReadPayload, PayloadFails, SendMsg, SendErr, Exit, others
<1>2. ASSUME NEW c \in Conn, Accept(c) \/ Serve(c) \/ CloseConn(c)
      PROVE  RestOfTypes'
  BY <1>2 DEF Accept, Serve, CloseConn, others
<1>3. CASE AcceptClosed \/ AcceptFails \/ RecvErr \/ SendPanics
  BY <1>3 DEF AcceptClosed, AcceptFails, RecvErr, SendPanics, others
<1>4. CASE ShutStep \/ Stop \/ StopStep
  BY <1>4 DEF ShutStep, CloseListener, SendCloseErr, HandlersGone, CloseErrChan, Stop, StopStep, StopWaited,
       StopReturns
<1>5. CASE UNCHANGED streamVars
  BY <1>5 DEF streamVars, others
<1> QED BY <1>1, <1>2, <1>3, <1>4, <1>5 DEF StreamNext

LEMMA CountInitially == StreamInit => CountIInv
<1> SUFFICES ASSUME StreamInit PROVE CountIInv
  OBVIOUS
<1>1. Serving = {} /\ clientWG = 0
  BY DEF StreamInit, Serving
<1> QED BY <1>1, FS_EmptySet DEF StreamInit, CountIInv, HandlersCounted, RestOfTypes

LEMMA CountInvariant == StreamSpec => []CountIInv
<1>1. StreamIInv /\ CountIInv /\ [StreamNext]_streamVars => CountIInv'
  BY CountStep, RestStep DEF CountIInv
<1> QED BY <1>1, CountInitially, StreamInvariant, PTL DEF StreamSpec

\* The counter is the number of handlers that run, whatever receive, the handlers and Stop
\* interleave, so that Done() never makes it negative, which would panic.
THEOREM HandlersAreCounted == StreamSpec => []HandlersCounted
BY CountInvariant, PTL DEF CountIInv

\* The variables of the receiver keep their types.
THEOREM StreamTypeCorrect == StreamSpec => []StreamTypeOK
<1>1. StreamIInv /\ CountIInv => StreamTypeOK
  <2>1. HandlersCounted => clientWG \in Nat
    BY FS_CardinalityType DEF HandlersCounted
  <2> QED BY <2>1 DEF StreamIInv, StreamTypes, CountIInv, RestOfTypes, StreamTypeOK
<1> QED BY <1>1, CountInvariant, StreamInvariant, PTL

\* clientWG.Wait() returns, to the shutdown goroutine (stream_target.go 116) and to Stop (126),
\* only when every handler that receive has started by then has ended.  One it starts later,
\* for a connection accepted before, is not waited for.
THEOREM StopWaitsForHandlers == StreamSpec => [][WaitsForHandlers]_streamVars
<1>1. HandlersCounted => WaitsForHandlers
  BY FS_EmptySet DEF HandlersCounted, WaitsForHandlers, HandlersGone, StopWaited
<1> QED BY <1>1, HandlersAreCounted, PTL
=============================================================================
