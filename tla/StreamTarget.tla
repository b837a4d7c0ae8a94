---------------------------- MODULE StreamTarget ----------------------------
(***************************************************************************)
(* apstra.StreamTarget (stream_target.go): the receiver of the streams an  *)
(* Apstra server sends.  receive accepts connections and starts a handler  *)
(* for each; the handlers send what they read to msgChan and their errors  *)
(* to errChan, both unbuffered; Stop closes stopChan, whereupon one        *)
(* goroutine closes the listener, waits for the handlers and closes        *)
(* errChan, and one for each connection closes the connection.             *)
(*                                                                         *)
(* A connection carries messages 1, 2, ...  It may be closed by the peer   *)
(* between two messages, or be cut inside one, or be closed by us.         *)
(***************************************************************************)
EXTENDS Naturals, FiniteSets

CONSTANTS
  Conn,      (* connections the server opens                               *)
  MaxMsg     (* bound: messages it sends on each                           *)

ASSUME MaxMsgAssumption == MaxMsg \in Nat \ {0}

Empty == 0   \* what the handler has read when it has read nothing: no bytes

VARIABLES
  \* the peer and the network
  sent,      (* messages sent completely on each connection                *)
  end,       (* "new", "open", "cut" (inside a message), "eof"             *)
  \* the handler of each connection
  pc,        (* where it is                                                *)
  read,      (* messages read                                              *)
  item,      (* the message it has in hand, or Empty                       *)
  eof,       (* is the error in hand io.EOF?                               *)
  closed,    (* connections closed by our side                             *)
  \* the other goroutines
  recv,      (* receive                                                    *)
  accepted,  (* the connection receive has in hand                         *)
  shut,      (* the shutdown goroutine                                     *)
  stopper,   (* the caller of Stop                                         *)
  listening, stopChan, errChan, (* are they open?                          *)
  clientWG,
  consuming, (* does the application receive from both channels?           *)
  \* history
  delivered, (* messages the application has received                      *)
  failed,    (* messages whose parse error it has received                 *)
  panicked   (* a send on the closed errChan                               *)

peer    == <<sent, end>>
handler == <<pc, read, item, eof>>
history == <<delivered, failed>>
others  == <<recv, accepted, shut, stopper, listening, stopChan, errChan, clientWG, consuming>>
streamVars == <<peer, handler, closed, others, history, panicked>>

StreamInit ==
  /\ sent = [c \in Conn |-> 0] /\ end = [c \in Conn |-> "new"]
  /\ pc = [c \in Conn |-> "none"] /\ read = [c \in Conn |-> 0]
  /\ item = [c \in Conn |-> Empty] /\ eof = [c \in Conn |-> FALSE]
  /\ closed = {}
  /\ recv = "accept" /\ accepted = {}
  /\ shut = "wait" /\ stopper = "idle"
  /\ listening = TRUE /\ stopChan = TRUE /\ errChan = TRUE
  /\ clientWG = 0 /\ consuming = TRUE
  /\ delivered = [c \in Conn |-> {}] /\ failed = [c \in Conn |-> {}]
  /\ panicked = FALSE

-----------------------------------------------------------------------------
(* The peer.                                                               *)

\* The system completes the connection and takes data before receive has accepted it.
Connect(c) ==
  /\ end[c] = "new" /\ listening
  /\ end' = [end EXCEPT ![c] = "open"]
  /\ UNCHANGED <<sent, handler, closed, others, history, panicked>>

PeerSends(c) ==
  /\ end[c] = "open" /\ sent[c] < MaxMsg
  /\ sent' = [sent EXCEPT ![c] = @ + 1]
  /\ UNCHANGED <<end, handler, closed, others, history, panicked>>

PeerCloses(c) ==
  /\ end[c] = "open"
  /\ \E e \in {"eof", "cut"} : end' = [end EXCEPT ![c] = e]
  /\ UNCHANGED <<sent, handler, closed, others, history, panicked>>

-----------------------------------------------------------------------------
(* handleClientConn.                                                       *)

Goto(c, l) == pc' = [pc EXCEPT ![c] = l]

\* io.ReadFull fails: io.EOF between two messages, another error inside one and, again
\* and again, on a connection that our side has closed.
ReadFails(c, next) ==
  /\ \/ c \in closed /\ eof' = [eof EXCEPT ![c] = FALSE] /\ UNCHANGED end
     \/ /\ c \notin closed /\ end[c] = "eof"
        /\ eof' = [eof EXCEPT ![c] = TRUE] /\ UNCHANGED end
     \/ /\ c \notin closed /\ end[c] = "cut"
        /\ \E b \in BOOLEAN : eof' = [eof EXCEPT ![c] = b /\ next = "payloadErr"]
        /\ end' = [end EXCEPT ![c] = "eof"]
  /\ Goto(c, next)
  /\ UNCHANGED <<sent, read, closed, others, history, panicked>>

\* msgLenFromConn: the length of a message, or an error and the length 0
ReadHeader(c) ==
  /\ pc[c] = "header"
  /\ c \notin closed /\ read[c] < sent[c]
  /\ item' = [item EXCEPT ![c] = read[c] + 1]
  /\ Goto(c, "payload")
  /\ UNCHANGED <<peer, read, eof, closed, others, history, panicked>>
HeaderFails(c) ==
  /\ pc[c] = "header"
  /\ c \in closed \/ read[c] = sent[c]
  /\ item' = [item EXCEPT ![c] = Empty]
  /\ ReadFails(c, "headerErr")

\* The message is cut after its length.
HeaderOfCutMessage(c) ==
  /\ pc[c] = "header"
  /\ c \notin closed /\ read[c] = sent[c] /\ end[c] = "cut"
  /\ item' = [item EXCEPT ![c] = read[c] + 1]
  /\ Goto(c, "payload")
  /\ UNCHANGED <<peer, read, eof, closed, others, history, panicked>>

\* getBytesFromConn: as many bytes as the length says, none for length 0; msgFromBytes:
\* no bytes are no message, for an AosMessage has required fields, and others may not be one
ReadPayload(c) ==
  /\ pc[c] = "payload"
  /\ \/ item[c] = Empty /\ Goto(c, "sendParseErr") /\ UNCHANGED read
     \/ /\ c \notin closed /\ item[c] \in 1..sent[c]
        /\ read' = [read EXCEPT ![c] = item[c]]
        /\ Goto(c, "sendMsg") \/ Goto(c, "sendParseErr")
  /\ UNCHANGED <<peer, item, eof, closed, others, history, panicked>>
PayloadFails(c) ==
  /\ pc[c] = "payload"
  /\ item[c] # Empty /\ (c \in closed \/ item[c] > sent[c])
  /\ item' = [item EXCEPT ![c] = Empty]
  /\ ReadFails(c, "payloadErr")

\* Only what can be received at once is sent.
SendMsgOrDrop(c) ==
  /\ pc[c] = "sendMsg"
  /\ \/ consuming /\ delivered' = [delivered EXCEPT ![c] = @ \cup {item[c]}]
     \/ UNCHANGED delivered
  /\ Goto(c, "header")
  /\ UNCHANGED <<peer, read, item, eof, closed, others, failed, panicked>>

\* msgChan <- msg
SendMsg(c) ==
  /\ pc[c] = "sendMsg" /\ consuming
  /\ delivered' = [delivered EXCEPT ![c] = @ \cup {item[c]}]
  /\ Goto(c, "header")
  /\ UNCHANGED <<peer, read, item, eof, closed, others, failed, panicked>>

\* Somebody receives from errChan: the application, or Stop while it drains.
ErrReceiver == consuming \/ stopper = "drain"

\* Any error ends the handler.
SendErrReturns(c) ==
  /\ pc[c] \in {"headerErr", "payloadErr", "sendParseErr"}
  /\ errChan /\ ErrReceiver
  /\ failed' = IF pc[c] = "sendParseErr" THEN [failed EXCEPT ![c] = @ \cup ({item[c]} \ {Empty})]
                                          ELSE failed
  /\ Goto(c, "exit")
  /\ UNCHANGED <<peer, read, item, eof, closed, others, delivered, panicked>>

\* errChan <- err, and return after io.EOF; any other error does not end the handler, which
\* after a failed read goes on with no bytes, from which it gets the next error
SendErr(c) ==
  /\ pc[c] \in {"headerErr", "payloadErr", "sendParseErr"}
  /\ errChan /\ ErrReceiver
  /\ failed' = IF pc[c] = "sendParseErr" THEN [failed EXCEPT ![c] = @ \cup ({item[c]} \ {Empty})]
                                          ELSE failed
  /\ Goto(c, CASE pc[c] = "sendParseErr"              -> "header"
               [] pc[c] # "sendParseErr" /\ eof[c] -> "exit"
               [] pc[c] = "headerErr" /\ ~eof[c]   -> "payload"
               [] pc[c] = "payloadErr" /\ ~eof[c]  -> "sendParseErr")
  /\ UNCHANGED <<peer, read, item, eof, closed, others, delivered, panicked>>

\* the deferred clientWG.Done() and conn.Close()
Exit(c) ==
  /\ pc[c] = "exit"
  /\ Goto(c, "done")
  /\ clientWG' = clientWG - 1
  /\ closed' = closed \cup {c}
  /\ UNCHANGED <<peer, read, item, eof, recv, accepted, shut, stopper, listening, stopChan, errChan,
                 consuming, history, panicked>>

-----------------------------------------------------------------------------
(* receive and the goroutines that close.                                  *)

Accept(c) ==
  /\ recv = "accept" /\ listening
  /\ end[c] # "new" /\ pc[c] = "none"
  /\ recv' = "serve" /\ accepted' = {c}
  /\ UNCHANGED <<peer, handler, closed, shut, stopper, listening, stopChan, errChan, clientWG,
                 consuming, history, panicked>>

\* clientWG.Add(1), go handleClientConn, go the closer
Serve(c) ==
  /\ recv = "serve" /\ c \in accepted
  /\ clientWG' = clientWG + 1
  /\ Goto(c, "header")
  /\ recv' = "accept" /\ accepted' = {}
  /\ UNCHANGED <<peer, read, item, eof, closed, shut, stopper, listening, stopChan, errChan,
                 consuming, history, panicked>>

\* Accept fails: because the listener is closed, or otherwise
AcceptClosed ==
  /\ recv = "accept" /\ ~listening
  /\ recv' = "lastErr"
  /\ UNCHANGED <<peer, handler, closed, accepted, shut, stopper, listening, stopChan, errChan,
                 clientWG, consuming, history, panicked>>
AcceptFails ==
  /\ recv = "accept" /\ listening
  /\ recv' = "acceptErr"
  /\ UNCHANGED <<peer, handler, closed, accepted, shut, stopper, listening, stopChan, errChan,
                 clientWG, consuming, history, panicked>>

RecvErr ==
  /\ recv \in {"acceptErr", "lastErr"}
  /\ errChan /\ ErrReceiver
  /\ recv' = IF recv = "lastErr" THEN "done" ELSE "accept"
  /\ UNCHANGED <<peer, handler, closed, accepted, shut, stopper, listening, stopChan, errChan,
                 clientWG, consuming, history, panicked>>

\* errChan has been closed under a goroutine that sends on it.
SendPanics ==
  /\ ~errChan
  /\ \/ recv \in {"acceptErr", "lastErr"}
     \/ \E c \in Conn : pc[c] \in {"headerErr", "payloadErr", "sendParseErr"}
  /\ panicked' = TRUE
  /\ UNCHANGED <<peer, handler, closed, others, history>>

\* the goroutine of each accepted connection that waits for stopChan
CloseConn(c) ==
  /\ ~stopChan /\ pc[c] # "none"
  /\ c \notin closed
  /\ closed' = closed \cup {c}
  /\ UNCHANGED <<peer, handler, others, history, panicked>>

\* the shutdown goroutine: nl.Close(), whose error is sent, clientWG.Wait(), close(errChan)
CloseListener ==
  /\ shut = "wait" /\ ~stopChan
  /\ listening' = FALSE
  /\ shut' \in {"sendErr", "wgWait"}
  /\ UNCHANGED <<peer, handler, closed, recv, accepted, stopper, stopChan, errChan, clientWG,
                 consuming, history, panicked>>
SendCloseErr ==
  /\ shut = "sendErr" /\ ErrReceiver
  /\ shut' = "wgWait"
  /\ UNCHANGED <<peer, handler, closed, recv, accepted, stopper, listening, stopChan, errChan, clientWG,
                 consuming, history, panicked>>
HandlersGone ==
  /\ shut = "wgWait" /\ clientWG = 0
  /\ shut' = "closeErr"
  /\ UNCHANGED <<peer, handler, closed, recv, accepted, stopper, listening, stopChan, errChan,
                 clientWG, consuming, history, panicked>>
CloseErrChan ==
  /\ shut = "closeErr"
  /\ errChan' = FALSE
  /\ shut' = "done"
  /\ UNCHANGED <<peer, handler, closed, recv, accepted, stopper, listening, stopChan, clientWG,
                 consuming, history, panicked>>

\* Stop, called once; the application may or may not go on receiving meanwhile
Stop ==
  /\ stopper = "idle"
  /\ stopper' = "wgWait"
  /\ stopChan' = FALSE
  /\ consuming' \in BOOLEAN
  /\ UNCHANGED <<peer, handler, closed, recv, accepted, shut, listening, errChan, clientWG, history,
                 panicked>>
StopWaited ==
  /\ stopper = "wgWait" /\ clientWG = 0
  /\ stopper' = "drain"
  /\ UNCHANGED <<peer, handler, closed, recv, accepted, shut, listening, stopChan, errChan, clientWG,
                 consuming, history, panicked>>
StopReturns ==
  /\ stopper = "drain" /\ ~errChan
  /\ stopper' = "returned"
  /\ UNCHANGED <<peer, handler, closed, recv, accepted, shut, listening, stopChan, errChan, clientWG,
                 consuming, history, panicked>>

-----------------------------------------------------------------------------
HandlerStep(c) ==
  \/ ReadHeader(c) \/ HeaderFails(c) \/ HeaderOfCutMessage(c) \/ ReadPayload(c) \/ PayloadFails(c)
  \/ SendMsg(c) \/ SendErr(c) \/ Exit(c)
ShutStep == CloseListener \/ SendCloseErr \/ HandlersGone \/ CloseErrChan
StopStep == StopWaited \/ StopReturns

StreamNext ==
  /\ ~panicked
  /\ \/ \E c \in Conn : \/ Connect(c) \/ PeerSends(c) \/ PeerCloses(c)
                        \/ HandlerStep(c) \/ Accept(c) \/ Serve(c) \/ CloseConn(c)
     \/ AcceptClosed \/ AcceptFails \/ RecvErr \/ SendPanics
     \/ ShutStep \/ Stop \/ StopStep

StreamSpec == StreamInit /\ [][StreamNext]_streamVars

\* Every goroutine that can take a step takes one; the peer and Accept do as they like.
StreamFairSpec ==
  /\ StreamSpec
  /\ \A c \in Conn : WF_streamVars(HandlerStep(c)) /\ WF_streamVars(Serve(c)) /\ WF_streamVars(CloseConn(c))
  /\ WF_streamVars(ShutStep) /\ WF_streamVars(StopStep) /\ WF_streamVars(AcceptClosed) /\ WF_streamVars(RecvErr)

-----------------------------------------------------------------------------
(* Properties.                                                             *)

Ends == {"new", "open", "cut", "eof"}
HandlerPc == {"none", "header", "headerErr", "payload", "payloadErr", "sendMsg",
              "sendParseErr", "exit", "done"}

StreamTypeOK ==
  /\ sent \in [Conn -> 0..MaxMsg] /\ end \in [Conn -> Ends]
  /\ pc \in [Conn -> HandlerPc] /\ read \in [Conn -> 0..MaxMsg]
  /\ item \in [Conn -> 0..(MaxMsg + 1)] /\ eof \in [Conn -> BOOLEAN]
  /\ closed \subseteq Conn /\ accepted \subseteq Conn
  /\ recv \in {"accept", "serve", "acceptErr", "lastErr", "done"}
  /\ shut \in {"wait", "sendErr", "wgWait", "closeErr", "done"}
  /\ stopper \in {"idle", "wgWait", "drain", "returned"}
  /\ listening \in BOOLEAN /\ stopChan \in BOOLEAN /\ errChan \in BOOLEAN /\ consuming \in BOOLEAN
  /\ clientWG \in Nat
  /\ delivered \in [Conn -> SUBSET (1..MaxMsg)] /\ failed \in [Conn -> SUBSET (1..MaxMsg)]
  /\ panicked \in BOOLEAN

InHand(c) == CASE pc[c] = "sendMsg"      -> {item[c]}
               [] pc[c] = "sendParseErr" -> {item[c]} \ {Empty}
               [] OTHER                  -> {}

\* Start's comment, stream_target.go:88-89: messages are sent to msgChan and errors to
\* errChan.  A message that was read, Stop or not, is in the handler's hand or has been
\* received, itself or its parse error, and nothing is received as a message that was not
\* read as one.
NothingLost ==
  \A c \in Conn : 1..read[c] = delivered[c] \cup failed[c] \cup InHand(c)

\* stream_target.go:87-90, "Start loops forever": before Stop, receive goes on whatever
\* Accept returns, and a handler leaves a connection only at its end, with everything
\* that was sent completely handled, whatever became of it and of other connections.
ServesUntilStop ==
  stopChan => /\ recv # "done"
              /\ \A c \in Conn : pc[c] \in {"exit", "done"} =>
                                 /\ end[c] = "eof"
                                 /\ delivered[c] \cup failed[c] = 1..sent[c]

\* stream_target.go:116-117: handlers are waited for before errChan is closed, which is to
\* say that nobody sends on the closed channel.
NoSendOnClosedErrChan == ~panicked

\* stream_target.go:125-126, "signal exit to client conn handlers" and "wait for client conn
\* handlers to exit": after Stop every handler ends, where the application still receives
\* from both channels.
StopEndsHandlers ==
  \A c \in Conn : (~stopChan /\ consuming /\ pc[c] # "none") ~> (pc[c] = "done" \/ panicked)
=============================================================================
