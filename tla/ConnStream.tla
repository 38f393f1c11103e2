------------------------------ MODULE ConnStream ------------------------------
(***************************************************************************)
(* One direction of a connection: the send queue of one end, the bytes on  *)
(* the wire, and the receive callbacks of the other end, which cut the     *)
(* stream into header, message, attachments and file again, or drain what  *)
(* they cannot use.  TCP cuts the stream anywhere, so that a vector fills  *)
(* in any number of steps.                                                 *)
(*                                                                         *)
(* A header and a message are one unit of data each; attachments and files *)
(* are counted in units, of which gMaxBlockSize make a block.  The receiver*)
(* is the server of the requests it gets and the client of the responses.  *)
(***************************************************************************)
EXTENDS Naturals, Sequences

CONSTANTS
    Shapes,         \* messages a peer may send: their kind and their lengths
    MaxMessages,    \* bound: messages sent on the connection
    gMaxBlockSize,  \* CommStage's maxBlockSize, in units
    WireMax,        \* bound: units the socket buffers hold
    UserBuffers,    \* response buffers a client may post with its request
    Nil

(* A "stray" response answers no request of this client; a "malformed"     *)
(* message cannot be deserialized, an "odd" one is neither a request nor a *)
(* response, an "alien" one has a header of another type.                  *)
Kinds == {"request", "response", "stray", "malformed", "odd", "alien"}

Ids == 1..MaxMessages
Parts == {"header", "message", "att", "file"}
Units == [id : Ids, part : Parts, n : Nat]
AllocTypes == {"SYS_ALLOC", "USER_ALLOC"}
RecvVecs == [size : Nat, got : Seq(Units), alloc : AllocTypes]
States == {"HEADER", "MESSAGE", "ATTACHMENT", "ATTACHFILE", "DRAIN"}

ASSUME StreamAssumption ==
    /\ Shapes \subseteq [kind : Kinds, att : Nat, file : Nat]
    /\ MaxMessages \in Nat /\ WireMax \in Nat \ {0}
    /\ gMaxBlockSize \in Nat \ {0}
    /\ UserBuffers \subseteq Seq(Nat)
    /\ Nil \notin Nat /\ Nil \notin RecvVecs

(* The units of a part, and the content the receiver should hand on.       *)
UnitsOf(id, part, len) == [n \in 1..len |-> [id |-> id, part |-> part, n |-> n]]
Content(id, m) == UnitsOf(id, "att", m.att) \o UnitsOf(id, "file", m.file)

(* The number of blocks of len units.                                      *)
BlockCount(len) == (len + gMaxBlockSize - 1) \div gMaxBlockSize
LeastOf(a, b) == IF a <= b THEN a ELSE b

VARIABLES
    posted,       \* the messages sent, in order; their position is their id
    mSendQ,       \* the send queue, the current block first
    sendFile,     \* units of a file that sendfile has not written yet
    truncated,    \* messages whose announced file was never written
    wire,         \* units in the socket buffers
    closed,       \* the sending end has closed the connection
    mRecvQ, mCurRecvBlock,
    mNextRecvPart,
    cbp,          \* the receive callback's parameter, one per connection
    data,         \* units the event being received has got
    mSendEventMap,\* the receiver's own requests that wait for a response
    buffers,      \* the response buffers posted with them
    reply,        \* how the client's requests were completed
    handed,       \* events handed on: to the next stage, or to the client
    ended         \* how the connection ended

sendVars == <<posted, mSendQ, sendFile, truncated, closed>>
eventVars == <<mSendEventMap, reply, handed>>
vars == <<sendVars, wire, mRecvQ, mCurRecvBlock, mNextRecvPart, cbp, data,
          buffers, eventVars, ended>>

NewCbp == [cev |-> Nil, attLen |-> 0, fileLen |-> 0, remainVecs |-> 0,
           drainLen |-> 0]

TypeOK ==
    /\ posted \in Seq(Shapes) /\ Len(posted) <= MaxMessages
    /\ mSendQ \in Seq([id : Ids, units : Seq(Units), last : BOOLEAN])
    /\ sendFile \in Seq(Units) /\ wire \in Seq(Units)
    /\ Len(wire) <= WireMax
    /\ truncated \subseteq Ids /\ closed \in BOOLEAN
    /\ mRecvQ \in Seq(RecvVecs)
    /\ mCurRecvBlock \in RecvVecs \cup {Nil}
    /\ mNextRecvPart \in States
    /\ cbp \in [cev : Ids \cup {Nil}, attLen : Nat, fileLen : Nat,
                remainVecs : Nat, drainLen : Nat]
    /\ data \in Seq(Units)
    /\ mSendEventMap \subseteq Ids
    /\ buffers \in UserBuffers
    /\ reply \in [Ids -> {"none", "answer", "malformed", "failure", "twice"}]
    /\ handed \in Seq([id : Ids, data : Seq(Units)])
    /\ ended \in {"open", "broken", "cleaned", "assert", "misread"}

HeaderVec(alloc) == [size |-> 1, got |-> <<>>, alloc |-> alloc]

(* ON_CONNECT posts the vector for the first header.  All requests of the  *)
(* client that will be answered are in the map from the start.             *)
Init ==
    /\ posted = <<>> /\ mSendQ = <<>> /\ sendFile = <<>> /\ wire = <<>>
    /\ truncated = {} /\ closed = FALSE
    /\ mRecvQ = <<HeaderVec("SYS_ALLOC")>> /\ mCurRecvBlock = Nil
    /\ mNextRecvPart = "HEADER" /\ cbp = NewCbp /\ data = <<>>
    /\ mSendEventMap = Ids /\ reply = [r \in Ids |-> "none"]
    /\ buffers \in UserBuffers
    /\ handed = <<>> /\ ended = "open"

-----------------------------------------------------------------------------
(* The sending end.                                                        *)

(* What prepareIovecs makes of a message: header and message in one vector,*)
(* then the attachments; the last vector has the callback's parameter.     *)
IoVecsOf(id, m) ==
    LET first == UnitsOf(id, "header", 1) \o UnitsOf(id, "message", 1)
        rest == UnitsOf(id, "att", m.att)
    IN IF m.att = 0 THEN <<[id |-> id, units |-> first, last |-> TRUE]>>
       ELSE <<[id |-> id, units |-> first, last |-> FALSE],
              [id |-> id, units |-> rest, last |-> TRUE]>>

PostSend(m) ==
    LET id == Len(posted) + 1 IN
    /\ ~closed /\ id \in Ids
    /\ posted' = Append(posted, m)
    /\ mSendQ' = mSendQ \o IoVecsOf(id, m)
    /\ UNCHANGED <<sendFile, truncated, closed, wire, mRecvQ, mCurRecvBlock,
                   mNextRecvPart, cbp, data, buffers, eventVars, ended>>

(* The socket takes k units of the current block.                          *)
SendVec(k) ==
    /\ ~closed /\ sendFile = <<>> /\ mSendQ # <<>>
    /\ LET iov == Head(mSendQ) IN
       /\ k <= Len(iov.units) /\ Len(wire) + k <= WireMax
       /\ wire' = wire \o SubSeq(iov.units, 1, k)
       /\ mSendQ' = [mSendQ EXCEPT ![1].units = SubSeq(@, k + 1, Len(@))]
    /\ UNCHANGED <<posted, sendFile, truncated, closed, mRecvQ, mCurRecvBlock,
                   mNextRecvPart, cbp, data, buffers, eventVars, ended>>

(* The callback of a finished vector.  The parameter of a request has the  *)
(* length of its file; that of a response does not, so that its file is    *)
(* announced and never sent.  opened: the file could be opened.            *)
SendCallback(opened) ==
    /\ ~closed /\ sendFile = <<>> /\ mSendQ # <<>> /\ Head(mSendQ).units = <<>>
    /\ LET iov == Head(mSendQ)
           m == posted[iov.id]
           hasFile == iov.last /\ m.file > 0
           sent == hasFile /\ m.kind \notin {"response", "stray"} /\ opened
       IN /\ sendFile' = IF sent THEN UnitsOf(iov.id, "file", m.file) ELSE <<>>
          /\ truncated' = IF hasFile /\ ~sent THEN truncated \cup {iov.id}
                          ELSE truncated
    /\ mSendQ' = Tail(mSendQ)
    /\ UNCHANGED <<posted, closed, wire, mRecvQ, mCurRecvBlock, mNextRecvPart,
                   cbp, data, buffers, eventVars, ended>>

(* Sock::sendfile makes the socket blocking and writes until all is out.   *)
SendFile ==
    /\ ~closed /\ sendFile # <<>> /\ Len(wire) < WireMax
    /\ wire' = Append(wire, Head(sendFile))
    /\ sendFile' = Tail(sendFile)
    /\ UNCHANGED <<posted, mSendQ, truncated, closed, mRecvQ, mCurRecvBlock,
                   mNextRecvPart, cbp, data, buffers, eventVars, ended>>

PeerClose ==
    /\ ~closed
    /\ closed' = TRUE /\ mSendQ' = <<>> /\ sendFile' = <<>>
    /\ UNCHANGED <<posted, truncated, wire, mRecvQ, mCurRecvBlock,
                   mNextRecvPart, cbp, data, buffers, eventVars, ended>>

-----------------------------------------------------------------------------
(* The receiving end: Conn::recvProgress and recvvecProgress.              *)

TakeVec ==
    /\ ended = "open" /\ mCurRecvBlock = Nil /\ mRecvQ # <<>>
    /\ mCurRecvBlock' = Head(mRecvQ) /\ mRecvQ' = Tail(mRecvQ)
    /\ UNCHANGED <<sendVars, wire, mNextRecvPart, cbp, data, buffers,
                   eventVars, ended>>

Remain == mCurRecvBlock.size - Len(mCurRecvBlock.got)
Done == mCurRecvBlock # Nil /\ Remain = 0

(* recv returns k of the units it was asked for.                           *)
RecvVec(k) ==
    /\ ended = "open" /\ mCurRecvBlock # Nil
    /\ k \in 1..LeastOf(Remain, Len(wire))
    /\ mCurRecvBlock' = [mCurRecvBlock EXCEPT !.got = @ \o SubSeq(wire, 1, k)]
    /\ wire' = SubSeq(wire, k + 1, Len(wire))
    /\ UNCHANGED <<sendVars, mRecvQ, mNextRecvPart, cbp, data, buffers,
                   eventVars, ended>>

-----------------------------------------------------------------------------
(* What the callbacks are made of.  The current vector is given up before  *)
(* its callback runs, and is posted again or freed by it.                  *)

Post(vecs) == mRecvQ' = mRecvQ \o vecs /\ mCurRecvBlock' = Nil

(* repostIoVec: a new buffer for a header, in the same vector.  The vector *)
(* keeps the allocation type it was made with.                             *)
RepostHeader ==
    /\ Post(<<HeaderVec(mCurRecvBlock.alloc)>>)
    /\ mNextRecvPart' = "HEADER"

(* completeEvent of the client's requests in S.                            *)
CompleteAll(S, how) ==
    reply' = [r \in Ids |-> IF r \notin S THEN reply[r]
                            ELSE IF reply[r] = "none" THEN how ELSE "twice"]

(* recvErrCb: the event being received is dropped by a server, and         *)
(* completed by the client that waits for it.                              *)
FailedRequest == IF cbp.cev # Nil /\ posted[cbp.cev].kind = "response"
                 THEN {cbp.cev} ELSE {}

(* prepare2Drain: read and forget len units.                               *)
PrepareDrain(len, c) ==
    IF len > 0
    THEN /\ cbp' = [c EXCEPT !.drainLen = len, !.remainVecs = BlockCount(len)]
         /\ Post(<<[size |-> LeastOf(gMaxBlockSize, len), got |-> <<>>,
                    alloc |-> mCurRecvBlock.alloc]>>)
         /\ mNextRecvPart' = "DRAIN"
    ELSE /\ cbp' = [c EXCEPT !.cev = Nil, !.drainLen = 0]
         /\ RepostHeader

(* allocAttachIoVecs: whole blocks and a last one with what is left.       *)
(* Mutant: the last block has the remainder of the division.               *)
BlockSizesByRemainder(len) ==
    [i \in 1..BlockCount(len) |->
        IF i < BlockCount(len) THEN gMaxBlockSize ELSE len % gMaxBlockSize]
BlockSizes(len) ==
    [i \in 1..BlockCount(len) |->
        IF i < BlockCount(len) THEN gMaxBlockSize
        ELSE len - (BlockCount(len) - 1) * gMaxBlockSize]

(* recvPrepareRspAttach: the client's own buffers, cut to the attachments' *)
(* length, or with blocks added when they are too small.                   *)
RoomTo(sizes) ==
    LET room[i \in 0..Len(sizes)] == IF i = 0 THEN 0 ELSE room[i - 1] + sizes[i]
    IN room
Room(sizes) == RoomTo(sizes)[Len(sizes)]
Before(sizes, i) == RoomTo(sizes)[i - 1]
CutTo(sizes, len) ==
    [i \in DOMAIN sizes |->
        IF Before(sizes, i) >= len THEN 0
        ELSE LeastOf(sizes[i], len - Before(sizes, i))]
(* Mutant: buffers that are too large are used whole.                      *)
RspSizesUncut(sizes, len) ==
    IF Room(sizes) >= len THEN sizes
    ELSE sizes \o BlockSizes(len - Room(sizes))
RspSizes(sizes, len) ==
    IF Room(sizes) >= len THEN CutTo(sizes, len)
    ELSE sizes \o BlockSizes(len - Room(sizes))

AttachVecs(sizes) ==
    [i \in DOMAIN sizes |->
        [size |-> sizes[i], got |-> <<>>, alloc |-> "USER_ALLOC"]]

(* pushAttachMessage: all attachment vectors share the parameter, which    *)
(* counts them.                                                            *)
PostAttach(sizes, c) ==
    /\ Post(AttachVecs(sizes))
    /\ cbp' = [c EXCEPT !.remainVecs = Len(sizes)]
    /\ mNextRecvPart' = "ATTACHMENT"

(* recvPrepareFileIov: one vector of a block, for the first block.         *)
PostFile(c) ==
    /\ Post(<<[size |-> LeastOf(gMaxBlockSize, c.fileLen), got |-> <<>>,
               alloc |-> "SYS_ALLOC"]>>)
    /\ cbp' = [c EXCEPT !.remainVecs = BlockCount(c.fileLen)]
    /\ mNextRecvPart' = "ATTACHFILE"

(* checkEventReady and eventDone: a request goes to the next stage, a      *)
(* response completes its request; then the next header.                   *)
Deliver(id, content, c) ==
    /\ handed' = Append(handed, [id |-> id, data |-> content])
    /\ CompleteAll(IF posted[id].kind = "response" THEN {id} ELSE {}, "answer")
    /\ cbp' = [c EXCEPT !.cev = Nil]
    /\ RepostHeader

NotDelivered == UNCHANGED <<reply, handed>>

-----------------------------------------------------------------------------
(* Conn::recvCallback, by what the connection expects next.                *)

Callback(part) == ended = "open" /\ Done /\ mNextRecvPart = part
First == mCurRecvBlock.got[1]
NothingSent == UNCHANGED <<sendVars, wire, buffers>>

(* The bytes of a message taken for a header: its lengths are arbitrary,   *)
(* and the model stops here.                                               *)
MisreadHeader ==
    /\ Callback("HEADER") /\ First.part # "header"
    /\ ended' = "misread"
    /\ NothingSent /\ NotDelivered
    /\ UNCHANGED <<mRecvQ, mCurRecvBlock, mNextRecvPart, cbp, data,
                   mSendEventMap>>

NewHeader(m) == [NewCbp EXCEPT !.attLen = m.att, !.fileLen = m.file]

AlienHeader ==
    /\ Callback("HEADER") /\ First.part = "header"
    /\ LET m == posted[First.id] IN
       /\ m.kind = "alien"
       /\ PrepareDrain(1 + m.att + m.file, NewHeader(m))
    /\ NothingSent /\ NotDelivered /\ data' = <<>>
    /\ UNCHANGED <<mSendEventMap, ended>>

HeaderCallback ==
    /\ Callback("HEADER") /\ First.part = "header"
    /\ LET m == posted[First.id] IN
       /\ m.kind # "alien"
       /\ cbp' = NewHeader(m)
    /\ mCurRecvBlock.alloc = "SYS_ALLOC"
    /\ Post(<<[size |-> 1, got |-> <<>>, alloc |-> "SYS_ALLOC"]>>)
    /\ mNextRecvPart' = "MESSAGE"
    /\ NothingSent /\ NotDelivered /\ data' = <<>>
    /\ UNCHANGED <<mSendEventMap, ended>>

(* ASSERT((iov->getAllocType() == IoVec::SYS_ALLOC), "bad alloc")          *)
HeaderAssert ==
    /\ Callback("HEADER") /\ First.part = "header"
    /\ posted[First.id].kind # "alien"
    /\ mCurRecvBlock.alloc # "SYS_ALLOC"
    /\ ended' = "assert"
    /\ NothingSent /\ NotDelivered
    /\ UNCHANGED <<mRecvQ, mCurRecvBlock, mNextRecvPart, cbp, data,
                   mSendEventMap>>

Rest == cbp.attLen + cbp.fileLen

(* A message that cannot be used: malformed (and answered so by            *)
(* sendBadMsgErr), neither request nor response, or without an event.      *)
Unusable(id) == \/ posted[id].kind \in {"malformed", "odd", "stray"}
                \/ posted[id].kind = "response" /\ id \notin mSendEventMap

MessageUnusable ==
    /\ Callback("MESSAGE") /\ Unusable(First.id)
    /\ PrepareDrain(Rest, cbp)
    /\ NothingSent /\ NotDelivered
    /\ UNCHANGED <<data, mSendEventMap, ended>>

(* recvReqMsg and recvRspMsg.  A response takes its request from the map.  *)
MessageUsable(id, sizes) ==
    LET c == [cbp EXCEPT !.cev = id] IN
    IF cbp.attLen > 0 THEN PostAttach(sizes, c) /\ NotDelivered
    ELSE IF cbp.fileLen > 0 THEN PostFile(c) /\ NotDelivered
    ELSE Deliver(id, <<>>, c)

RecvReqMsg ==
    /\ Callback("MESSAGE") /\ posted[First.id].kind = "request"
    /\ MessageUsable(First.id, BlockSizes(cbp.attLen))
    /\ NothingSent /\ UNCHANGED <<data, mSendEventMap, ended>>

RecvRspMsg ==
    /\ Callback("MESSAGE") /\ posted[First.id].kind = "response"
    /\ First.id \in mSendEventMap
    /\ mSendEventMap' = mSendEventMap \ {First.id}
    /\ MessageUsable(First.id,
                     IF buffers = <<>> THEN BlockSizes(cbp.attLen)
                     ELSE RspSizes(buffers, cbp.attLen))
    /\ NothingSent /\ UNCHANGED <<data, ended>>

(* One more attachment vector: the last one goes on to the file, or ends   *)
(* the message.                                                            *)
RecvAttach ==
    /\ Callback("ATTACHMENT")
    /\ data' = data \o mCurRecvBlock.got
    /\ LET c == [cbp EXCEPT !.remainVecs = @ - 1] IN
       IF c.remainVecs > 0
       THEN /\ cbp' = c /\ mCurRecvBlock' = Nil
            /\ NotDelivered /\ UNCHANGED <<mRecvQ, mNextRecvPart>>
       ELSE IF c.fileLen > 0 THEN PostFile(c) /\ NotDelivered
       ELSE Deliver(c.cev, data', c)
    /\ NothingSent /\ UNCHANGED <<mSendEventMap, ended>>

(* A block of a file is written, and counted.  Nothing is posted for the   *)
(* next one, and nothing after a failed write.                             *)
RecvFile(written) ==
    /\ Callback("ATTACHFILE")
    /\ LET c == [cbp EXCEPT !.remainVecs = @ - 1]
           content == data \o mCurRecvBlock.got
       IN \/ /\ written /\ c.remainVecs = 0
             /\ data' = content /\ Deliver(c.cev, content, c)
          \/ /\ written /\ c.remainVecs > 0
             /\ data' = content /\ cbp' = c /\ mCurRecvBlock' = Nil
             /\ NotDelivered /\ UNCHANGED <<mRecvQ, mNextRecvPart>>
          \/ /\ ~written
             /\ mCurRecvBlock' = Nil
             /\ NotDelivered /\ UNCHANGED <<mRecvQ, mNextRecvPart, cbp, data>>
    /\ NothingSent /\ UNCHANGED <<mSendEventMap, ended>>

(* The size of the next vector to drain: whole blocks, then the remainder. *)
(* Mutant: the last vector is a whole block too.                           *)
DrainSizeWhole(left) == mCurRecvBlock.size
DrainSize(left) == IF left = 1 THEN cbp.drainLen % gMaxBlockSize
                   ELSE mCurRecvBlock.size

RecvDrain ==
    /\ Callback("DRAIN")
    /\ LET left == cbp.remainVecs - 1 IN
       IF left = 0
       THEN /\ RepostHeader /\ cbp' = [cbp EXCEPT !.remainVecs = 0, !.cev = Nil]
            /\ CompleteAll(FailedRequest, "failure")
       ELSE /\ Post(<<[mCurRecvBlock EXCEPT !.size = DrainSize(left),
                                            !.got = <<>>]>>)
            /\ cbp' = [cbp EXCEPT !.remainVecs = left]
            /\ UNCHANGED <<reply, mNextRecvPart>>
    /\ NothingSent /\ UNCHANGED <<data, mSendEventMap, handed, ended>>

-----------------------------------------------------------------------------
(* The end of the connection.                                              *)

(* recv returns 0 in the middle of a vector: the callback frees it and     *)
(* gives up the event.                                                     *)
(* Mutant: the end of the stream is only noticed within a message.         *)
RecvBrokenInMessage ==
    /\ ended = "open" /\ mCurRecvBlock # Nil /\ Remain > 0
    /\ closed /\ wire = <<>> /\ mNextRecvPart # "HEADER"
    /\ mCurRecvBlock' = Nil /\ cbp' = [cbp EXCEPT !.cev = Nil]
    /\ CompleteAll(FailedRequest, "failure")
    /\ ended' = "broken"
    /\ NothingSent
    /\ UNCHANGED <<mRecvQ, mNextRecvPart, data, mSendEventMap, handed>>
RecvBroken ==
    /\ ended = "open" /\ mCurRecvBlock # Nil /\ Remain > 0
    /\ closed /\ wire = <<>>
    /\ mCurRecvBlock' = Nil /\ cbp' = [cbp EXCEPT !.cev = Nil]
    /\ CompleteAll(FailedRequest, "failure")
    /\ ended' = "broken"
    /\ NothingSent
    /\ UNCHANGED <<mRecvQ, mNextRecvPart, data, mSendEventMap, handed>>

(* Conn::cleanup, after a break, an error event or a disconnect: the       *)
(* posted vectors get their callback, then ON_DISCONNECT completes the     *)
(* requests in the map.  With no vector posted nobody completes the event  *)
(* in the callback's parameter, which is freed.                            *)
(* Mutant: vectors still in the queue are freed without their callback.    *)
GivenUpCurrentOnly == IF mCurRecvBlock # Nil THEN FailedRequest ELSE {}
GivenUp == IF mRecvQ # <<>> \/ mCurRecvBlock # Nil THEN FailedRequest ELSE {}

Cleanup ==
    /\ ended \in {"open", "broken"}
    /\ CompleteAll(GivenUp \cup mSendEventMap, "failure")
    /\ mSendEventMap' = {}
    /\ mRecvQ' = <<>> /\ mCurRecvBlock' = Nil /\ cbp' = NewCbp
    /\ ended' = "cleaned"
    /\ NothingSent /\ UNCHANGED <<mNextRecvPart, data, handed>>

-----------------------------------------------------------------------------
SendStep == \/ \E k \in 1..WireMax : SendVec(k)
            \/ \E opened \in BOOLEAN : SendCallback(opened)
            \/ SendFile

MessageStep == MessageUnusable \/ RecvReqMsg \/ RecvRspMsg
RecvStep ==
    \/ TakeVec
    \/ \E k \in 1..WireMax : RecvVec(k)
    \/ MisreadHeader \/ AlienHeader \/ HeaderCallback \/ HeaderAssert
    \/ MessageStep \/ RecvAttach
    \/ \E written \in BOOLEAN : RecvFile(written)
    \/ RecvDrain
    \/ RecvBroken

Next ==
    \/ \E m \in Shapes : PostSend(m)
    \/ SendStep \/ PeerClose
    \/ RecvStep \/ Cleanup

Spec == Init /\ [][Next]_vars

(* The threads that send and receive go on while the socket allows it, and *)
(* Net::recvData removes a connection that recvProgress found broken.      *)
FairSpec ==
    /\ Spec
    /\ WF_vars(SendStep) /\ WF_vars(RecvStep)
    /\ WF_vars(ended = "broken" /\ Cleanup)

-----------------------------------------------------------------------------
(* Properties.                                                             *)

VecCount == Len(mRecvQ) + (IF mCurRecvBlock = Nil THEN 0 ELSE 1)
Posted == LET cur == IF mCurRecvBlock = Nil THEN <<>> ELSE <<mCurRecvBlock>>
          IN cur \o mRecvQ
Stalled == ended = "open" /\ VecCount = 0

(* While the connection is open the receive path never runs dry and never  *)
(* posts too much: one vector for a header, a message or a drain, and for  *)
(* attachments as many as remainVecs counts, whose room is exactly what is *)
(* missing.  Only a file may leave it without a vector (conncb.cpp:1005).  *)
(* The types are checked along.                                            *)
VectorsExact ==
    /\ TypeOK
    /\ ended = "open" =>
            /\ mNextRecvPart \in {"HEADER", "MESSAGE", "DRAIN"} => VecCount = 1
            /\ mNextRecvPart = "ATTACHFILE" => VecCount <= 1
            /\ mNextRecvPart = "ATTACHMENT" =>
                 /\ VecCount = cbp.remainVecs
                 /\ Len(data) + Room([i \in DOMAIN Posted |-> Posted[i].size])
                      = cbp.attLen

(* A drain whose length is a multiple of the block, but not one block, has *)
(* a last vector of size 0 and ends a block too early (conncb.cpp:1031).   *)
DrainLen(m) == (IF m.kind = "alien" THEN 1 ELSE 0) + m.att + m.file
EndsEarly(id) ==
    LET m == posted[id] IN
    /\ m.kind \in {"stray", "malformed", "odd", "alien"}
    /\ DrainLen(m) > gMaxBlockSize /\ DrainLen(m) % gMaxBlockSize = 0

(* Whatever is received, used or drained, and however the stream is cut,   *)
(* the next header starts where the last message ended; except after such  *)
(* a drain, and after a file that was announced and never sent.            *)
BoundariesKept ==
    ended = "misread" =>
        \E id \in 1..First.id : id \in truncated \/ EndsEarly(id)

(* What the callbacks hand on is what was sent: the usable messages, each  *)
(* once, in order, none left out, each with all of its attachment and file *)
(* units; as long as the sender sent the files it announced.               *)
Intact ==
    \A i \in DOMAIN handed :
        LET h == handed[i] IN
        (\A t \in truncated : t > h.id) =>
            /\ h.data = Content(h.id, posted[h.id])
            /\ \A j \in 1..i - 1 : handed[j].id < h.id
            /\ \A id \in 1..h.id : posted[id].kind \in {"request", "response"}
                                     => \E j \in 1..i : handed[j].id = id

(* A request of the client is completed no more than once, and by the time *)
(* the connection is gone at least once: by its response, by recvErrCb or  *)
(* by ON_DISCONNECT; unless its response announced a file.                 *)
SettledOnce ==
    \A r \in Ids :
        /\ reply[r] # "twice"
        /\ ended = "cleaned" /\ reply[r] = "none" =>
             r \in DOMAIN posted /\ posted[r].file > 0

(* A request whose peer closes the connection is settled in the end: what- *)
(* ever was being read, recvProgress finds the break, and the cleanup that *)
(* follows completes what is left; unless the receive path has stopped on  *)
(* a file, a failed assertion or a misread header.                         *)
BrokenRequestSettles ==
    \A r \in Ids :
        closed ~> \/ reply[r] # "none" \/ ended = "cleaned"
                  \/ Stalled \/ ended \in {"assert", "misread"}
=============================================================================
