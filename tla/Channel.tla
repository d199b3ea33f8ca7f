------------------------------- MODULE Channel -------------------------------
(***************************************************************************)
(* One connection of a worker: a GKWP/2 channel (Channel, with its Decoder *)
(* and StreamManager) or an HTTP channel (HttpChannel).  The worker's loop *)
(* calls HandleEvents with what epoll reports; the handler reads until the *)
(* socket is empty, runs a request for each complete frame, and writes as  *)
(* much of an answer as the socket takes.  The peer sends and reads at its *)
(* own pace, so requests arrive in pieces, several at a time, and answers  *)
(* leave in pieces.                                                        *)
(*                                                                         *)
(* Bytes are counted in units.  What the peer sends is the sequence of its *)
(* requests; the bytes of it that have come this far are numbers.  What    *)
(* the channel sends is a sequence of units <<kind, request, part>>.       *)
(***************************************************************************)
EXTENDS Integers, Sequences, FiniteSets, FiniteSetsExt, SequencesExt

CONSTANTS
    Protocols,     \* which of "gkwp2" and "http" the peer speaks
    Requests,      \* requests of a peer, see Request below
    MaxRequests,   \* bound on the requests of a connection
    ReadSize,      \* most units one recv returns
    HeaderSize,    \* units of a GKWP/2 header
    MaxPayload,    \* kMaxPayloadLength
    MaxDecoder,    \* kMaxDecoderBufferSize
    CompactAbove,  \* consumed units above which Push compacts its buffer
    MaxHead,       \* units of an HTTP header block above which 431 is sent
    MaxStreams,    \* max_concurrent_streams
    MaxWrite,      \* kMaxWriteBufferSize
    AnswerSize,    \* units of an answer
    SocketSize     \* units the socket takes before the peer reads

(***************************************************************************)
(* A request is a head and a body.  valid: magic and version, or the       *)
(* request line, are right.  stream and last are the GKWP/2 stream and its *)
(* END_STREAM flag; keep is what HTTP's version and Connection header say  *)
(* about the connection.                                                   *)
(***************************************************************************)
Request == [proto : Protocols, head : Nat \ {0}, body : Nat, valid : BOOLEAN,
            stream : Nat, last : BOOLEAN, keep : BOOLEAN]

ASSUME ChannelAssumption ==
    /\ Protocols \subseteq {"gkwp2", "http"}
    /\ Requests \subseteq Request
    /\ \A r \in Requests : IF r.proto = "gkwp2" THEN r.head = HeaderSize ELSE r.stream = 0
    /\ \A n \in {ReadSize, AnswerSize, SocketSize, HeaderSize} : n \in Nat \ {0}
    /\ \A n \in {MaxRequests, MaxPayload, MaxDecoder, CompactAbove, MaxHead,
                 MaxStreams, MaxWrite} : n \in Nat

VARIABLES
    proto,     \* the protocol of the connection
    reqs,      \* the requests the peer has begun to send
    arrived,   \* units of them that have reached the socket
    hup,       \* the peer has closed its side
    received,  \* units recv has returned
    base,      \* units erased from the front of the read buffer
    decoded,   \* frames the decoder has put out
    handled,   \* requests executed or refused
    streams,   \* StreamManager::streams_
    wbuf,      \* the unsent part of write_buffer_
    armed,     \* epoll watches for EPOLLOUT
    closing,   \* close_after_write_
    closed,    \* why the channel was closed, or "open"
    pc,        \* where HandleEvents is
    events,    \* the events it was called with
    wire,      \* what the socket has taken
    read       \* units of it the peer has read

peerVars == <<proto, reqs, arrived, hup, read>>
inVars == <<received, base, decoded, handled, streams>>
outVars == <<wbuf, armed, closing, closed, wire>>
vars == <<proto, reqs, arrived, hup, received, base, decoded, handled, streams,
          wbuf, armed, closing, closed, pc, events, wire, read>>

Init ==
    /\ proto \in Protocols
    /\ reqs = <<>> /\ arrived = 0 /\ hup = FALSE /\ read = 0
    /\ received = 0 /\ base = 0 /\ decoded = 0 /\ handled = 0
    /\ streams = {}
    /\ wbuf = <<>> /\ armed = FALSE /\ closing = FALSE /\ closed = "open"
    /\ wire = <<>>
    /\ pc = "poll" /\ events = {}

(* Units up to the end of request i. *)
EndOf(i) ==
    LET end[j \in 0 .. Len(reqs)] ==
            IF j = 0 THEN 0 ELSE end[j - 1] + reqs[j].head + reqs[j].body
    IN  end[i]

Units(kind, i) == [p \in 1 .. AnswerSize |-> <<kind, i, p>>]

Room == SocketSize - (Len(wire) - read)

-----------------------------------------------------------------------------
(* Sending *)

(* Mutant: nothing bounds the buffer. *)
Buffer_Unbounded(rest) ==
    /\ wbuf' = wbuf \o rest
    /\ armed' = TRUE
    /\ UNCHANGED closed

(***************************************************************************)
(* The rest of an answer is buffered.  Only the GKWP/2 channel bounds its  *)
(* buffer.                                                                 *)
(***************************************************************************)
Buffer(rest) ==
    IF proto = "gkwp2" /\ Len(wbuf) + Len(rest) > MaxWrite
    THEN /\ closed' = "backlog"
         /\ UNCHANGED <<wbuf, armed>>
    ELSE /\ wbuf' = wbuf \o rest
         /\ armed' = TRUE
         /\ UNCHANGED closed

(* Mutant: an answer is written at once, whatever is still unsent. *)
SendsAtOnce_Always == TRUE

(* Only when nothing is unsent may an answer go straight to the socket. *)
SendsAtOnce == wbuf = <<>>

(***************************************************************************)
(* Send, with mark the new close_after_write_.  send() takes some of the   *)
(* data, none (EAGAIN, EINTR), or fails.                                   *)
(***************************************************************************)
Send(data, mark) ==
    /\ closing' = mark
    /\ \/ /\ closed # "open"
          /\ UNCHANGED <<wbuf, armed, closed, wire>>
       \/ /\ closed = "open" /\ SendsAtOnce
          /\ closed' = "error"
          /\ UNCHANGED <<wbuf, armed, wire>>
       \/ /\ closed = "open" /\ SendsAtOnce
          /\ \E n \in 0 .. Min({Room, Len(data)}) :
                /\ wire' = wire \o SubSeq(data, 1, n)
                /\ IF n < Len(data) THEN Buffer(SubSeq(data, n + 1, Len(data)))
                   ELSE /\ closed' = IF mark THEN "done" ELSE closed
                        /\ UNCHANGED <<wbuf, armed>>
       \/ /\ closed = "open" /\ ~SendsAtOnce
          /\ Buffer(data)
          /\ UNCHANGED wire

(* Mutant: EPOLLOUT is not asked for again after a partial write. *)
AfterWrite_Disarms(n) == FALSE

(* Whether EPOLLOUT stays asked for after n units were written. *)
AfterWrite(n) == n < Len(wbuf)

(* Mutant: the channel is closed after the first write. *)
WriteCloses_Early(n) == closing

(* Whether the channel is closed after n units were written. *)
WriteCloses(n) == closing /\ n = Len(wbuf)

(* HandleWrite: writes until the buffer is empty or the socket full. *)
HandleWrite ==
    /\ pc = "write"
    /\ closed = "open"
    /\ pc' = "hup"
    /\ \/ /\ wbuf # <<>>
          /\ closed' = "error"
          /\ UNCHANGED <<wbuf, armed, wire>>
       \/ LET n == Min({Room, Len(wbuf)})
          IN  /\ wire' = wire \o SubSeq(wbuf, 1, n)
              /\ wbuf' = SubSeq(wbuf, n + 1, Len(wbuf))
              /\ closed' = IF WriteCloses(n) THEN "done" ELSE closed
              /\ armed' = AfterWrite(n)
    /\ UNCHANGED <<peerVars, inVars, closing, events>>

-----------------------------------------------------------------------------
(* HandleEvents and the reading of what has arrived *)

Goto(label) == pc' = label

(* What epoll reports. *)
Ready ==
    {e \in {"IN", "OUT", "HUP"} :
        \/ e = "IN" /\ (received < arrived \/ hup)
        \/ e = "OUT" /\ armed /\ Room > 0
        \/ e = "HUP" /\ hup}

(* epoll_wait is level triggered; the loop calls HandleEvents. *)
Poll ==
    /\ pc = "poll"
    /\ closed = "open"
    /\ Ready # {}
    /\ events' = Ready
    /\ Goto(IF "IN" \in Ready THEN "recv" ELSE IF "OUT" \in Ready THEN "write" ELSE "hup")
    /\ UNCHANGED <<peerVars, inVars, outVars>>

(* recv returns 0, fails, or finds nothing more and ends HandleRead. *)
RecvEnds ==
    /\ pc = "recv"
    /\ closed = "open"
    /\ \/ /\ received = arrived /\ hup
          /\ closed' = "peer"
          /\ Goto("poll")
       \/ /\ closed' = "error"
          /\ Goto("poll")
       \/ /\ received = arrived /\ ~hup
          /\ Goto(IF "OUT" \in events THEN "write" ELSE "hup")
          /\ UNCHANGED closed
    /\ UNCHANGED <<peerVars, inVars, wbuf, armed, closing, wire, events>>

HangUp ==
    /\ pc = "hup"
    /\ closed = "open"
    /\ closed' = IF "HUP" \in events THEN "peer" ELSE closed
    /\ Goto("poll")
    /\ UNCHANGED <<peerVars, inVars, wbuf, armed, closing, wire, events>>

-----------------------------------------------------------------------------
(* The GKWP/2 channel *)

HeaderFits(r) == r.valid /\ r.body <= MaxPayload

(* Frames decoded once `total` units are in: those complete, up to a bad one. *)
Decodable(total) ==
    Max({d \in decoded .. Len(reqs) :
            /\ EndOf(d) <= total
            /\ \A i \in decoded + 1 .. d : HeaderFits(reqs[i])})

BadHeader(d, total) ==
    d < Len(reqs) /\ EndOf(d) + HeaderSize <= total /\ ~HeaderFits(reqs[d + 1])

(* Mutant: the buffer is not compacted. *)
Compacted_Never(d, total) == IF EndOf(d) = total THEN total ELSE base

(* What Push erases: all of the buffer, or a large consumed part of it. *)
Compacted(d, total) ==
    IF EndOf(d) = total THEN total
    ELSE IF EndOf(d) - base > CompactAbove THEN EndOf(d)
    ELSE base

(* PROTOCOL_ERROR is sent as far as it goes, and the channel closed. *)
Fail(reason) ==
    /\ closed' = reason
    /\ \E n \in 0 .. (IF SendsAtOnce THEN Min({Room, AnswerSize}) ELSE 0) :
          wire' = wire \o SubSeq(Units("error", 0), 1, n)
    /\ Goto("poll")
    /\ UNCHANGED <<inVars, wbuf, armed, closing>>

(***************************************************************************)
(* recv and Push.  A frame that is bad ends the connection, and the frames *)
(* decoded before it in the same call are not executed.                    *)
(***************************************************************************)
RecvGkwp2 ==
    /\ pc = "recv"
    /\ closed = "open"
    /\ proto = "gkwp2"
    /\ \E n \in 1 .. Min({ReadSize, arrived - received}) :
          LET total == received + n
              d == Decodable(total)
          IN  \/ /\ total - base > MaxDecoder
                 /\ Fail("limit")
              \/ /\ total - base <= MaxDecoder
                 /\ BadHeader(d, total)
                 /\ Fail("protocol")
              \/ /\ total - base <= MaxDecoder
                 /\ ~BadHeader(d, total)
                 /\ received' = total
                 /\ decoded' = d
                 /\ base' = Compacted(d, total)
                 /\ Goto("frames")
                 /\ UNCHANGED <<handled, streams, outVars>>
    /\ UNCHANGED <<peerVars, events>>

CanOpenStream(s) == s \in streams \/ Cardinality(streams) < MaxStreams

(* GetOrCreateStream, and CloseStream after the answer. *)
StreamsAfter(r) ==
    IF r.stream = 0 THEN streams
    ELSE IF r.last THEN streams \ {r.stream}
    ELSE streams \cup {r.stream}

(***************************************************************************)
(* One frame.  When the answer TOO_MANY_STREAMS closes the channel, the    *)
(* loop goes on to the next frame all the same.                            *)
(***************************************************************************)
HandleFrame ==
    LET r == reqs[handled + 1]
        refused == r.stream # 0 /\ ~CanOpenStream(r.stream)
    IN  /\ pc = "frames"
        /\ proto = "gkwp2"
        /\ handled < decoded
        /\ handled' = handled + 1
        /\ \/ /\ refused
              /\ Send(Units("tooMany", handled + 1), FALSE)
              /\ UNCHANGED <<streams, pc>>
           \/ /\ ~refused
              /\ Send(Units("ok", handled + 1), FALSE)
              /\ streams' = StreamsAfter(r)
              /\ Goto(IF closed' = "open" THEN "frames" ELSE "poll")
        /\ UNCHANGED <<peerVars, received, base, decoded, events>>

FramesDone ==
    /\ pc = "frames"
    /\ proto = "gkwp2"
    /\ handled = decoded
    /\ Goto(IF closed = "open" THEN "recv" ELSE "poll")
    /\ UNCHANGED <<peerVars, inVars, outVars, events>>

-----------------------------------------------------------------------------
(* The HTTP channel *)

RecvHttp ==
    /\ pc = "recv"
    /\ closed = "open"
    /\ proto = "http"
    /\ \E n \in 1 .. Min({ReadSize, arrived - received}) : received' = received + n
    /\ Goto("frames")
    /\ UNCHANGED <<peerVars, base, decoded, handled, streams, outVars, events>>

(***************************************************************************)
(* Units in read_buffer_; whether the next request's head, and all of it,  *)
(* is in.  The code adds head and Content-Length in 64 bits and the sum    *)
(* wraps around for a Content-Length within a head of 2^64 (std::stoull    *)
(* reads "-1" as one): such a request is taken as whole at once, and less  *)
(* than its head leaves the buffer.  Requests here have bodies far below.  *)
(***************************************************************************)
Have == received - base
HeadIn == handled < Len(reqs) /\ Have >= reqs[handled + 1].head
AllIn == HeadIn /\ Have >= reqs[handled + 1].head + reqs[handled + 1].body

(* ProcessReadBuffer has to wait; a head that is too long is refused. *)
AwaitMore ==
    /\ pc = "frames"
    /\ proto = "http"
    /\ closed = "open"
    /\ \/ /\ ~HeadIn /\ Have > MaxHead
          /\ Send(Units("431", handled + 1), TRUE)
       \/ /\ ~HeadIn /\ Have <= MaxHead
          /\ UNCHANGED outVars
       \/ /\ HeadIn /\ reqs[handled + 1].valid /\ ~AllIn
          /\ UNCHANGED outVars
    /\ Goto(IF closed' = "open" THEN "recv" ELSE "poll")
    /\ UNCHANGED <<peerVars, inVars, events>>

Malformed ==
    /\ pc = "frames"
    /\ proto = "http"
    /\ closed = "open"
    /\ HeadIn /\ ~reqs[handled + 1].valid
    /\ closed' = "malformed"
    /\ Goto("poll")
    /\ UNCHANGED <<peerVars, inVars, wbuf, armed, closing, wire, events>>

(* One request; Send closes the channel once all is written and closing. *)
HandleRequest ==
    /\ pc = "frames"
    /\ proto = "http"
    /\ closed = "open"
    /\ AllIn /\ reqs[handled + 1].valid
    /\ handled' = handled + 1
    /\ decoded' = handled + 1
    /\ base' = EndOf(handled + 1)
    /\ Send(Units("ok", handled + 1), closing \/ ~reqs[handled + 1].keep)
    /\ Goto(IF closed' = "open" THEN "frames" ELSE "poll")
    /\ UNCHANGED <<peerVars, received, streams, events>>

-----------------------------------------------------------------------------
(* The peer *)

SendRequest(r) ==
    /\ closed = "open" /\ ~hup
    /\ r.proto = proto
    /\ Len(reqs) < MaxRequests
    /\ reqs' = Append(reqs, r)
    /\ UNCHANGED <<proto, arrived, hup, read, inVars, outVars, pc, events>>

Arrive ==
    /\ closed = "open"
    /\ arrived < EndOf(Len(reqs))
    /\ arrived' = arrived + 1
    /\ UNCHANGED <<proto, reqs, hup, read, inVars, outVars, pc, events>>

PeerCloses ==
    /\ closed = "open" /\ ~hup
    /\ arrived = EndOf(Len(reqs))
    /\ hup' = TRUE
    /\ UNCHANGED <<proto, reqs, arrived, read, inVars, outVars, pc, events>>

PeerReads ==
    /\ closed = "open"
    /\ read < Len(wire)
    /\ read' = Len(wire)
    /\ UNCHANGED <<proto, reqs, arrived, hup, inVars, outVars, pc, events>>

Worker ==
    \/ Poll \/ RecvEnds \/ HandleWrite \/ HangUp
    \/ RecvGkwp2 \/ HandleFrame \/ FramesDone
    \/ RecvHttp \/ AwaitMore \/ Malformed \/ HandleRequest

Next ==
    \/ Worker
    \/ \E r \in Requests : SendRequest(r)
    \/ Arrive \/ PeerCloses \/ PeerReads

Spec == Init /\ [][Next]_vars

(* The worker's loop runs, and the peer reads what it is sent. *)
FairSpec == Spec /\ WF_vars(Worker) /\ WF_vars(PeerReads)

-----------------------------------------------------------------------------
(***************************************************************************)
(* The counters of the read side never overtake each other, and both       *)
(* buffers stay within their limits.                                       *)
(***************************************************************************)
TypeOK ==
    /\ reqs \in Seq(Requests) /\ Len(reqs) <= MaxRequests
    /\ 0 <= base /\ base <= received
    /\ received <= arrived /\ arrived <= EndOf(Len(reqs))
    /\ 0 <= handled /\ handled <= decoded /\ decoded <= Len(reqs)
    /\ streams \subseteq {r.stream : r \in Requests} \ {0}
    /\ Cardinality(streams) <= MaxStreams
    /\ proto = "gkwp2" => received - base <= MaxDecoder /\ Len(wbuf) <= MaxWrite
    /\ 0 <= Room /\ Room <= SocketSize
    /\ events \subseteq {"IN", "OUT", "HUP"}
    /\ armed \in BOOLEAN /\ closing \in BOOLEAN /\ hup \in BOOLEAN

(***************************************************************************)
(* What each request is answered, defined from the order of the requests   *)
(* alone: which streams are open after the first i of them.                *)
(***************************************************************************)
OpenAfter ==
    LET open[i \in 0 .. Len(reqs)] ==
            IF i = 0 THEN {}
            ELSE LET s == open[i - 1]
                     r == reqs[i]
                 IN  IF r.stream = 0 \/ (r.stream \notin s /\ Cardinality(s) >= MaxStreams) THEN s
                     ELSE IF r.last THEN s \ {r.stream} ELSE s \cup {r.stream}
    IN  open

Kind(i) ==
    LET s == OpenAfter[i - 1]
        r == reqs[i]
    IN  IF r.stream # 0 /\ r.stream \notin s /\ Cardinality(s) >= MaxStreams
        THEN "tooMany" ELSE "ok"

(* Where the answers to requests are on the wire; the rest is the connection's own errors. *)
AnswerAt == {p \in 1 .. Len(wire) : wire[p][1] \in {"ok", "tooMany"}}

(* How many units of answers there are up to position p. *)
AnsweredUpTo(p) == Cardinality({q \in AnswerAt : q <= p})

(***************************************************************************)
(* The answers on the wire are the answers to the requests, each once, in  *)
(* the order of the requests, and the same however the requests were cut   *)
(* into pieces on the way and the answers on the way back: part j of the   *)
(* answer to request i has before it the answers to all earlier requests   *)
(* and its own earlier parts.  This is the README's "Pipelined responses   *)
(* are returned in strict order of receipt".                               *)
(***************************************************************************)
InOrder ==
    \A p \in AnswerAt : \E i \in 1 .. handled, j \in 1 .. AnswerSize :
        /\ wire[p] = <<Kind(i), i, j>>
        /\ AnsweredUpTo(p) = (i - 1) * AnswerSize + j

(***************************************************************************)
(* The loop wakes up for EPOLLOUT as long as something is unsent, or it    *)
(* would never be sent, and no longer, or the loop would spin.             *)
(***************************************************************************)
ArmedIffUnsent == closed = "open" => (armed <=> wbuf # <<>>)

(***************************************************************************)
(* An HTTP connection closed after its last answer has sent every answer:  *)
(* close_after_write_ takes effect only when the buffer is empty.          *)
(***************************************************************************)
ClosesAfterFlush == closed = "done" => Cardinality(AnswerAt) = handled * AnswerSize

(***************************************************************************)
(* The decoder refuses no frame for lack of room that leaves space for the *)
(* consumed bytes it may keep and for one read: the limit of 16 MiB on the *)
(* buffer also counts the header and the bytes consumed but not compacted, *)
(* so a payload close to kMaxPayloadLength, also 16 MiB, can be refused.   *)
(***************************************************************************)
LimitLeavesRoom ==
    closed = "limit" =>
        /\ decoded < Len(reqs)
        /\ HeaderSize + reqs[decoded + 1].body - 1 + CompactAbove + ReadSize > MaxDecoder

(***************************************************************************)
(* A request that has come in whole is answered, unless the connection is  *)
(* closed: no partial read or write leaves the channel asleep.             *)
(***************************************************************************)
Answered ==
    \A i \in 1 .. MaxRequests :
        (i <= Len(reqs) /\ received >= EndOf(i))
            ~> (closed # "open" \/ Cardinality(AnswerAt) >= i * AnswerSize)
=============================================================================
