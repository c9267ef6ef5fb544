------------------------------- MODULE GunMesh ------------------------------
(***************************************************************************)
(* The link of a browser peer to one other peer that it knows by a url:    *)
(* say, flush, send, hi and bye of the mesh and the websocket adapter of   *)
(* assets/stats/gun.js.                                                    *)
(*                                                                         *)
(* A message is sent at once if no batch is open, and opens one; the       *)
(* messages that follow are put into the batch until a timer or its size   *)
(* flushes it.  What cannot be sent is queued until a socket opens.  A     *)
(* socket that closes takes the peer from the list of peers, and after a   *)
(* while another one is opened.  Every message has size 1.                 *)
(*                                                                         *)
(* A peer that comes back is first asked for what the chains are about     *)
(* (GunResync), and then sent what was queued for it; hi is those steps,   *)
(* with nothing else in between.                                           *)
(***************************************************************************)
EXTENDS Integers, Sequences, SequencesExt, FiniteSets

CONSTANTS
    Pack,           \* opt.pack, the size of a batch
    S,              \* queued messages sent in a turn: 9 in the code
    Retries,        \* opt.retry + 1 or 60
    MaxMessages,    \* bound on the messages
    MaxSockets,     \* bound on the sockets opened
    MaxHides        \* bound on the timers that find the page hidden

MeshAssumption ==
    /\ {S, Retries} \subseteq Nat \ {0}
    /\ {Pack, MaxMessages, MaxSockets, MaxHides} \subseteq Nat

None == 0
Undefined == -1
NoHi == -1

VARIABLES
    listed,     \* opt.peers has the peer
    wire,       \* peer.wire
    socket,     \* the state of every socket
    opened,     \* how many were opened
    batch,      \* peer.batch
    open,       \* there is a batch, maybe an empty one
    flushes,    \* timers of flush
    queue,      \* peer.queue: raws, which are sequences of messages
    rests,      \* what hi has left to later turns, one list for each
    defer,      \* timers of reconnect that clearTimeout can reach
    loose,      \* those that it cannot
    retry,      \* peer.retry
    gets,       \* gets[peer.url], if the timer of bye has not deleted it
    hello,      \* what hi has yet to ask in this turn, or NoHi
    hides,      \* how many timers have found doc.hidden
    messages,   \* how many were said
    sent,       \* history: the messages given to an open socket, in order
    gone,       \* history: messages given to a socket that was closing
    missed,     \* history: messages said to all while it was not listed
    cut,        \* history: hi had more than S to send, or asked before it sent
    aside       \* history: a socket was asked for outside of reconnect's turn

out   == <<batch, open, queue, sent, gone>>
timer == <<defer, loose, retry>>
past  == <<missed, cut>>
turn  == <<gets, hello>>
vars  == <<listed, wire, socket, opened, flushes, rests, messages, aside,
           out, timer, turn, hides, past>>

Sockets == 1 .. MaxSockets

Init == /\ listed = TRUE
        /\ wire = None
        /\ socket = [s \in Sockets |-> "none"]
        /\ opened = 0
        /\ batch = <<>>
        /\ open = FALSE
        /\ flushes = 0
        /\ queue = <<>>
        /\ rests = <<>>
        /\ defer = 0
        /\ loose = 0
        /\ retry = Undefined
        /\ gets = FALSE
        /\ hello = NoHi
        /\ hides = 0
        /\ messages = 0
        /\ sent = <<>>
        /\ gone = {}
        /\ missed = {}
        /\ cut = FALSE
        /\ aside = FALSE

Live(s) == socket[s] \in {"connecting", "open"}

Out == [queue |-> queue, sent |-> sent, gone |-> gone]

(* send(raw, peer) over a wire in this state: without a wire and while it  *)
(* is connecting that throws, and while it is closing nothing happens.     *)
Send(o, raw, state) ==
    CASE state = "open"    -> [o EXCEPT !.sent = @ \o raw]
      [] state = "closing" -> [o EXCEPT !.gone = @ \cup ToSet(raw)]
      [] OTHER             -> [o EXCEPT !.queue = Append(@, raw)]

(* flush(peer)  *)
FlushOf(o, b, state) == IF b = <<>> THEN o ELSE Send(o, b, state)

StateOf(w) == IF w = None THEN "none" ELSE socket[w]

(* say(msg, peer) for this peer: a peer without a wire gets one first.     *)
SayTo(m) ==
    LET opens == wire = None
        state == IF opens THEN "connecting" ELSE StateOf(wire)
        fits  == open /\ Len(batch) < Pack
        after == IF fits THEN Out
                 ELSE Send(FlushOf(Out, IF open THEN batch ELSE <<>>, state), <<m>>, state) IN
    /\ opens => opened < MaxSockets
    /\ opened' = IF opens THEN opened + 1 ELSE opened
    /\ wire' = IF opens THEN opened + 1 ELSE wire
    /\ socket' = IF opens THEN [socket EXCEPT ![opened + 1] = "connecting"] ELSE socket
    /\ aside' = (aside \/ (opens /\ defer + loose > 0))
    /\ open' = TRUE
    /\ batch' = IF fits THEN Append(batch, m) ELSE <<>>
    /\ flushes' = IF fits THEN flushes ELSE flushes + 1
    /\ queue' = after.queue
    /\ sent' = after.sent
    /\ gone' = after.gone

Idle == hello = NoHi

(* A message to all peers.  *)
Say == /\ Idle
       /\ messages < MaxMessages
       /\ messages' = messages + 1
       /\ IF listed
          THEN SayTo(messages + 1) /\ UNCHANGED <<listed, rests, timer, turn, hides, past>>
          ELSE /\ missed' = missed \cup {messages + 1}
               /\ UNCHANGED <<listed, wire, socket, opened, flushes, rests,
                              aside, out, timer, turn, hides, cut>>

(* A message to this peer: an answer to what it has sent, or a get that hi *)
(* has left to a later turn.                                               *)
Answer == /\ Idle
          /\ messages < MaxMessages
          /\ opened > 0
          /\ messages' = messages + 1
          /\ SayTo(messages + 1)
          /\ UNCHANGED <<listed, rests, timer, turn, hides, past>>

(* The timer of a batch; the batch it opened may have been flushed since.  *)
Flush == /\ Idle
         /\ flushes > 0
         /\ flushes' = flushes - 1
         /\ LET after == FlushOf(Out, batch, StateOf(wire)) IN
            /\ queue' = after.queue
            /\ sent' = after.sent
            /\ gone' = after.gone
         /\ open' = FALSE
         /\ batch' = <<>>
         /\ UNCHANGED <<listed, wire, socket, opened, rests, messages, aside,
                        timer, turn, hides, past>>

(* hear: after the messages of a batch that has come in, what was said     *)
(* meanwhile is flushed; the timer is left alone.                          *)
HearBatch == /\ Idle
             /\ \E s \in Sockets : socket[s] = "open"
             /\ open
             /\ LET after == FlushOf(Out, batch, StateOf(wire)) IN
                /\ queue' = after.queue
                /\ sent' = after.sent
                /\ gone' = after.gone
             /\ open' = FALSE
             /\ batch' = <<>>
             /\ UNCHANGED <<listed, wire, socket, opened, flushes, rests,
                            messages, aside, timer, turn, hides, past>>

Least(a, b) == IF a < b THEN a ELSE b

(* A batch of each: the first S of a list are sent, the rest are left.     *)
SendFirst(o, list, state) ==
    LET n == Least(S, Len(list))
        done[i \in 0 .. n] == IF i = 0 THEN o ELSE Send(done[i - 1], list[i], state)
    IN done[n]

Rest(list) == SubSeq(list, Least(S, Len(list)) + 1, Len(list))

(* wire.onopen, and hi(peer): the peer is listed, and what is asked of it  *)
(* in this turn, which is nothing unless it had gone (root.on('hi')), goes *)
(* past what was queued.                                                   *)
Opens(s) ==
    /\ Idle
    /\ socket[s] = "connecting"
    /\ socket' = [socket EXCEPT ![s] = "open"]
    /\ listed' = TRUE
    /\ gets' = FALSE
    /\ \E n \in 0 .. MaxMessages - messages :
          /\ n > 0 => gets /\ (wire # None \/ opened < MaxSockets)
          /\ hello' = n
          /\ cut' = (cut \/ (n > 0 /\ queue # <<>>))
    /\ UNCHANGED <<wire, opened, flushes, rests, messages, aside, out, timer,
                   hides, missed>>

(* mesh.say({get: ..}, peer) over the peer's wire, which may be another.   *)
HiAsks == /\ hello > 0
          /\ hello' = hello - 1
          /\ messages' = messages + 1
          /\ SayTo(messages + 1)
          /\ UNCHANGED <<listed, rests, gets, timer, hides, past>>

(* Then what was queued is sent.  *)
HiSends ==
    /\ hello = 0
    /\ hello' = NoHi
    /\ LET after == SendFirst([Out EXCEPT !.queue = <<>>], queue, StateOf(wire)) IN
       /\ queue' = after.queue
       /\ sent' = after.sent
       /\ gone' = after.gone
    /\ rests' = IF Rest(queue) = <<>> THEN rests ELSE Append(rests, Rest(queue))
    /\ cut' = (cut \/ Rest(queue) # <<>>)
    /\ UNCHANGED <<listed, wire, socket, opened, flushes, messages, aside,
                   batch, open, timer, gets, hides, missed>>

(* A later turn of hi's list.  *)
HiGoesOn ==
    /\ Idle
    /\ rests # <<>>
    /\ LET after == SendFirst(Out, Head(rests), StateOf(wire))
           rest  == Rest(Head(rests)) IN
       /\ queue' = after.queue
       /\ sent' = after.sent
       /\ gone' = after.gone
       /\ rests' = IF rest = <<>> THEN Tail(rests) ELSE Append(Tail(rests), rest)
    /\ UNCHANGED <<listed, wire, socket, opened, flushes, messages, aside,
                   batch, open, timer, turn, hides, past>>

(* An open connection begins to close: its peer or the network ends it.    *)
Closes(s) ==
    /\ Idle
    /\ socket[s] = "open"
    /\ socket' = [socket EXCEPT ![s] = "closing"]
    /\ UNCHANGED <<listed, wire, opened, flushes, rests, messages, aside, out,
                   timer, turn, hides, past>>

(* bye(peer) when s has closed: whatever wire the peer has is closed, and  *)
(* the peer is not listed any more.                                        *)
Bye(s) ==
    /\ socket' = [t \in Sockets |-> IF t = s THEN "closed"
                                    ELSE IF t = wire /\ Live(t) THEN "closing"
                                    ELSE socket[t]]
    /\ wire' = None
    /\ listed' = FALSE
    /\ gets' = TRUE

(* Mutants: the timer is set without clearing the one before; only a quick *)
(* failure sets it.                                                        *)
ReconnectAgain(error, quick) ==
    LET left  == IF retry = Undefined THEN Retries ELSE retry
        first == left - (IF quick THEN 1 ELSE 0)
        again == IF error THEN first - 1 ELSE first IN
    /\ quick => retry # Undefined
    /\ IF left <= 0 THEN defer' = 0 /\ retry' = retry
       ELSE IF error /\ first <= 0 THEN defer' = 0 /\ retry' = first
       ELSE defer' = defer + (IF error THEN 2 ELSE 1) /\ retry' = again
    /\ UNCHANGED loose

ReconnectQuick(error, quick) ==
    LET left  == IF retry = Undefined THEN Retries ELSE retry
        first == left - (IF quick THEN 1 ELSE 0)
        again == IF error THEN first - 1 ELSE first IN
    /\ quick => retry # Undefined
    /\ IF left <= 0 THEN defer' = 0 /\ retry' = retry
       ELSE IF error /\ first <= 0 THEN defer' = 0 /\ retry' = first
       ELSE defer' = (IF quick THEN 1 ELSE 0) /\ retry' = again
    /\ UNCHANGED loose

(* reconnect(peer): once, or twice at a time after an error.  A retry is   *)
(* used up if the last call was not long ago, which is never so at first   *)
(* and always for the second call.                                         *)
Reconnect(error, quick) ==
    LET left  == IF retry = Undefined THEN Retries ELSE retry
        first == left - (IF quick THEN 1 ELSE 0)
        again == IF error THEN first - 1 ELSE first IN
    /\ quick => retry # Undefined
    /\ IF left <= 0 THEN defer' = 0 /\ retry' = retry
       ELSE IF error /\ first <= 0 THEN defer' = 0 /\ retry' = first
       ELSE defer' = 1 /\ retry' = again
    /\ UNCHANGED loose

(* wire.onclose, after wire.onerror if there was an error, as there always *)
(* is when the socket did not open.                                        *)
Closed(s, error, quick) ==
    /\ Idle
    /\ socket[s] = "closing" \/ (socket[s] = "connecting" /\ error)
    /\ Bye(s)
    /\ Reconnect(error, quick)
    /\ UNCHANGED <<opened, flushes, rests, messages, aside, out, hello, hides,
                   past>>

(* open(peer): the peer's wire is replaced, not closed.  *)
OpenSocket == /\ opened < MaxSockets
              /\ opened' = opened + 1
              /\ wire' = opened + 1
              /\ socket' = [socket EXCEPT ![opened + 1] = "connecting"]

(* The timer of reconnect.  *)
Defer == /\ Idle
         /\ defer > 0
         /\ defer' = defer - 1
         /\ OpenSocket
         /\ UNCHANGED <<listed, flushes, rests, messages, aside, out, loose,
                        retry, turn, hides, past>>

(* While the page is hidden it is set again, as one that nothing clears.   *)
DeferHidden == /\ Idle
               /\ defer > 0
               /\ hides < MaxHides
               /\ hides' = hides + 1
               /\ defer' = defer - 1
               /\ loose' = loose + 1
               /\ UNCHANGED <<listed, wire, socket, opened, flushes, rests,
                              messages, aside, out, retry, turn, past>>

(* A timer set again, at some time when the page is shown; before that it  *)
(* is only set again.                                                      *)
DeferLoose == /\ Idle
              /\ loose > 0
              /\ loose' = loose - 1
              /\ OpenSocket
              /\ aside' = (aside \/ defer > 0 \/ loose > 1 \/ wire # None)
              /\ UNCHANGED <<listed, flushes, rests, messages, out, defer,
                             retry, turn, hides, past>>

Next == \/ Say
        \/ Answer
        \/ Flush
        \/ HearBatch
        \/ HiAsks
        \/ HiSends
        \/ HiGoesOn
        \/ \E s \in Sockets : Opens(s) \/ Closes(s)
        \/ \E s \in Sockets, error, quick \in BOOLEAN : Closed(s, error, quick)
        \/ Defer
        \/ DeferHidden
        \/ DeferLoose

SocketEnds == \E s \in Sockets :
                 \/ Opens(s)
                 \/ \E error, quick \in BOOLEAN : Closed(s, error, quick)

(* Timers fire and turns are taken, a socket that connects ends in one way *)
(* or the other, one that closes is closed, and a hidden page is shown.    *)
Fairness ==
    /\ WF_vars(HiAsks \/ HiSends)
    /\ WF_vars(Flush \/ HiGoesOn)
    /\ WF_vars(Defer \/ DeferLoose)
    /\ WF_vars(SocketEnds)

Spec == Init /\ [][Next]_vars /\ Fairness

-----------------------------------------------------------------------------
InRaws(list) == UNION {ToSet(list[i]) : i \in DOMAIN list}

Waiting == ToSet(batch) \cup InRaws(queue)
           \cup UNION {InRaws(rests[i]) : i \in DOMAIN rests}

(* A message said to the peer is sent or waits to be sent, through any     *)
(* number of sockets that fail, open and close; only a socket that is      *)
(* closing already swallows it, and one that is said to all while the peer *)
(* is not listed is not kept for it (say, send, hi, gun.js:1489-1503,      *)
(* 1562-1593).                                                             *)
NothingVanishes ==
    1 .. messages = ToSet(sent) \cup Waiting \cup gone \cup missed

(* Messages are sent once, in the order they were said, also those that    *)
(* had to be queued.  There are two exceptions: if more than S raws were   *)
(* queued, hi gives up its turn in between, and others overtake; and what  *)
(* it asks of a peer that has come back overtakes the whole queue, which   *)
(* it was said after (hi, gun.js:1586-1591, 1629-1636).                    *)
SentInOrder ==
    /\ \A i, j \in DOMAIN sent : i # j => sent[i] # sent[j]
    /\ ~cut => \A i, j \in DOMAIN sent : i < j => sent[i] < sent[j]

(* The peer has one socket, unless a message was answered, or the page was *)
(* hidden, while reconnect was waiting for its turn: nobody closes the     *)
(* socket that is replaced, and when it ends it takes the peer off the     *)
(* list and closes the newer one (open, gun.js:1669-1688, 1693-1701).      *)
OneSocket == ~aside => Cardinality({s \in Sockets : Live(s)}) <= 1

(* A peer that was lost is listed again, or no retries are left.           *)
ComesBack == ~listed ~> listed \/ retry = 0 \/ opened = MaxSockets
=============================================================================
