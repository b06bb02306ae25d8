---------------------------- MODULE PulseClient -----------------------------
(***************************************************************************)
(* The Client of the pulseaudio package: goroutines that call request, the *)
(* packet loop that tags their packets and hands the answers back, and the *)
(* goroutine that reads the connection.  The server answers in any order,  *)
(* sends events of its own, and may go away at any time; the owner of the  *)
(* client closes it.                                                       *)
(*                                                                         *)
(* A packet is reduced to its tag and the identity of the request it is    *)
(* about.  c.packets, recv and the response channels are unbuffered, so a  *)
(* send and its receive are one action.  Every packet request builds has   *)
(* room for its tag, so the loop's refusal of short ones is left out.      *)
(***************************************************************************)
EXTENDS Integers

CONSTANTS
    Callers,        \* the goroutines that call request
    Nobody,         \* no caller
    Tags,           \* how many tags there are, 2^32 - 1 in the code
    MaxRequests     \* bound: requests made

ASSUME TagsAssumption == Tags \in Nat \ {0}
ASSUME NobodyAssumption == Nobody \notin Callers
ASSUME MaxRequestsAssumption == MaxRequests \in Nat

VARIABLES
    call,           \* where each caller is in request
    req,            \* the identity of its latest request
    answer,         \* which request its latest answer is to; 0 for an error
    made,           \* requests made so far, by all callers
    pending,        \* per tag, the caller that waits for it
    tag,            \* the tag the loop tries next
    loop,           \* the goroutine of processPackets
    reader,         \* the goroutine that reads the connection
    held,           \* the message it has read last
    updates,        \* whether c.updates holds a token
    closed,         \* whether c.packets is closed
    conn,           \* the connection
    flight          \* the messages written and not yet taken by the loop

callVars == <<call, req, answer, made>>
loopVars == <<pending, tag, loop, updates>>
readVars == <<reader, held>>
connVars == <<closed, conn, flight>>
vars == <<callVars, loopVars, readVars, connVars>>

(* The largest uint32, which the server sends events under. *)
Reserved == Tags

UInt32 == 0 .. Reserved

(* "Error" stands for any answer that is not a Reply. *)
Answers == {"Reply", "Error"}

Message ==
    [cmd : {"Request"} \cup Answers, tag : 0 .. Tags - 1, of : 1 .. MaxRequests]

(* What the server sends unasked: a change it tells about, or a frame larger
   than frameSizeMaxAllow. *)
Unasked == [cmd : {"SubscribeEvent", "Oversize"}, tag : {Reserved}, of : {0}]

NoMessage == [cmd |-> "none", tag |-> Reserved, of |-> 0]

TypeOK ==
    /\ call \in [Callers -> {"idle", "sending", "waiting"}]
    /\ req \in [Callers -> 0 .. MaxRequests]
    /\ answer \in [Callers -> 0 .. MaxRequests]
    /\ made \in 0 .. MaxRequests
    /\ pending \in [UInt32 -> Callers \cup {Nobody}]
    /\ tag \in 0 .. Tags - 1
    /\ loop \in {"select", "failing", "ended", "panicked"}
    /\ reader \in {"read", "offer", "ended"}
    /\ held \in flight \cup {NoMessage}
    /\ updates \in BOOLEAN /\ closed \in BOOLEAN
    /\ conn \in {"up", "dropped", "closed"}
    /\ flight \subseteq Message \cup Unasked

Init ==
    /\ call = [c \in Callers |-> "idle"]
    /\ req = [c \in Callers |-> 0] /\ answer = [c \in Callers |-> 0]
    /\ made = 0
    /\ pending = [t \in UInt32 |-> Nobody] /\ tag = 0
    /\ loop = "select" /\ reader = "read" /\ held = NoMessage
    /\ updates = FALSE /\ closed = FALSE /\ conn = "up" /\ flight = {}

-----------------------------------------------------------------------------
(* request builds a packet and blocks in addPacket. *)
Request(c) ==
    /\ call[c] = "idle" /\ made < MaxRequests
    /\ made' = made + 1
    /\ req' = [req EXCEPT ![c] = made']
    /\ call' = [call EXCEPT ![c] = "sending"]
    /\ UNCHANGED <<answer, loopVars, readVars, connVars>>

(* request returns to its caller. *)
Return(c, a) ==
    /\ call' = [call EXCEPT ![c] = "idle"]
    /\ answer' = [answer EXCEPT ![c] = a]
    /\ UNCHANGED <<req, made>>

(* The send panics on the closed channel, and addPacket recovers. *)
SendOnClosed(c) ==
    /\ call[c] = "sending" /\ closed
    /\ Return(c, 0)
    /\ UNCHANGED <<loopVars, readVars, connVars>>

-----------------------------------------------------------------------------
(* The packet loop.                                                        *)

(* Mutant: the next tag is taken whether or not it is in use. *)
IsNextTagUnchecked(t) == t = tag

(* Mutant: the counter runs into the reserved tag. *)
IsNextTagReserved(t) ==
    \E k \in UInt32 :
        /\ t = (tag + k) % (Reserved + 1)
        /\ pending[t] = Nobody
        /\ \A j \in 0 .. k - 1 : pending[(tag + j) % (Reserved + 1)] # Nobody

(* The first tag from the counter on, around the end, nobody waits for.  The
   search does not end while all of them are in use. *)
IsNextTag(t) ==
    \E k \in 0 .. Tags - 1 :
        /\ t = (tag + k) % Tags
        /\ pending[t] = Nobody
        /\ \A j \in 0 .. k - 1 : pending[(tag + j) % Tags] # Nobody

(* The loop receives a packet, tags and writes it.  A failed write is
   answered at once. *)
Accept(c, t) ==
    /\ loop = "select" /\ ~closed
    /\ call[c] = "sending"
    /\ IsNextTag(t)
    /\ tag' = t
    /\ IF conn = "up"
       THEN /\ flight' = flight \cup {[cmd |-> "Request", tag |-> t, of |-> req[c]]}
            /\ pending' = [pending EXCEPT ![t] = c]
            /\ call' = [call EXCEPT ![c] = "waiting"]
            /\ UNCHANGED <<req, answer, made>>
       ELSE Return(c, 0) /\ UNCHANGED <<flight, pending>>
    /\ UNCHANGED <<loop, updates, readVars, closed, conn>>

(* The loop and the reader exchange the message that is held. *)
Exchange ==
    /\ loop = "select" /\ reader = "offer"
    /\ reader' = "read" /\ held' = NoMessage
    /\ flight' = flight \ {held}
    /\ UNCHANGED <<closed, conn, tag>>

(* Mutant: an event is looked up like an answer. *)
TakeEventAsAnswer ==
    /\ Exchange
    /\ held.cmd = "SubscribeEvent"
    /\ loop' = "panicked"
    /\ UNCHANGED <<callVars, pending, updates>>

(* A subscription event: one token is kept for the module. *)
TakeEvent ==
    /\ Exchange
    /\ held.cmd = "SubscribeEvent"
    /\ updates' = TRUE
    /\ UNCHANGED <<callVars, pending, loop>>

(* An answer goes to the caller of its tag; one nobody waits for panics. *)
TakeAnswer ==
    /\ Exchange
    /\ held.cmd \in Answers
    /\ IF pending[held.tag] = Nobody
       THEN loop' = "panicked" /\ UNCHANGED <<callVars, pending>>
       ELSE /\ Return(pending[held.tag], IF held.cmd = "Reply" THEN held.of ELSE 0)
            /\ pending' = [pending EXCEPT ![held.tag] = Nobody]
            /\ UNCHANGED loop
    /\ UNCHANGED updates

(* Mutant: the requests in progress are forgotten. *)
LoopBreaksAtOnce ==
    /\ loop = "select"
    /\ closed \/ reader = "ended"
    /\ loop' = "ended"
    /\ UNCHANGED <<callVars, pending, tag, updates, readVars, connVars>>

(* c.packets or recv is closed: the loop breaks, and Connected is false. *)
LoopBreaks ==
    /\ loop = "select"
    /\ closed \/ reader = "ended"
    /\ loop' = "failing"
    /\ UNCHANGED <<callVars, pending, tag, updates, readVars, connVars>>

(* The requests still in the table fail one by one. *)
FailPending(t) ==
    /\ loop = "failing" /\ pending[t] # Nobody
    /\ Return(pending[t], 0)
    /\ pending' = [pending EXCEPT ![t] = Nobody]
    /\ UNCHANGED <<tag, loop, updates, readVars, connVars>>

LoopEnds ==
    /\ loop = "failing"
    /\ \A t \in UInt32 : pending[t] = Nobody
    /\ loop' = "ended"
    /\ UNCHANGED <<callVars, pending, tag, updates, readVars, connVars>>

-----------------------------------------------------------------------------
(* The reader reads a whole message and offers it to the loop.  After the
   server has gone what it has written can still be read. *)
ReadMessage(m) ==
    /\ reader = "read" /\ conn # "closed"
    /\ m \in flight /\ m.cmd \in Answers \cup {"SubscribeEvent"}
    /\ held' = m /\ reader' = "offer"
    /\ UNCHANGED <<callVars, loopVars, connVars>>

(* The end of the connection, or a frame that is too large, ends it. *)
ReadFails ==
    /\ reader = "read"
    /\ \/ conn = "closed"
       \/ conn = "dropped" /\ \A m \in flight : m.cmd = "Request"
       \/ \E m \in flight : m.cmd = "Oversize"
    /\ reader' = "ended"
    /\ UNCHANGED <<callVars, loopVars, held, connVars>>

(* Close closes c.packets and then the connection. *)
ClosePackets ==
    /\ ~closed
    /\ closed' = TRUE
    /\ UNCHANGED <<callVars, loopVars, readVars, conn, flight>>

CloseConn ==
    /\ closed /\ conn # "closed"
    /\ conn' = "closed"
    /\ UNCHANGED <<callVars, loopVars, readVars, closed, flight>>

(* The module takes the token of c.updates. *)
TakeUpdate ==
    /\ updates
    /\ updates' = FALSE
    /\ UNCHANGED <<callVars, pending, tag, loop, readVars, connVars>>

-----------------------------------------------------------------------------
(* The server answers a request, sends something unasked, or goes away. *)
ServerAnswers(m, cmd) ==
    /\ conn = "up"
    /\ m \in flight /\ m.cmd = "Request" /\ cmd \in Answers
    /\ flight' = (flight \ {m}) \cup {[m EXCEPT !.cmd = cmd]}
    /\ UNCHANGED <<callVars, loopVars, readVars, closed, conn>>

ServerSends(m) ==
    /\ conn = "up"
    /\ m \in Unasked \ flight
    /\ flight' = flight \cup {m}
    /\ UNCHANGED <<callVars, loopVars, readVars, closed, conn>>

ServerDrops ==
    /\ conn = "up"
    /\ conn' = "dropped"
    /\ UNCHANGED <<callVars, loopVars, readVars, closed, flight>>

Loop ==
    \/ \E c \in Callers, t \in UInt32 : Accept(c, t)
    \/ TakeEvent \/ TakeAnswer
    \/ LoopBreaks \/ LoopEnds
    \/ \E t \in UInt32 : FailPending(t)

Reader == ReadFails \/ \E m \in flight : ReadMessage(m)

Next ==
    \/ \E c \in Callers : Request(c) \/ SendOnClosed(c)
    \/ Loop \/ Reader
    \/ ClosePackets \/ CloseConn \/ TakeUpdate
    \/ \E m \in flight, cmd \in Answers : ServerAnswers(m, cmd)
    \/ \E m \in Unasked : ServerSends(m)
    \/ ServerDrops

Safe == Init /\ [][Next]_vars

(* Every goroutine that can run is scheduled, a select does not pass over a
   closed channel for ever, and Close goes on to close the connection.  The
   server owes nothing, and nobody is required to call Close. *)
Spec ==
    /\ Safe
    /\ WF_vars(Loop) /\ WF_vars(LoopBreaks) /\ WF_vars(Reader)
    /\ WF_vars(CloseConn)
    /\ \A c \in Callers : WF_vars(SendOnClosed(c))

-----------------------------------------------------------------------------
(* Nobody gets the answer to another request, nor to an earlier one of its
   own, although a tag is used again as soon as it is free. *)
AnswersMatch ==
    \A c \in Callers : call[c] = "idle" => answer[c] \in {0, req[c]}

(* The loop never panics on the tag of a message. *)
NoUnknownTag == loop # "panicked"

(* When the connection is lost, the requests the loop has accepted fail, and
   when the client is closed, so do the ones it has not. *)
CallsAreReleased ==
    \A c \in Callers :
        \/ call[c] = "waiting" /\ conn # "up"
        \/ call[c] = "sending" /\ closed
        ~> call[c] = "idle"

(* A request that is made on a lost connection returns. *)
RequestReturns ==
    \A c \in Callers : (call[c] = "sending" /\ conn # "up") ~> call[c] = "idle"
=============================================================================
