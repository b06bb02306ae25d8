------------------------- MODULE PulseClientProofs --------------------------
(***************************************************************************)
(* What PulseClient guarantees for any callers, any number of tags and any *)
(* number of requests.                                                     *)
(***************************************************************************)
EXTENDS PulseClient, TLAPS

USE TagsAssumption, NobodyAssumption, MaxRequestsAssumption

(* The requests and answers in flight. *)
Dialog == {m \in flight : m.cmd \in {"Request"} \cup Answers}

(* A call in progress has an identity. *)
Identified ==
    \A c \in Callers : call[c] # "idle" => req[c] \in 1 .. MaxRequests

(* Whoever is in the table waits, and is in it once. *)
TableInv ==
    \A t \in UInt32 :
        pending[t] # Nobody =>
            /\ call[pending[t]] = "waiting"
            /\ \A u \in UInt32 : pending[u] = pending[t] => u = t

(* What is in flight under a tag is about the request the table has for it. *)
DialogInv ==
    /\ loop = "select" =>
           \A m \in Dialog : pending[m.tag] # Nobody /\ req[pending[m.tag]] = m.of
    /\ \A m, k \in Dialog : m.tag = k.tag => m = k

(* The reader holds what it has read until the loop takes it. *)
HeldInv ==
    IF reader = "offer" THEN held \in flight /\ held.cmd # "Request" ELSE held = NoMessage

IInv ==
    /\ TypeOK /\ Identified /\ TableInv /\ DialogInv /\ HeldInv
    /\ AnswersMatch /\ NoUnknownTag

LEMMA DialogType == ASSUME TypeOK, NEW m \in Dialog PROVE m \in Message
  BY DEF TypeOK, Dialog, Message, Unasked, Answers

LEMMA TagsFit == UInt32 = 0 .. Tags /\ \A t \in 0 .. Tags - 1 : t \in UInt32
  BY DEF UInt32, Reserved

LEMMA InitInv == Init => IInv
<1> SUFFICES ASSUME Init PROVE IInv
  OBVIOUS
<1>1. TypeOK
  <2>1. call \in [Callers -> {"idle", "sending", "waiting"}]
    BY DEF Init
  <2>2. /\ req \in [Callers -> 0 .. MaxRequests]
        /\ answer \in [Callers -> 0 .. MaxRequests]
        /\ made \in 0 .. MaxRequests
    BY DEF Init
  <2>3. pending \in [UInt32 -> Callers \cup {Nobody}] /\ tag \in 0 .. Tags - 1
    BY DEF Init
  <2>4. QED
    BY <2>1, <2>2, <2>3 DEF Init, TypeOK
<1>2. Identified /\ TableInv /\ AnswersMatch /\ NoUnknownTag
  BY DEF Init, Identified, TableInv, AnswersMatch, NoUnknownTag
<1>3. DialogInv /\ HeldInv
  BY DEF Init, DialogInv, HeldInv, Dialog
<1>4. QED
  BY <1>1, <1>2, <1>3 DEF IInv

(* The table after one entry is cleared and its caller has returned. *)
LEMMA ClearKeepsTable ==
    ASSUME TypeOK, TableInv, Identified, AnswersMatch,
           NEW t \in UInt32, pending[t] # Nobody,
           NEW a \in {0, req[pending[t]]},
           Return(pending[t], a), pending' = [pending EXCEPT ![t] = Nobody]
    PROVE  /\ TableInv' /\ Identified' /\ AnswersMatch'
           /\ call' \in [Callers -> {"idle", "sending", "waiting"}]
           /\ answer' \in [Callers -> 0 .. MaxRequests]
           /\ pending' \in [UInt32 -> Callers \cup {Nobody}]
<1>1. pending[t] \in Callers
  BY DEF TypeOK
<1>2. a \in 0 .. MaxRequests
  BY <1>1 DEF TypeOK
<1>3. /\ call' \in [Callers -> {"idle", "sending", "waiting"}]
      /\ answer' \in [Callers -> 0 .. MaxRequests]
      /\ pending' \in [UInt32 -> Callers \cup {Nobody}]
  BY <1>1, <1>2 DEF TypeOK, Return
<1>4. TableInv'
  BY <1>1 DEF TypeOK, TableInv, Return
<1>5. Identified' /\ AnswersMatch'
  BY <1>1 DEF TypeOK, Identified, AnswersMatch, Return
<1>6. QED
  BY <1>3, <1>4, <1>5

(* A caller that was not in the table and returns an error. *)
LEMMA ErrorKeepsTable ==
    ASSUME TypeOK, TableInv, Identified, AnswersMatch,
           NEW c \in Callers, call[c] = "sending", Return(c, 0), UNCHANGED pending
    PROVE  /\ TableInv' /\ Identified' /\ AnswersMatch'
           /\ call' \in [Callers -> {"idle", "sending", "waiting"}]
           /\ answer' \in [Callers -> 0 .. MaxRequests]
<1>1. /\ call' \in [Callers -> {"idle", "sending", "waiting"}]
      /\ answer' \in [Callers -> 0 .. MaxRequests]
  BY DEF TypeOK, Return
<1>2. TableInv'
  BY DEF TypeOK, TableInv, Return
<1>3. Identified' /\ AnswersMatch'
  BY DEF TypeOK, Identified, AnswersMatch, Return
<1>4. QED
  BY <1>1, <1>2, <1>3

LEMMA RequestInv == ASSUME IInv, NEW c \in Callers, Request(c) PROVE IInv'
<1> USE DEF IInv
<1>1. made' \in 1 .. MaxRequests
  BY DEF Request, TypeOK
<1>2. TypeOK'
  BY <1>1 DEF Request, TypeOK, loopVars, readVars, connVars
<1>3. Identified' /\ AnswersMatch' /\ NoUnknownTag'
  BY <1>1 DEF Request, TypeOK, Identified, AnswersMatch, NoUnknownTag, loopVars
<1>4. TableInv'
  BY DEF Request, TypeOK, TableInv, loopVars
<1>5. \A t \in UInt32 : pending[t] # Nobody => pending[t] # c
  BY DEF Request, TableInv
<1>6. \A m \in Dialog : m.tag \in UInt32
  BY DialogType, TagsFit DEF Message
<1>7. DialogInv'
  BY <1>5, <1>6 DEF Request, TypeOK, DialogInv, Dialog, loopVars, connVars
<1>8. HeldInv'
  BY DEF Request, HeldInv, readVars, connVars
<1>9. QED
  BY <1>2, <1>3, <1>4, <1>7, <1>8

LEMMA SendOnClosedInv == ASSUME IInv, NEW c \in Callers, SendOnClosed(c) PROVE IInv'
<1> USE DEF IInv, SendOnClosed, loopVars, readVars, connVars
<1>1. TableInv' /\ Identified' /\ AnswersMatch'
  BY ErrorKeepsTable
<1>2. TypeOK'
  BY ErrorKeepsTable DEF TypeOK, Return
<1>3. DialogInv' /\ HeldInv' /\ NoUnknownTag'
  BY DEF DialogInv, Dialog, HeldInv, NoUnknownTag, Return
<1>4. QED
  BY <1>1, <1>2, <1>3

LEMMA AcceptInv ==
    ASSUME IInv, NEW c \in Callers, NEW t \in UInt32, Accept(c, t)
    PROVE  IInv'
<1> DEFINE new == [cmd |-> "Request", tag |-> t, of |-> req[c]]
<1> USE DEF IInv
<1>1. t \in 0 .. Tags - 1 /\ pending[t] = Nobody
  BY DEF Accept, IsNextTag, TypeOK
<1>2. loop = "select" /\ UNCHANGED <<loop, updates, reader, held, closed, conn>> /\ tag' = t
  BY DEF Accept, readVars
<1>3. NoUnknownTag'
  BY <1>2 DEF NoUnknownTag
<1>4. CASE conn = "up"
  <2>1. /\ flight' = flight \cup {new}
        /\ pending' = [pending EXCEPT ![t] = c]
        /\ call' = [call EXCEPT ![c] = "waiting"]
        /\ UNCHANGED <<req, answer, made>>
    BY <1>4 DEF Accept
  <2>2. call[c] = "sending" /\ req[c] \in 1 .. MaxRequests
    BY DEF Accept, Identified
  <2>3. new \in Message
    BY <1>1, <2>2 DEF Message
  <2>4. TypeOK'
    <3>1. flight' \subseteq Message \cup Unasked
      BY <2>1, <2>3 DEF TypeOK
    <3>2. held' \in flight' \cup {NoMessage}
      BY <1>2, <2>1 DEF TypeOK
    <3>3. QED
      BY <1>1, <1>2, <2>1, <3>1, <3>2 DEF TypeOK
  <2>5. Identified' /\ AnswersMatch'
    BY <2>1, <2>2 DEF TypeOK, Identified, AnswersMatch
  <2>6. TableInv'
    BY <1>1, <2>1, <2>2 DEF TypeOK, TableInv
  <2>7. Dialog' = Dialog \cup {new}
    BY <2>1 DEF Dialog
  <2>8. \A m \in Dialog : m.tag \in UInt32 /\ m.tag # t
    BY <1>1, <1>2, DialogType, TagsFit DEF DialogInv, Message
  <2>9. \A m \in Dialog' : pending'[m.tag] # Nobody /\ req'[pending'[m.tag]] = m.of
    BY <1>1, <1>2, <2>1, <2>7, <2>8 DEF DialogInv, TypeOK
  <2>10. \A m, k \in Dialog' : m.tag = k.tag => m = k
    BY <2>7, <2>8 DEF DialogInv
  <2>11. HeldInv'
    BY <1>2, <2>1 DEF HeldInv
  <2>12. QED
    BY <1>3, <2>4, <2>5, <2>6, <2>9, <2>10, <2>11 DEF DialogInv
<1>5. CASE conn # "up"
  <2>1. Return(c, 0) /\ UNCHANGED <<flight, pending>> /\ call[c] = "sending"
    BY <1>5 DEF Accept
  <2>2. TableInv' /\ Identified' /\ AnswersMatch'
    BY <2>1, ErrorKeepsTable
  <2>3. TypeOK'
    BY <1>1, <1>2, <2>1, ErrorKeepsTable DEF TypeOK, Return
  <2>4. DialogInv' /\ HeldInv'
    BY <1>2, <2>1 DEF DialogInv, Dialog, HeldInv, Return
  <2>5. QED
    BY <1>3, <2>2, <2>3, <2>4
<1>6. QED
  BY <1>4, <1>5

(* The dialog without the message the loop has taken. *)
LEMMA ExchangeFacts ==
    ASSUME IInv, Exchange
    PROVE  /\ held \in flight
           /\ Dialog' = Dialog \ {held}
           /\ HeldInv'
           /\ flight' \subseteq Message \cup Unasked
           /\ held' \in flight' \cup {NoMessage}
           /\ reader' = "read"
  BY DEF IInv, Exchange, TypeOK, HeldInv, Dialog

LEMMA TakeEventInv == ASSUME IInv, TakeEvent PROVE IInv'
<1> USE DEF IInv
<1>1. UNCHANGED <<callVars, pending, loop, tag, closed, conn>> /\ updates' = TRUE /\ Exchange
  BY DEF TakeEvent, Exchange
<1>2. TypeOK'
  BY <1>1, ExchangeFacts DEF TypeOK, callVars
<1>3. Identified' /\ TableInv' /\ AnswersMatch' /\ NoUnknownTag'
  BY <1>1 DEF Identified, TableInv, AnswersMatch, NoUnknownTag, callVars
<1>4. DialogInv'
  BY <1>1, ExchangeFacts DEF DialogInv, callVars
<1>5. QED
  BY <1>1, <1>2, <1>3, <1>4, ExchangeFacts

LEMMA TakeAnswerInv == ASSUME IInv, TakeAnswer PROVE IInv'
<1> USE DEF IInv
<1>1. Exchange /\ held.cmd \in Answers /\ UNCHANGED <<updates, tag, closed, conn>>
  BY DEF TakeAnswer, Exchange
<1>2. held \in Dialog /\ held \in Message
  BY <1>1, ExchangeFacts, DialogType DEF Dialog
<1>3. held.tag \in UInt32 /\ pending[held.tag] # Nobody /\ req[pending[held.tag]] = held.of
  BY <1>1, <1>2, TagsFit DEF DialogInv, Message, Exchange
<1> DEFINE t == held.tag
           a == IF held.cmd = "Reply" THEN held.of ELSE 0
<1>4. /\ Return(pending[t], a)
      /\ pending' = [pending EXCEPT ![t] = Nobody]
      /\ UNCHANGED loop
  BY <1>3 DEF TakeAnswer
<1>5. a \in {0, req[pending[t]]}
  BY <1>3
<1>6. /\ TableInv' /\ Identified' /\ AnswersMatch'
      /\ call' \in [Callers -> {"idle", "sending", "waiting"}]
      /\ answer' \in [Callers -> 0 .. MaxRequests]
      /\ pending' \in [UInt32 -> Callers \cup {Nobody}]
  <2> HIDE DEF a
  <2>1. QED
    BY <1>3, <1>4, <1>5, ClearKeepsTable
<1>7. UNCHANGED <<req, made>>
  BY <1>4 DEF Return
<1>8. TypeOK'
  BY <1>1, <1>4, <1>6, <1>7, ExchangeFacts DEF TypeOK
<1>9. \A m \in Dialog' : m \in Dialog /\ m.tag # t /\ m.tag \in UInt32
  BY <1>1, <1>2, ExchangeFacts, DialogType, TagsFit DEF DialogInv, Message
<1>10. DialogInv'
  BY <1>1, <1>3, <1>4, <1>7, <1>9 DEF DialogInv, TypeOK
<1>11. HeldInv' /\ NoUnknownTag'
  BY <1>1, <1>4, ExchangeFacts DEF NoUnknownTag
<1>12. QED
  BY <1>6, <1>8, <1>10, <1>11

LEMMA FailPendingInv ==
    ASSUME IInv, NEW t \in UInt32, FailPending(t)
    PROVE  IInv'
<1> USE DEF IInv
<1>1. /\ pending[t] # Nobody /\ loop = "failing"
      /\ Return(pending[t], 0)
      /\ pending' = [pending EXCEPT ![t] = Nobody]
      /\ UNCHANGED <<tag, loop, updates, readVars, connVars>>
  BY DEF FailPending
<1>2. /\ TableInv' /\ Identified' /\ AnswersMatch'
      /\ call' \in [Callers -> {"idle", "sending", "waiting"}]
      /\ answer' \in [Callers -> 0 .. MaxRequests]
      /\ pending' \in [UInt32 -> Callers \cup {Nobody}]
  BY <1>1, ClearKeepsTable
<1>3. TypeOK'
  BY <1>1, <1>2 DEF TypeOK, Return, readVars, connVars
<1>4. DialogInv' /\ HeldInv' /\ NoUnknownTag'
  BY <1>1 DEF DialogInv, Dialog, HeldInv, NoUnknownTag, readVars, connVars
<1>5. QED
  BY <1>2, <1>3, <1>4

LEMMA ReadMessageInv ==
    ASSUME IInv, NEW m \in flight, ReadMessage(m)
    PROVE  IInv'
<1> USE DEF IInv, callVars, loopVars, connVars
<1>1. m \in flight /\ m.cmd # "Request"
  BY DEF ReadMessage, Answers
<1>2. TypeOK'
  BY DEF ReadMessage, TypeOK
<1>3. HeldInv'
  BY <1>1 DEF ReadMessage, HeldInv
<1>4. Identified' /\ TableInv' /\ AnswersMatch' /\ NoUnknownTag' /\ DialogInv'
  BY DEF ReadMessage, Identified, TableInv, AnswersMatch, NoUnknownTag, DialogInv, Dialog
<1>5. QED
  BY <1>2, <1>3, <1>4

LEMMA ServerAnswersInv ==
    ASSUME IInv, NEW m \in flight, NEW cmd \in Answers, ServerAnswers(m, cmd)
    PROVE  IInv'
<1> DEFINE n == [m EXCEPT !.cmd = cmd]
<1> USE DEF IInv, callVars, loopVars, readVars
<1>1. /\ m \in Dialog /\ m.cmd = "Request"
      /\ flight' = (flight \ {m}) \cup {n}
      /\ UNCHANGED <<callVars, loopVars, readVars, closed, conn>>
  BY DEF ServerAnswers, Dialog
<1>2. m \in Message
  BY <1>1, DialogType
<1>3. n \in Message /\ n.tag = m.tag /\ n.of = m.of /\ n.cmd \in Answers
  BY <1>2 DEF Message
<1>4. held # m
  BY <1>1 DEF HeldInv, NoMessage
<1>5. flight' \subseteq Message \cup Unasked
  BY <1>1, <1>3 DEF TypeOK
<1>6. held' \in flight' \cup {NoMessage}
  BY <1>1, <1>4 DEF TypeOK
<1>7. TypeOK'
  BY <1>1, <1>5, <1>6 DEF TypeOK
<1>8. Identified' /\ TableInv' /\ AnswersMatch' /\ NoUnknownTag'
  BY <1>1 DEF Identified, TableInv, AnswersMatch, NoUnknownTag
<1>9. Dialog' = (Dialog \ {m}) \cup {n}
  BY <1>1, <1>3 DEF Dialog
<1>10. DialogInv'
  <2> HIDE DEF n
  <2>1. \A k \in Dialog' : \E j \in Dialog : /\ j.tag = k.tag /\ j.of = k.of
                                          /\ j = IF k = n THEN m ELSE k
    BY <1>1, <1>3, <1>9
  <2>2. \A k \in Dialog' : loop = "select" => pending[k.tag] # Nobody /\ req[pending[k.tag]] = k.of
    BY <2>1 DEF DialogInv
  <2>3. \A j, k \in Dialog' : j.tag = k.tag => j = k
    BY <1>1, <1>3, <1>9 DEF DialogInv
  <2>4. QED
    BY <1>1, <2>2, <2>3 DEF DialogInv
<1>11. HeldInv'
  BY <1>1, <1>4 DEF HeldInv
<1>12. QED
  BY <1>7, <1>8, <1>10, <1>11

LEMMA ServerSendsInv == ASSUME IInv, NEW m \in Unasked, ServerSends(m) PROVE IInv'
<1> USE DEF IInv, callVars, loopVars, readVars
<1>1. flight' = flight \cup {m} /\ UNCHANGED <<callVars, loopVars, readVars, closed, conn>>
  BY DEF ServerSends
<1>2. Dialog' = Dialog
  BY <1>1 DEF Dialog, Unasked, Answers
<1>3. TypeOK'
  BY <1>1 DEF TypeOK
<1>4. Identified' /\ TableInv' /\ AnswersMatch' /\ NoUnknownTag' /\ DialogInv'
  BY <1>1, <1>2 DEF Identified, TableInv, AnswersMatch, NoUnknownTag, DialogInv
<1>5. HeldInv'
  BY <1>1 DEF HeldInv
<1>6. QED
  BY <1>3, <1>4, <1>5

(* The steps that change neither calls, table nor flight. *)
LEMMA OtherInv ==
    ASSUME IInv,
           \/ LoopBreaks \/ LoopEnds \/ ReadFails \/ ClosePackets \/ CloseConn
           \/ TakeUpdate \/ ServerDrops \/ UNCHANGED vars
    PROVE  IInv'
<1> USE DEF IInv, callVars, loopVars, readVars, connVars, vars
<1>1. UNCHANGED <<callVars, pending, tag, held, flight>>
  BY DEF LoopBreaks, LoopEnds, ReadFails, ClosePackets, CloseConn, TakeUpdate, ServerDrops
<1>2. loop' = loop \/ loop' \in {"failing", "ended"}
  BY DEF LoopBreaks, LoopEnds, ReadFails, ClosePackets, CloseConn, TakeUpdate, ServerDrops
<1>3. reader' = reader \/ (reader = "read" /\ reader' = "ended")
  BY DEF LoopBreaks, LoopEnds, ReadFails, ClosePackets, CloseConn, TakeUpdate, ServerDrops
<1>4. updates' \in BOOLEAN /\ closed' \in BOOLEAN /\ conn' \in {"up", "dropped", "closed"}
  BY DEF TypeOK, LoopBreaks, LoopEnds, ReadFails, ClosePackets, CloseConn, TakeUpdate, ServerDrops
<1>5. TypeOK'
  BY <1>1, <1>2, <1>3, <1>4 DEF TypeOK
<1>6. Identified' /\ TableInv' /\ AnswersMatch' /\ NoUnknownTag'
  BY <1>1, <1>2 DEF Identified, TableInv, AnswersMatch, NoUnknownTag
<1>7. DialogInv' /\ HeldInv'
  BY <1>1, <1>2, <1>3 DEF DialogInv, Dialog, HeldInv
<1>8. QED
  BY <1>5, <1>6, <1>7

LEMMA StepInv == IInv /\ [Next]_vars => IInv'
<1> SUFFICES ASSUME IInv, [Next]_vars PROVE IInv'
  OBVIOUS
<1>1. ASSUME NEW c \in Callers, Request(c) \/ SendOnClosed(c) PROVE IInv'
  BY <1>1, RequestInv, SendOnClosedInv
<1>2. CASE Loop
  BY <1>2, AcceptInv, TakeEventInv, TakeAnswerInv, FailPendingInv, OtherInv DEF Loop
<1>3. CASE Reader
  BY <1>3, ReadMessageInv, OtherInv DEF Reader
<1>4. ASSUME NEW m \in flight, NEW cmd \in Answers, ServerAnswers(m, cmd) PROVE IInv'
  BY <1>4, ServerAnswersInv
<1>5. ASSUME NEW m \in Unasked, ServerSends(m) PROVE IInv'
  BY <1>5, ServerSendsInv
<1>6. CASE ClosePackets \/ CloseConn \/ TakeUpdate \/ ServerDrops \/ UNCHANGED vars
  BY <1>6, OtherInv
<1>7. QED
  BY <1>1, <1>2, <1>3, <1>4, <1>5, <1>6 DEF Next

LEMMA Invariant == Safe => []IInv
  BY InitInv, StepInv, PTL DEF Safe

(* Every variable keeps its type; in particular no request is ever tagged
   with the tag the server keeps for events. *)
THEOREM TypeCorrect == Safe => []TypeOK
<1>1. IInv => TypeOK
  BY DEF IInv
<1>2. QED
  BY Invariant, <1>1, PTL

(* request returns the answer to the packet it has sent, or an error, however
   tags are used again and in whatever order the server answers. *)
THEOREM AnswersAreMatched == Safe => []AnswersMatch
<1>1. IInv => AnswersMatch
  BY DEF IInv
<1>2. QED
  BY Invariant, <1>1, PTL

(* processPackets never meets an answer nobody waits for, so it never panics. *)
THEOREM NoTagIsUnknown == Safe => []NoUnknownTag
<1>1. IInv => NoUnknownTag
  BY DEF IInv
<1>2. QED
  BY Invariant, <1>1, PTL
=============================================================================
