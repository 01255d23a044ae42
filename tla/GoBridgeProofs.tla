--------------------------- MODULE GoBridgeProofs ---------------------------
(***************************************************************************)
(* Proofs about GoBridge, for any calls, streams and number of events.      *)
(*                                                                          *)
(* LockInv says what modeMu protects: at most one Disconnect holds or       *)
(* drains the lock, it closes the connection only when no reader is inside, *)
(* and between closing it and clearing connected nobody enters; a wait that *)
(* is under way has the connection open, a call of a contract may have been *)
(* made on a closed one.  StreamInv accounts for every event: what was      *)
(* delivered, then what is pending, then the response on the wire, are      *)
(* 1, 2, ... up to the number sent.                                         *)
(***************************************************************************)
EXTENDS GoBridge, TLAPS, SequenceTheorems

LockInv ==
  /\ \A c \in Calls : stage[c] \in {"draining", "closing"} <=> writer = c
  /\ \A d \in Disconnects :
       stage[d] = "closing" => ~open /\ connected /\ \A r \in Readers : ~Inside(r)
  /\ ~open /\ connected => \E d \in Disconnects : stage[d] = "closing"
  /\ ~connected => ~open
  /\ \A w \in Waits : stage[w] = "calling" => open

OnTheWire(w) == IF w = <<>> THEN <<>> ELSE w[1]

\* d is delivered, p pending, w on the wire, and n events were sent.
Accounted(d, p, w, n) ==
  /\ Len(w) <= 1
  /\ \A i \in 1..Len(d) : d[i] = i
  /\ \A i \in 1..Len(p) : p[i] = Len(d) + i
  /\ \A i \in 1..Len(OnTheWire(w)) : OnTheWire(w)[i] = Len(d) + Len(p) + i
  /\ n = Len(d) + Len(p) + Len(OnTheWire(w))

StreamInv ==
  \A s \in Streams :
    /\ Accounted(delivered[s], pending[s], wire[s], sent[s])
    /\ outcome[s] = "eof" => stage[s] = "done" /\ wire[s] = <<>> /\ pending[s] = <<>>

IInv == TypeOK /\ LockInv /\ StreamInv

(* A call's step moves one call and returns at most one outcome.            *)
LEMMA GoFacts ==
  ASSUME TypeOK, NEW c \in Calls, NEW from, NEW to \in Stages, Go(c, from, to)
  PROVE  /\ stage[c] = from /\ stage'[c] = to
         /\ \A x \in Calls : x # c => stage'[x] = stage[x]
         /\ stage' \in [Calls -> Stages]
  BY DEF TypeOK, Go

(* The same of a step that returns.                                         *)
LEMMA ReturnFacts ==
  ASSUME TypeOK, NEW c \in Calls, NEW from, NEW o \in Outcomes, Return(c, from, o)
  PROVE  /\ stage[c] = from /\ stage'[c] = "done" /\ outcome'[c] = o
         /\ \A x \in Calls : x # c => stage'[x] = stage[x] /\ outcome'[x] = outcome[x]
         /\ stage' \in [Calls -> Stages] /\ outcome' \in [Calls -> Outcomes]
<1>1. Go(c, from, "done")
  BY DEF Return
<1>2. "done" \in Stages
  BY DEF Stages
<1> QED
  BY <1>1, <1>2, GoFacts DEF Return, TypeOK

(* Who is what: a wait is a reader, a reader is a call.                     *)
LEMMA ReadersAreCalls == Waits \subseteq Readers /\ Readers \subseteq Calls
  BY DEF GatewayCalls, Readers, Calls

-----------------------------------------------------------------------------
(* The invariant holds initially: every stream is empty and no call began.  *)
LEMMA InitIInv == Init => IInv
<1> SUFFICES ASSUME Init PROVE IInv
  OBVIOUS
<1>1. TypeOK
  BY EventsAreCounted DEF Init, TypeOK, Stages, Outcomes
<1>2. LockInv
  BY NobodyIsNoCall DEF Init, LockInv, Calls, Readers, GatewayCalls, Inside
<1>3. StreamInv
  BY DEF Init, StreamInv, Accounted, OnTheWire, Calls, Readers
<1> QED
  BY <1>1, <1>2, <1>3 DEF IInv

(* Type correctness and the lock are kept by a reader's steps: it enters    *)
(* only while no Disconnect has announced itself, and it goes on to use the *)
(* connection only after it saw connected.                                  *)
LEMMA ReaderKeepsLock ==
  ASSUME IInv, NEW r \in Readers,
         \/ RLock(r) \/ Refused(r) \/ RequestFails(r) \/ Network(r)
         \/ (r \in Transactions /\ CallGateway(r))
         \/ CommitStatus(r) \/ ChaincodeEvents(r)
         \/ StatusAnswers(r) \/ GatewayAnswers(r) \/ CallFails(r)
         \/ EndOfStream(r) \/ StreamFails(r)
  PROVE  TypeOK' /\ LockInv'
<1> USE DEF IInv
<1>r. r \in Calls
  BY DEF Calls
<1>s. /\ UNCHANGED <<connected, open, writer, streamVars>>
  BY DEF RLock, Refused, RequestFails, Network, CommitStatus, CallGateway, ChaincodeEvents,
         StatusAnswers, GatewayAnswers, CallFails, EndOfStream, StreamFails
<1>1. CASE RLock(r)
  <2>1. Go(r, "locking", "inside") /\ writer = Nobody /\ UNCHANGED outcome
    BY <1>1 DEF RLock
  <2>2. "inside" \in Stages
    BY DEF Stages
  <2>3. TypeOK'
    BY <1>r, <1>s, <2>1, <2>2, GoFacts DEF TypeOK, streamVars
  <2>4. \A d \in Calls : stage[d] \notin {"draining", "closing"}
    BY <2>1, NobodyIsNoCall DEF LockInv
  <2>5. LockInv'
    BY <1>r, <1>s, <2>1, <2>2, <2>4, GoFacts, ReadersAreCalls, NobodyIsNoCall
       DEF LockInv, Inside, Calls
  <2> QED
    BY <2>3, <2>5
<1>4. CASE r \in Transactions /\ CallGateway(r)
  <2>1. Go(r, "inside", "calling") /\ "calling" \in Stages /\ UNCHANGED outcome
    BY <1>4 DEF CallGateway, Stages
  <2>2. TypeOK'
    BY <1>r, <1>s, <2>1, GoFacts DEF TypeOK, streamVars
  <2>3. LockInv'
    BY <1>r, <1>s, <1>4, <2>1, GoFacts, ReadersAreCalls, WaitsAreNoTransactions
       DEF LockInv, Inside, Calls
  <2> QED
    BY <2>2, <2>3
<1>2. CASE CommitStatus(r) \/ ChaincodeEvents(r)
  <2>1. PICK to \in {"calling", "streaming"} : Go(r, "inside", to)
    BY <1>2 DEF CommitStatus, ChaincodeEvents
  <2>2. connected /\ to \in Stages /\ UNCHANGED outcome
    BY <1>2 DEF CommitStatus, ChaincodeEvents, Stages
  <2>3. TypeOK'
    BY <1>r, <1>s, <2>1, <2>2, GoFacts DEF TypeOK, streamVars
  <2>4. LockInv'
    BY <1>r, <1>s, <2>1, <2>2, GoFacts, ReadersAreCalls DEF LockInv, Inside, Calls
  <2> QED
    BY <2>3, <2>4
<1>3. CASE \/ Refused(r) \/ RequestFails(r) \/ Network(r)
           \/ StatusAnswers(r) \/ GatewayAnswers(r) \/ CallFails(r)
           \/ EndOfStream(r) \/ StreamFails(r)
  <2>1. PICK from \in {"inside", "calling", "streaming"}, o \in Outcomes : Return(r, from, o)
    BY <1>3 DEF Refused, RequestFails, Network, StatusAnswers, GatewayAnswers, CallFails,
                EndOfStream, StreamFails, Outcomes
  <2>2. TypeOK'
    BY <1>r, <1>s, <2>1, ReturnFacts DEF TypeOK, streamVars
  <2>3. LockInv'
    BY <1>r, <1>s, <2>1, ReturnFacts, ReadersAreCalls DEF LockInv, Inside, Calls
  <2> QED
    BY <2>2, <2>3
<1> QED
  BY <1>1, <1>2, <1>3, <1>4

(* They are kept when a call begins and by Disconnect: it is announced to   *)
(* one goroutine at a time and closes when the readers have left.           *)
LEMMA DisconnectKeepsLock ==
  ASSUME IInv,
         \/ \E c \in Calls : Call(c)
         \/ \E d \in Disconnects : DisconnectStep(d)
  PROVE  TypeOK' /\ LockInv'
<1> USE DEF IInv
<1>1. CASE \E c \in Calls : Call(c)
  <2>1. PICK c \in Calls : Call(c)
    BY <1>1
  <2>2. Go(c, "idle", "locking") /\ UNCHANGED <<connected, open, writer, outcome, streamVars>>
    BY <2>1 DEF Call
  <2>3. "locking" \in Stages
    BY DEF Stages
  <2>4. TypeOK'
    BY <2>2, <2>3, GoFacts DEF TypeOK, streamVars
  <2>5. LockInv'
    BY <2>2, <2>3, GoFacts, ReadersAreCalls DEF LockInv, Inside, Calls
  <2> QED
    BY <2>4, <2>5
<1>2. ASSUME NEW d \in Disconnects, Announce(d)
      PROVE  TypeOK' /\ LockInv'
  <2>1. /\ Go(d, "locking", "draining") /\ d \in Calls /\ "draining" \in Stages
        /\ UNCHANGED <<connected, open, outcome, streamVars>>
        /\ writer = Nobody /\ writer' = d
    BY <1>2 DEF Announce, Calls, Stages
  <2>2. TypeOK'
    BY <2>1, GoFacts DEF TypeOK, streamVars
  <2>3. \A c \in Calls : stage[c] \notin {"draining", "closing"}
    BY <2>1, NobodyIsNoCall DEF LockInv
  <2>4. LockInv'
    BY <2>1, <2>3, GoFacts, ReadersAreCalls DEF LockInv, Inside, Calls
  <2> QED
    BY <2>2, <2>4
<1>3. ASSUME NEW d \in Disconnects, Close(d)
      PROVE  TypeOK' /\ LockInv'
  <2>1. /\ Go(d, "draining", "closing") /\ d \in Calls /\ "closing" \in Stages
        /\ UNCHANGED <<connected, writer, outcome, streamVars>>
        /\ connected /\ open' = FALSE
        /\ \A r \in Readers : ~Inside(r)
    BY <1>3 DEF Close, Calls, Stages
  <2>2. TypeOK'
    BY <2>1, GoFacts DEF TypeOK, streamVars
  <2>3. LockInv'
    BY <2>1, GoFacts, ReadersAreCalls DEF LockInv, Inside, Calls
  <2> QED
    BY <2>2, <2>3
<1>4. ASSUME NEW d \in Disconnects, Closed(d)
      PROVE  TypeOK' /\ LockInv'
  <2>1. /\ Return(d, "closing", "ok") /\ d \in Calls /\ "ok" \in Outcomes
        /\ UNCHANGED <<open, streamVars>>
        /\ connected' = FALSE /\ writer' = Nobody
    BY <1>4 DEF Closed, Calls, Outcomes
  <2>2. TypeOK'
    BY <2>1, ReturnFacts DEF TypeOK, streamVars
  <2>3. LockInv'
    BY <2>1, ReturnFacts, ReadersAreCalls, NobodyIsNoCall DEF LockInv, Inside, Calls
  <2> QED
    BY <2>2, <2>3
<1>5. ASSUME NEW d \in Disconnects, AlreadyClosed(d)
      PROVE  TypeOK' /\ LockInv'
  <2>1. /\ Return(d, "draining", "ok") /\ d \in Calls /\ "ok" \in Outcomes
        /\ UNCHANGED <<connected, open, streamVars>>
        /\ ~connected /\ writer' = Nobody
    BY <1>5 DEF AlreadyClosed, Calls, Outcomes
  <2>2. TypeOK'
    BY <2>1, ReturnFacts DEF TypeOK, streamVars
  <2>3. LockInv'
    BY <2>1, ReturnFacts, ReadersAreCalls, NobodyIsNoCall DEF LockInv, Inside, Calls
  <2> QED
    BY <2>2, <2>3
<1> QED
  BY <1>1, <1>2, <1>3, <1>4, <1>5 DEF DisconnectStep

-----------------------------------------------------------------------------
(* A step that leaves the streams' data alone keeps the account of their    *)
(* events when whatever it ends with io.EOF has nothing left.               *)
LEMMA QuietKeepsStreams ==
  ASSUME StreamInv, UNCHANGED streamVars,
         \A s \in Streams :
           outcome'[s] = "eof" => stage'[s] = "done" /\ wire[s] = <<>> /\ pending[s] = <<>>
  PROVE  StreamInv'
  BY DEF StreamInv, streamVars

(* Every step but those of the streams' own data is of that kind.           *)
LEMMA CallsKeepStreams ==
  ASSUME IInv,
         \/ \E c \in Calls : Call(c)
         \/ \E d \in Disconnects : DisconnectStep(d)
         \/ \E r \in Readers :
              \/ RLock(r) \/ Refused(r) \/ RequestFails(r) \/ Network(r)
              \/ (r \in Transactions /\ CallGateway(r))
              \/ CommitStatus(r) \/ ChaincodeEvents(r)
              \/ StatusAnswers(r) \/ GatewayAnswers(r) \/ CallFails(r)
              \/ EndOfStream(r) \/ StreamFails(r)
  PROVE  StreamInv'
<1>t. TypeOK /\ StreamInv
  BY DEF IInv
<1>s. UNCHANGED streamVars
  BY DEF Call, DisconnectStep, Announce, Close, Closed, AlreadyClosed,
         RLock, Refused, RequestFails, Network, CommitStatus, CallGateway, ChaincodeEvents,
         StatusAnswers, GatewayAnswers, CallFails, EndOfStream, StreamFails
<1>c. Readers \subseteq Calls /\ Disconnects \subseteq Calls /\ Streams \subseteq Calls
  BY DEF Calls, Readers
<1>1. CASE \E c \in Calls, from, to \in Stages \ {"done"} : Go(c, from, to) /\ UNCHANGED outcome
  <2>1. PICK c \in Calls, from \in Stages \ {"done"}, to \in Stages \ {"done"} :
          Go(c, from, to) /\ UNCHANGED outcome
    BY <1>1
  <2>2. /\ stage[c] # "done"
        /\ \A x \in Calls : x # c => stage'[x] = stage[x]
    BY <1>t, <2>1, GoFacts
  <2>3. \A s \in Streams :
          outcome'[s] = "eof" => stage'[s] = "done" /\ wire[s] = <<>> /\ pending[s] = <<>>
    BY <1>t, <1>c, <2>1, <2>2 DEF StreamInv
  <2> QED
    BY <1>t, <1>s, <2>3, QuietKeepsStreams
<1>2. CASE \E c \in Calls, from \in Stages \ {"done"}, o \in Outcomes :
             /\ Return(c, from, o)
             /\ o = "eof" => c \in Streams /\ wire[c] = <<>> /\ pending[c] = <<>>
  <2>1. PICK c \in Calls, from \in Stages \ {"done"}, o \in Outcomes :
          /\ Return(c, from, o)
          /\ o = "eof" => c \in Streams /\ wire[c] = <<>> /\ pending[c] = <<>>
    BY <1>2
  <2>2. /\ stage[c] # "done" /\ stage'[c] = "done" /\ outcome'[c] = o
        /\ \A x \in Calls : x # c => stage'[x] = stage[x] /\ outcome'[x] = outcome[x]
    BY <1>t, <2>1, ReturnFacts
  <2>3. \A s \in Streams :
          outcome'[s] = "eof" => stage'[s] = "done" /\ wire[s] = <<>> /\ pending[s] = <<>>
    BY <1>t, <1>c, <2>1, <2>2 DEF StreamInv
  <2> QED
    BY <1>t, <1>s, <2>3, QuietKeepsStreams
<1>3. CASE \E c \in Calls : Call(c)
  BY <1>1, <1>3 DEF Call, Stages
<1>4. ASSUME NEW d \in Disconnects, DisconnectStep(d)
      PROVE  StreamInv'
  <2>1. CASE Announce(d) \/ Close(d)
    BY <1>c, <1>1, <2>1 DEF Announce, Close, Stages
  <2>2. CASE Closed(d) \/ AlreadyClosed(d)
    BY <1>c, <1>2, <2>2 DEF Closed, AlreadyClosed, Stages, Outcomes
  <2> QED
    BY <1>4, <2>1, <2>2 DEF DisconnectStep
<1>5. ASSUME NEW r \in Readers,
             \/ RLock(r) \/ Refused(r) \/ RequestFails(r) \/ Network(r)
             \/ (r \in Transactions /\ CallGateway(r))
             \/ CommitStatus(r) \/ ChaincodeEvents(r)
             \/ StatusAnswers(r) \/ GatewayAnswers(r) \/ CallFails(r)
             \/ EndOfStream(r) \/ StreamFails(r)
      PROVE  StreamInv'
  <2>1. CASE RLock(r) \/ CommitStatus(r) \/ CallGateway(r) \/ ChaincodeEvents(r)
    BY <1>c, <1>1, <2>1 DEF RLock, CommitStatus, CallGateway, ChaincodeEvents, Stages
  <2>2. CASE \/ Refused(r) \/ RequestFails(r) \/ Network(r)
             \/ StatusAnswers(r) \/ GatewayAnswers(r) \/ CallFails(r) \/ StreamFails(r)
    <3>1. PICK from \in {"inside", "calling", "streaming"},
               o \in {"not connected", "error", "ok"} : Return(r, from, o)
      BY <2>2 DEF Refused, RequestFails, Network, StatusAnswers, GatewayAnswers, CallFails,
                  StreamFails
    <3> QED
      BY <1>c, <1>2, <3>1 DEF Stages, Outcomes
  <2>3. CASE EndOfStream(r) /\ r \in Streams
    BY <1>c, <1>2, <2>3 DEF EndOfStream, Stages, Outcomes
  <2>4. EndOfStream(r) => r \in Streams
    BY <1>t DEF EndOfStream, TypeOK
  <2> QED
    BY <1>5, <2>1, <2>2, <2>3, <2>4
<1> QED
  BY <1>3, <1>4, <1>5

(* What the steps on the streams' data leave alone: the lock, and every     *)
(* stream but one.                                                          *)
LEMMA StreamsKeepLock ==
  ASSUME LockInv, UNCHANGED <<connected, open, writer, stage>>
  PROVE  LockInv'
  BY DEF LockInv, Inside

(* A list without its first element, and a list with one element.           *)
LEMMA TailFacts ==
  ASSUME NEW S, NEW p \in Seq(S), p # <<>>
  PROVE  /\ Len(p) \in Nat \ {0} /\ Head(p) \in S /\ Head(p) = p[1] /\ p[1] \in S
         /\ Tail(p) \in Seq(S) /\ Len(Tail(p)) = Len(p) - 1
         /\ \A i \in 1..Len(Tail(p)) : Tail(p)[i] = p[i + 1]
         /\ Len(p) <= 1 => Tail(p) = <<>>
<1>1. Len(p) \in Nat \ {0} /\ Head(p) = p[1]
  BY EmptySeq
<1>2. /\ Head(p) \in S /\ Tail(p) \in Seq(S) /\ Len(Tail(p)) = Len(p) - 1
      /\ \A i \in 1..Len(Tail(p)) : Tail(p)[i] = p[i + 1]
  BY HeadTailProperties
<1>3. Len(Tail(p)) = 0 => Tail(p) = <<>>
  BY <1>2, EmptySeq
<1> QED
  BY <1>1, <1>2, <1>3

Events == Seq(1..MaxEvents)

(* Recv hands out the first pending event: it is the next one.              *)
LEMMA DeliveredStaysAccounted ==
  ASSUME NEW d \in Events, NEW p \in Events, NEW w \in Seq(Events), NEW n,
         p # <<>>, Accounted(d, p, w, n)
  PROVE  /\ Append(d, Head(p)) \in Events /\ Tail(p) \in Events
         /\ Accounted(Append(d, Head(p)), Tail(p), w, n)
<1> DEFINE x == Append(d, Head(p))  q == Tail(p)  r == OnTheWire(w)
<1>1. /\ Len(p) \in Nat \ {0} /\ Head(p) \in 1..MaxEvents /\ Head(p) = p[1]
      /\ q \in Events /\ Len(q) = Len(p) - 1 /\ \A i \in 1..Len(q) : q[i] = p[i + 1]
  BY TailFacts DEF Events
<1>2. /\ x \in Events /\ Len(x) = Len(d) + 1 /\ x[Len(d) + 1] = Head(p)
      /\ \A i \in 1..Len(d) : x[i] = d[i]
  BY <1>1, AppendProperties DEF Events
<1>3. Len(d) \in Nat
  BY DEF Events
<1>4. /\ Len(w) <= 1 /\ n = Len(d) + Len(p) + Len(r)
      /\ \A i \in 1..Len(d) : d[i] = i
      /\ \A i \in 1..Len(p) : p[i] = Len(d) + i
      /\ \A i \in 1..Len(r) : r[i] = Len(d) + Len(p) + i
  BY DEF Accounted
<1>5. Len(r) \in Nat
  BY DEF OnTheWire, Events
<1> HIDE DEF x, q, r
<1>6. \A i \in 1..Len(x) : x[i] = i
  <2>1. x[Len(d) + 1] = Len(d) + 1
    BY <1>1, <1>2, <1>4
  <2>2. \A i \in 1..Len(x) : i \in 1..Len(d) \/ i = Len(d) + 1
    BY <1>2, <1>3
  <2>3. \A i \in 1..Len(d) : x[i] = i
    BY <1>2, <1>4
  <2> QED
    BY <2>1, <2>2, <2>3
<1>7. \A i \in 1..Len(q) : q[i] = Len(x) + i
  BY <1>1, <1>2, <1>3, <1>4
<1>8. \A i \in 1..Len(r) : r[i] = Len(x) + Len(q) + i
  BY <1>1, <1>2, <1>3, <1>4
<1>9. n = Len(x) + Len(q) + Len(r)
  BY <1>1, <1>2, <1>3, <1>4, <1>5
<1> QED
  BY <1>1, <1>2, <1>4, <1>6, <1>7, <1>8, <1>9 DEF Accounted, x, q, r

(* Recv takes the response on the wire when nothing is pending.             *)
LEMMA ReceivedStaysAccounted ==
  ASSUME NEW d \in Events, NEW w \in Seq(Events), NEW n,
         w # <<>>, Accounted(d, <<>>, w, n)
  PROVE  /\ Head(w) \in Events /\ Tail(w) \in Seq(Events)
         /\ Accounted(d, Head(w), Tail(w), n)
<1>1. /\ Len(w) <= 1 /\ OnTheWire(w) = w[1] /\ n = Len(d) + 0 + Len(w[1])
      /\ \A i \in 1..Len(d) : d[i] = i
      /\ \A i \in 1..Len(w[1]) : w[1][i] = Len(d) + 0 + i
  BY DEF Accounted, OnTheWire
<1>2. Head(w) = w[1] /\ w[1] \in Events /\ Tail(w) \in Seq(Events) /\ Tail(w) = <<>>
  BY <1>1, TailFacts
<1>3. Len(d) \in Nat /\ Len(w[1]) \in Nat
  BY <1>2 DEF Events
<1>4. Accounted(d, w[1], <<>>, n)
  BY <1>1, <1>3 DEF Accounted, OnTheWire
<1> QED
  BY <1>2, <1>4

(* The Gateway sends the events that follow those it has sent.              *)
LEMMA SentStaysAccounted ==
  ASSUME NEW d \in Events, NEW p \in Events, NEW m \in 0..MaxEvents, NEW n \in m..MaxEvents,
         Accounted(d, p, <<>>, m)
  PROVE  LET r == [i \in 1..(n - m) |-> m + i]
         IN Append(<<>>, r) \in Seq(Events) /\ Accounted(d, p, Append(<<>>, r), n)
<1> DEFINE r == [i \in 1..(n - m) |-> m + i]
<1>1. n - m \in Nat /\ \A i \in 1..(n - m) : m + i \in 1..MaxEvents
  BY EventsAreCounted
<1>2. r \in Events /\ Len(r) = n - m /\ \A i \in 1..Len(r) : r[i] = m + i
  BY <1>1 DEF Events
<1>3. /\ m = Len(d) + Len(p) /\ Len(d) \in Nat /\ Len(p) \in Nat
      /\ \A i \in 1..Len(d) : d[i] = i
      /\ \A i \in 1..Len(p) : p[i] = Len(d) + i
  BY DEF Accounted, OnTheWire, Events
<1> HIDE DEF r
<1>4. /\ Append(<<>>, r) \in Seq(Events) /\ Append(<<>>, r) # <<>>
      /\ Len(Append(<<>>, r)) = 1 /\ Append(<<>>, r)[1] = r
  BY <1>2
<1>5. OnTheWire(Append(<<>>, r)) = r
  BY <1>4 DEF OnTheWire
<1>6. n = Len(d) + Len(p) + Len(r) /\ \A i \in 1..Len(r) : r[i] = Len(d) + Len(p) + i
  BY <1>1, <1>2, <1>3
<1>7. Accounted(d, p, Append(<<>>, r), n)
  BY <1>3, <1>4, <1>5, <1>6 DEF Accounted
<1> QED
  BY <1>4, <1>7 DEF r

(* The three steps that change a stream's data keep the invariant.          *)
LEMMA StreamStepKeepsIInv ==
  ASSUME IInv, NEW s \in Streams, Deliver(s) \/ Receive(s) \/ Sends(s)
  PROVE  IInv'
<1>1. TypeOK /\ LockInv /\ StreamInv
  BY DEF IInv
<1>2. stage[s] = "streaming" /\ UNCHANGED <<connected, open, writer, stage, outcome, ended>>
  BY DEF Deliver, Receive, Sends
<1>3. /\ delivered[s] \in Events /\ pending[s] \in Events /\ wire[s] \in Seq(Events)
      /\ sent[s] \in 0..MaxEvents
      /\ Accounted(delivered[s], pending[s], wire[s], sent[s]) /\ outcome[s] # "eof"
  BY <1>1, <1>2 DEF TypeOK, StreamInv, Events
<1>4. ASSUME NEW d \in Events, NEW p \in Events, NEW w \in Seq(Events), NEW n \in 0..MaxEvents,
             Accounted(d, p, w, n),
             delivered' = [delivered EXCEPT ![s] = d], pending' = [pending EXCEPT ![s] = p],
             wire' = [wire EXCEPT ![s] = w], sent' = [sent EXCEPT ![s] = n]
      PROVE  IInv'
  <2>2. TypeOK'
    BY <1>1, <1>2, <1>4 DEF TypeOK, Events
  <2>3. LockInv'
    BY <1>1, <1>2, StreamsKeepLock
  <2>4. /\ Accounted(delivered'[s], pending'[s], wire'[s], sent'[s])
        /\ \A t \in Streams : t # s =>
             /\ delivered'[t] = delivered[t] /\ pending'[t] = pending[t]
             /\ wire'[t] = wire[t] /\ sent'[t] = sent[t]
    BY <1>1, <1>4 DEF TypeOK
  <2>5. StreamInv'
    BY <1>1, <1>2, <1>3, <2>4 DEF StreamInv
  <2> QED
    BY <2>2, <2>3, <2>5 DEF IInv
<1>s. /\ delivered = [delivered EXCEPT ![s] = delivered[s]]
      /\ pending = [pending EXCEPT ![s] = pending[s]]
      /\ wire = [wire EXCEPT ![s] = wire[s]] /\ sent = [sent EXCEPT ![s] = sent[s]]
  BY <1>1 DEF TypeOK
<1>5. CASE Deliver(s)
  <2>1. /\ pending[s] # <<>> /\ UNCHANGED <<sent, wire>>
        /\ delivered' = [delivered EXCEPT ![s] = Append(delivered[s], Head(pending[s]))]
        /\ pending' = [pending EXCEPT ![s] = Tail(pending[s])]
    BY <1>5 DEF Deliver
  <2>2. /\ Append(delivered[s], Head(pending[s])) \in Events /\ Tail(pending[s]) \in Events
        /\ Accounted(Append(delivered[s], Head(pending[s])), Tail(pending[s]), wire[s], sent[s])
    BY <1>3, <2>1, DeliveredStaysAccounted
  <2> QED
    BY <1>3, <1>4, <1>s, <2>1, <2>2
<1>6. CASE Receive(s)
  <2>1. /\ wire[s] # <<>> /\ pending[s] = <<>> /\ UNCHANGED <<delivered, sent>>
        /\ pending' = [pending EXCEPT ![s] = Head(wire[s])]
        /\ wire' = [wire EXCEPT ![s] = Tail(wire[s])]
    BY <1>6 DEF Receive
  <2>2. /\ Head(wire[s]) \in Events /\ Tail(wire[s]) \in Seq(Events)
        /\ Accounted(delivered[s], Head(wire[s]), Tail(wire[s]), sent[s])
    BY <1>3, <2>1, ReceivedStaysAccounted
  <2> QED
    BY <1>3, <1>4, <1>s, <2>1, <2>2
<1>7. CASE Sends(s)
  <2>1. PICK n \in sent[s]..MaxEvents :
          /\ wire' = [wire EXCEPT ![s] =
                        Append(wire[s], [i \in 1..(n - sent[s]) |-> sent[s] + i])]
          /\ sent' = [sent EXCEPT ![s] = n]
    BY <1>7 DEF Sends
  <2>2. wire[s] = <<>> /\ UNCHANGED <<delivered, pending>>
    BY <1>7 DEF Sends
  <2> DEFINE r == [i \in 1..(n - sent[s]) |-> sent[s] + i]
  <2>3. n \in 0..MaxEvents /\ Accounted(delivered[s], pending[s], <<>>, sent[s])
    BY <1>3, <2>1, <2>2, EventsAreCounted
  <2>4. Append(<<>>, r) \in Seq(Events) /\ Accounted(delivered[s], pending[s], Append(<<>>, r), n)
    BY <1>3, <2>1, <2>3, SentStaysAccounted
  <2>5. wire' = [wire EXCEPT ![s] = Append(<<>>, r)]
    BY <2>1, <2>2
  <2> HIDE DEF r
  <2> QED
    BY <1>3, <1>4, <1>s, <2>1, <2>2, <2>3, <2>4, <2>5
<1> QED
  BY <1>5, <1>6, <1>7

(* The Gateway ends a stream.                                               *)
LEMMA EndsKeepsIInv ==
  ASSUME IInv, NEW s \in Streams, Ends(s)
  PROVE  IInv'
<1>1. TypeOK /\ LockInv /\ StreamInv
  BY DEF IInv
<1>2. /\ ended' \subseteq Streams
      /\ UNCHANGED <<connected, open, writer, stage, outcome, sent, wire, pending, delivered>>
  BY <1>1 DEF Ends, TypeOK
<1>3. TypeOK'
  BY <1>1, <1>2 DEF TypeOK
<1>4. LockInv'
  BY <1>1, <1>2, StreamsKeepLock
<1>5. StreamInv'
  BY <1>1, <1>2 DEF StreamInv
<1> QED
  BY <1>3, <1>4, <1>5 DEF IInv

-----------------------------------------------------------------------------
(* Every step keeps the invariant.                                          *)
LEMMA NextKeepsIInv == IInv /\ [Next]_vars => IInv'
<1> SUFFICES ASSUME IInv, [Next]_vars PROVE IInv'
  OBVIOUS
<1>r. /\ Lookups \subseteq Readers /\ Waits \subseteq Readers /\ Streams \subseteq Readers
      /\ Transactions \subseteq Readers
  BY DEF Readers, GatewayCalls
<1>1. CASE (\E c \in Calls : Call(c)) \/ (\E d \in Disconnects : DisconnectStep(d))
  BY <1>1, DisconnectKeepsLock, CallsKeepStreams DEF IInv
<1>2. ASSUME NEW r \in Readers,
             \/ RLock(r) \/ Refused(r) \/ RequestFails(r) \/ Network(r)
             \/ (r \in Transactions /\ CallGateway(r))
             \/ CommitStatus(r) \/ ChaincodeEvents(r)
             \/ StatusAnswers(r) \/ GatewayAnswers(r) \/ CallFails(r)
             \/ EndOfStream(r) \/ StreamFails(r)
      PROVE  IInv'
  BY <1>2, ReaderKeepsLock, CallsKeepStreams DEF IInv
<1>3. CASE \E l \in Lookups : LookupStep(l)
  BY <1>r, <1>2, <1>3 DEF LookupStep
<1>4. CASE \E w \in Waits : WaitStep(w) \/ StatusAnswers(w) \/ CallFails(w)
  BY <1>r, <1>2, <1>4 DEF WaitStep, ContextEnds
<1>7. CASE \E t \in Transactions : TransactionStep(t) \/ GatewayAnswers(t) \/ CallFails(t)
  BY <1>r, <1>2, <1>7 DEF TransactionStep, ContextEnds
<1>5. CASE \E s \in Streams : OpenStep(s) \/ RecvStep(s) \/ StreamFails(s) \/ Sends(s) \/ Ends(s)
  <2>1. PICK s \in Streams : OpenStep(s) \/ RecvStep(s) \/ StreamFails(s) \/ Sends(s) \/ Ends(s)
    BY <1>5
  <2>2. CASE Deliver(s) \/ Receive(s) \/ Sends(s) \/ Ends(s)
    BY <2>2, StreamStepKeepsIInv, EndsKeepsIInv
  <2>3. CASE OpenStep(s) \/ EndOfStream(s) \/ StreamFails(s)
    BY <1>r, <1>2, <2>3 DEF OpenStep
  <2> QED
    BY <2>1, <2>2, <2>3 DEF RecvStep
<1>6. CASE UNCHANGED vars
  <2>1. TypeOK /\ LockInv /\ StreamInv /\ UNCHANGED vars
    BY <1>6 DEF IInv
  <2>2. TypeOK'
    BY <2>1 DEF TypeOK, vars, streamVars
  <2>3. LockInv'
    BY <2>1, StreamsKeepLock DEF vars
  <2>4. StreamInv'
    BY <2>1 DEF StreamInv, vars, streamVars
  <2> QED
    BY <2>2, <2>3, <2>4 DEF IInv
<1> QED
  BY <1>1, <1>3, <1>4, <1>5, <1>6, <1>7 DEF Next

(* The invariant of lock, connection and streams.                           *)
THEOREM Invariance == Spec => []IInv
  BY InitIInv, NextKeepsIInv, PTL DEF Spec

(* The state of a bridge is well formed.                                    *)
THEOREM TypeCorrect == Spec => []TypeOK
<1>1. IInv => TypeOK
  BY DEF IInv
<1> QED
  BY <1>1, Invariance, PTL

(* However many goroutines share a bridge, none of them finds the           *)
(* connection closed after it checked connected under the read lock         *)
(* (bridge.go:93-137, 255-303).                                             *)
THEOREM ReadersKeepTheConnection == Spec => []CheckedConnectionIsOpen
<1>1. IInv => CheckedConnectionIsOpen
  BY DEF IInv, LockInv, CheckedConnectionIsOpen, Inside, Readers, GatewayCalls
<1> QED
  BY <1>1, Invariance, PTL

(* A stream of any length gives its events out in order, each once, however *)
(* they were grouped, and io.EOF only after the last (events.go).           *)
THEOREM EventsInOrder == Spec => []EventsArriveInOrder
<1>1. IInv => EventsArriveInOrder
  <2> SUFFICES ASSUME IInv, NEW s \in Streams
               PROVE  /\ delivered[s] = [i \in 1..Len(delivered[s]) |-> i]
                      /\ outcome[s] = "eof" => Len(delivered[s]) = sent[s]
    BY DEF EventsArriveInOrder
  <2>1. delivered[s] \in Seq(1..MaxEvents) /\ \A i \in 1..Len(delivered[s]) : delivered[s][i] = i
    BY DEF IInv, TypeOK, StreamInv, Accounted
  <2>2. delivered[s] = [i \in 1..Len(delivered[s]) |-> i]
    BY <2>1
  <2>3. outcome[s] = "eof" => sent[s] = Len(delivered[s]) + 0 + 0
    BY DEF IInv, StreamInv, Accounted, OnTheWire
  <2> QED
    BY <2>1, <2>2, <2>3
<1> QED
  BY <1>1, Invariance, PTL

=============================================================================
