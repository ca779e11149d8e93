---------------------------- MODULE EOPSIProofs -----------------------------
(***************************************************************************)
(* Theorems about EOPSI, for every set of clients, servers and envelopes,    *)
(* every data, and every number of sessions: types and who is known, what an *)
(* application that keeps every promise is guaranteed, and what holds         *)
(* whatever the application does.                                            *)
(***************************************************************************)
EXTENDS EOPSIPhases, SequenceTheorems, Induction

-----------------------------------------------------------------------------
(* The call stack *)

\* A send leaves the frames below the top alone, lets the top wait, and puts
\* the callee on top.
LEMMA SendStack ==
  ASSUME stack \in Seq(Frame), stack # <<>>,
         NEW pc \in {"enter", "cloud", "output", "poly"}, NEW key \in Nat,
         NEW p \in Parties, NEW msg \in Message,
         Send(pc, key, p, msg)
  PROVE  /\ stack' \in Seq(Frame)
         /\ Len(stack') = Len(stack) + 1
         /\ stack'[Len(stack) + 1] = Entered(p, msg)
         /\ stack'[Len(stack)] = Waiting(pc, key)
         /\ \A i \in 1..(Len(stack) - 1) : stack'[i] = stack[i]
<1>1. Len(stack) \in Nat /\ Len(stack) >= 1
  BY EmptySeq, LenProperties, SeqEqual
<1> DEFINE n == Len(stack)
           below == [stack EXCEPT ![n] = Waiting(pc, key)]
<1>2. Top \in Frame
  BY <1>1, ElementOfSeq DEF Top
<1>3. Waiting(pc, key) \in Frame
  BY <1>2 DEF Frame, Waiting
<1>4. Entered(p, msg) \in Frame
  BY DEF Entered, Frame
<1>5. /\ below \in Seq(Frame) /\ Len(below) = n
      /\ \A j \in 1..n : below[j] = IF j = n THEN Waiting(pc, key) ELSE stack[j]
  <2>1. n \in 1..Len(stack)
    BY <1>1
  <2> QED
    BY <1>3, <2>1, ExceptSeq
<1>6. stack' = Append(below, Entered(p, msg))
  BY DEF Send
<1> HIDE DEF below
<1>7. /\ Append(below, Entered(p, msg)) \in Seq(Frame)
      /\ Len(Append(below, Entered(p, msg))) = n + 1
      /\ \A i \in 1..n : Append(below, Entered(p, msg))[i] = below[i]
      /\ Append(below, Entered(p, msg))[n + 1] = Entered(p, msg)
  BY <1>4, <1>5, AppendProperties
<1> QED
  BY <1>1, <1>5, <1>6, <1>7

\* A return takes the top frame away.
LEMMA ReturnStack ==
  ASSUME stack \in Seq(Frame), stack # <<>>, Return
  PROVE  /\ stack' \in Seq(Frame)
         /\ Len(stack') = Len(stack) - 1
         /\ \A i \in 1..(Len(stack) - 1) : stack'[i] = stack[i]
<1>1. Len(stack) \in Nat /\ Len(stack) >= 1
  BY EmptySeq, LenProperties, SeqEqual
<1>2. \A i \in 1..(Len(stack) - 1) : stack[i] \in Frame
  BY <1>1, ElementOfSeq
<1>3. stack' = SubSeq(stack, 1, Len(stack) - 1)
  BY DEF Return
<1> DEFINE n == Len(stack) - 1
<1>4. n \in Nat /\ 1 \in Int /\ n \in Int
  BY <1>1
<1>5. \A i \in 1..n : stack[i] \in Frame
  BY <1>2
<1> HIDE DEF n
<1>6. /\ SubSeq(stack, 1, n) \in Seq(Frame)
      /\ Len(SubSeq(stack, 1, n)) = IF 1 <= n THEN n - 1 + 1 ELSE 0
      /\ \A i \in 1..(n - 1 + 1) : SubSeq(stack, 1, n)[i] = stack[1 + i - 1]
  BY <1>4, <1>5, SubSeqProperties
<1>7. /\ Len(SubSeq(stack, 1, n)) = n
      /\ \A i \in 1..n : SubSeq(stack, 1, n)[i] = stack[i]
  BY <1>4, <1>6
<1> QED
  BY <1>3, <1>6, <1>7 DEF n

\* A call of the application makes a stack of one frame.
LEMMA CallStack ==
  ASSUME NEW p \in Parties, NEW msg \in Message, Call(p, msg)
  PROVE  /\ stack' \in Seq(Frame)
         /\ Len(stack') = 1
         /\ stack'[1] = Entered(p, msg)
<1>1. Entered(p, msg) \in Frame
  BY DEF Entered, Frame
<1> QED
  BY <1>1 DEF Call

-----------------------------------------------------------------------------
(* Types *)

\* What the messages that may be accepted carry, and who may wait.
FrameOK(f) ==
  /\ f.msg.type = "OUTPUT_COMPUTATION" /\ f.at \in Clients /\ f.msg.from \in Servers =>
       f.msg.body \in TMatrix
  /\ f.msg.type = "POLYNOMIAL" /\ f.at \in Clients /\ f.msg.from \in Clients /\ f.msg.from # f.at =>
       f.msg.body \in QMatrix
  /\ f.msg.type = "OUTSOURCING_DATA" /\ f.at \in Servers /\ f.msg.from \in Clients =>
       f.msg.body \in Envelopes
  /\ f.msg.type = "CLOUD_COMPUTATION_REQUEST" /\ f.at \in Servers /\ f.msg.from \in Clients
       /\ f.msg.claim = f.msg.from =>
       f.msg.body \in Body /\ f.msg.partner \in Clients
  /\ f.pc \in {"cloud", "poly"} => f.at \in Clients /\ f.msg.from \in Clients

TypeInv == TypeOK /\ \A i \in 1..Len(stack) : FrameOK(stack[i])

\* The types of message accepted, by the kinds of sender and receiver.
LEMMA AcceptedKinds ==
  ASSUME NEW p \in Parties, NEW msg \in Message, Accepted(p, msg)
  PROVE  /\ msg.from # p
         /\ msg.type \in {"CLIENT_COMPUTATION_REQUEST", "POLYNOMIAL"} =>
              p \in Clients /\ msg.from \in Clients
         /\ msg.type = "OUTPUT_COMPUTATION" => p \in Clients /\ msg.from \in Servers
         /\ msg.type \in {"OUTSOURCING_DATA", "CLOUD_COMPUTATION_REQUEST"} =>
              p \in Servers /\ msg.from \in Clients
         /\ msg.type \in {"CLIENT_COMPUTATION_REQUEST", "CLOUD_COMPUTATION_REQUEST"} =>
              msg.claim = msg.from
<1>1. msg.from \in Clients \cup Servers /\ p \in Clients \cup Servers
  BY DEF Message, Parties
<1> QED
  BY <1>1, PartyAssumption DEF Accepted, Refused, ServerAuthorises, ClientAuthorises

\* The top frame of a stack that is not empty.
LEMMA TopFrame ==
  ASSUME TypeInv, stack # <<>>
  PROVE  /\ Len(stack) \in Nat /\ Len(stack) >= 1
         /\ Top = stack[Len(stack)] /\ Top \in Frame /\ FrameOK(Top)
         /\ Top.at \in Parties /\ Top.msg \in Message /\ Top.key \in Nat
         /\ Top.msg.from \in Parties
<1>1. stack \in Seq(Frame)
  BY DEF TypeInv, TypeOK
<1>2. Len(stack) \in Nat /\ Len(stack) >= 1
  BY <1>1, EmptySeq, LenProperties, SeqEqual
<1>3. Top \in Frame
  BY <1>1, <1>2, ElementOfSeq DEF Top
<1> QED
  BY <1>2, <1>3 DEF Frame, Message, Top, TypeInv

\* A send keeps the frames well formed, if the message is.
LEMMA SendFrames ==
  ASSUME TypeInv, stack # <<>>,
         NEW pc \in {"cloud", "output", "poly"}, NEW key \in Nat,
         NEW p \in Parties, NEW msg \in Message,
         Send(pc, key, p, msg),
         pc \in {"cloud", "poly"} => Top.at \in Clients /\ Top.msg.from \in Clients,
         FrameOK(Entered(p, msg))
  PROVE  stack' \in Seq(Frame) /\ \A i \in 1..Len(stack') : FrameOK(stack'[i])
<1>1. stack \in Seq(Frame)
  BY DEF TypeInv, TypeOK
<1>2. /\ stack' \in Seq(Frame) /\ Len(stack') = Len(stack) + 1
      /\ stack'[Len(stack) + 1] = Entered(p, msg)
      /\ stack'[Len(stack)] = Waiting(pc, key)
      /\ \A i \in 1..(Len(stack) - 1) : stack'[i] = stack[i]
  <2>1. pc \in {"enter", "cloud", "output", "poly"}
    OBVIOUS
  <2> QED
    BY <1>1, <2>1, SendStack
<1>3. FrameOK(Waiting(pc, key))
  BY TopFrame DEF FrameOK, Frame, Waiting
<1>4. \A i \in 1..(Len(stack) - 1) : FrameOK(stack'[i])
  BY <1>2, TopFrame DEF TypeInv
<1> HIDE DEF FrameOK, Frame, Message, Entered, Send
<1>5. ASSUME NEW i \in 1..Len(stack') PROVE FrameOK(stack'[i])
  <2>1. i \in 1..(Len(stack) - 1) \/ i = Len(stack) \/ i = Len(stack) + 1
    BY <1>2, <1>5, TopFrame
  <2> QED
    BY <1>2, <1>3, <1>4, <2>1
<1> QED
  BY <1>2, <1>5

\* So does a return.
LEMMA ReturnFrames ==
  ASSUME TypeInv, stack # <<>>, Return
  PROVE  /\ stack' \in Seq(Frame) /\ \A i \in 1..Len(stack') : FrameOK(stack'[i])
         /\ raised' \in BOOLEAN /\ outcome' = outcome
<1>1. stack \in Seq(Frame) /\ raised \in BOOLEAN
  BY DEF TypeInv, TypeOK
<1>2. /\ stack' \in Seq(Frame) /\ Len(stack') = Len(stack) - 1
      /\ \A i \in 1..(Len(stack) - 1) : stack'[i] = stack[i]
  BY <1>1, ReturnStack
<1>3. \A i \in 1..Len(stack') : FrameOK(stack'[i])
  BY <1>2, TopFrame DEF TypeInv
<1> QED
  BY <1>1, <1>2, <1>3 DEF Return

\* What the top of an accepted message's stack gives, in one place.
LEMMA ReceivingTop ==
  ASSUME TypeInv, NEW type \in MessageTypes, Receiving(type)
  PROVE  /\ stack # <<>> /\ outcome = "running"
         /\ Top.msg.type = type /\ Accepted(Top.at, Top.msg) /\ Top.pc = "enter"
  BY DEF Receiving, Entering, Active, Running

\* Whatever the other variables do, an exception leaves the types alone.
LEMMA ThrowTyped ==
  ASSUME TypeInv, Throw
  PROVE  TypeInv'
<1>1. \/ stack' = stack /\ raised' = raised /\ outcome' = "exit"
      \/ stack' = <<>> /\ raised' = TRUE /\ outcome' = outcome
  BY DEF Throw
<1>2. <<>> \in Seq(Frame) /\ Len(<<>>) = 0
  BY EmptySeq
<1>3. CASE stack' = stack /\ raised' = raised /\ outcome' = "exit"
  BY <1>3 DEF TypeInv, TypeOK, Throw, protocolVars
<1>4. CASE stack' = <<>> /\ raised' = TRUE /\ outcome' = outcome
  <2>1. \A i \in 1..Len(stack') : FrameOK(stack'[i])
    BY <1>2, <1>4
  <2> QED
    BY <1>2, <1>4, <2>1 DEF TypeInv, TypeOK, Throw, protocolVars
<1> QED
  BY <1>1, <1>3, <1>4

\* The calls of the application.
LEMMA CallTyped ==
  ASSUME TypeInv, NEW p \in Parties, NEW msg \in Message, Call(p, msg),
         FrameOK(Entered(p, msg))
  PROVE  /\ stack' \in Seq(Frame) /\ \A i \in 1..Len(stack') : FrameOK(stack'[i])
         /\ raised' \in BOOLEAN /\ outcome' \in {"running", "exit", "undefined"}
<1>1. stack' \in Seq(Frame) /\ Len(stack') = 1 /\ stack'[1] = Entered(p, msg)
  BY CallStack
<1>2. \A i \in 1..Len(stack') : FrameOK(stack'[i])
  BY <1>1
<1> QED
  BY <1>1, <1>2 DEF Call, TypeInv, TypeOK

\* The cloud a client finds is a server it knows, whatever the ranks are.
LEMMA FirstCloudIsCloud ==
  ASSUME NEW c \in Clients, Clouds(c) # {}
  PROVE  FirstCloud(c) \in Clouds(c)
<1> DEFINE Ranks == {Rank[s] : s \in Clouds(c)}
<1>1. Clouds(c) \subseteq Parties
  BY DEF Clouds, Parties
<1>2. Ranks \in SUBSET Nat /\ Ranks # {}
  BY <1>1, RankAssumption
<1>3. PICK n \in Ranks : \A m \in Ranks : n <= m
  BY <1>2, SmallestNat
<1>4. PICK s \in Clouds(c) : Rank[s] = n
  BY <1>3
<1>5. \E p \in Clouds(c) : \A r \in Clouds(c) : Rank[p] <= Rank[r]
  BY <1>3, <1>4
<1> QED
  BY <1>5 DEF FirstCloud

\* The helper asks its cloud.
LEMMA ClientRequestTyped ==
  ASSUME TypeInv, ReceiveClientRequest
  PROVE  TypeInv'
<1>1. Receiving("CLIENT_COMPUTATION_REQUEST") /\ Clouds(Top.at) # {}
  BY DEF ReceiveClientRequest
<1>2. /\ stack # <<>> /\ Accepted(Top.at, Top.msg)
      /\ Top.msg.type = "CLIENT_COMPUTATION_REQUEST"
  BY <1>1, ReceivingTop DEF MessageTypes
<1>3. Top.at \in Clients /\ Top.msg.from \in Clients
  BY <1>2, TopFrame, AcceptedKinds
<1> DEFINE key == sessions + 1
           data == [kind |-> "data", key |-> key]
           msg == [type |-> "CLOUD_COMPUTATION_REQUEST", from |-> Top.at, claim |-> Top.at,
                   partner |-> Top.msg.from, body |-> data]
<1>4. key \in Nat /\ data \in Body
  BY DEF TypeInv, TypeOK, Body
<1>5. FirstCloud(Top.at) \in Servers
  BY <1>1, <1>3, FirstCloudIsCloud DEF Clouds
<1>6. msg \in Message
  BY <1>3, <1>4 DEF Message, MessageTypes, Objects, Parties
<1>7. FrameOK(Entered(FirstCloud(Top.at), msg))
  BY <1>3, <1>4, <1>5, PartyAssumption DEF FrameOK, Entered
<1>8. Send("cloud", key, FirstCloud(Top.at), msg)
  BY DEF ReceiveClientRequest
<1>9. FirstCloud(Top.at) \in Parties
  BY <1>5 DEF Parties
<1>10. sessions' = key /\ heap' = heap \cup {data}
  BY DEF ReceiveClientRequest
<1> HIDE DEF msg, key, data
<1>11. stack' \in Seq(Frame) /\ \A i \in 1..Len(stack') : FrameOK(stack'[i])
  BY <1>2, <1>3, <1>4, <1>6, <1>7, <1>8, <1>9, SendFrames
<1> QED
  BY <1>4, <1>8, <1>10, <1>11 DEF TypeInv, TypeOK, ReceiveClientRequest, Send, Objects

\* The cloud sends the output of the two outsourced data sets, or is undone.
LEMMA CloudRequestTyped ==
  ASSUME TypeInv, ReceiveCloudRequest
  PROVE  TypeInv'
<1>1. Receiving("CLOUD_COMPUTATION_REQUEST")
  BY DEF ReceiveCloudRequest
<1>2. /\ stack # <<>> /\ Accepted(Top.at, Top.msg)
      /\ Top.msg.type = "CLOUD_COMPUTATION_REQUEST"
  BY <1>1, ReceivingTop DEF MessageTypes
<1>3. /\ Top.at \in Servers /\ Top.msg.from \in Clients
      /\ Top.msg.body \in Body /\ Top.msg.partner \in Clients
  BY <1>2, TopFrame, AcceptedKinds DEF FrameOK
<1> DEFINE a == Top.msg.from
           b == Top.msg.partner
           t == [kind |-> "t", key |-> Top.msg.body.key,
                 a |-> contents[stored[Top.at][a]], b |-> contents[stored[Top.at][b]]]
           msg == [type |-> "OUTPUT_COMPUTATION", from |-> Top.at, claim |-> Top.at,
                   partner |-> Null, body |-> t]
<1>4. CASE HasData(Top.at, a) /\ HasData(Top.at, b) /\ b \in known[Top.at]
  <2>1. t \in TMatrix
    <3>1. contents[stored[Top.at][a]] \in Clients /\ contents[stored[Top.at][b]] \in Clients
      BY <1>3, <1>4 DEF HasData, TypeInv, TypeOK
    <3>2. Top.msg.body.key \in Nat
      BY <1>3 DEF Body
    <3> QED
      BY <3>1, <3>2 DEF TMatrix
  <2>2. heap' = heap \cup {t} /\ Send("output", 0, b, msg)
    BY <1>4 DEF ReceiveCloudRequest
  <2>3. UNCHANGED <<known, blinded, rekeyed, contents, stored, tp, qp, setcap, sessions>>
    BY <1>4 DEF ReceiveCloudRequest
  <2> HIDE DEF t
  <2>4. msg \in Message /\ b \in Parties
    BY <1>3, <2>1 DEF Message, MessageTypes, Objects, Parties
  <2>5. FrameOK(Entered(b, msg))
    BY <1>3, <2>1, PartyAssumption DEF FrameOK, Entered
  <2> HIDE DEF msg
  <2>6. stack' \in Seq(Frame) /\ \A i \in 1..Len(stack') : FrameOK(stack'[i])
    BY <1>2, <2>2, <2>4, <2>5, SendFrames
  <2> QED
    BY <2>1, <2>2, <2>3, <2>6 DEF TypeInv, TypeOK, Send, Objects
<1>5. CASE ~(HasData(Top.at, a) /\ HasData(Top.at, b) /\ b \in known[Top.at])
  <2>1. Undefined
    BY <1>5 DEF ReceiveCloudRequest
  <2> QED
    BY <2>1 DEF Undefined, TypeInv, TypeOK, protocolVars
<1> QED
  BY <1>4, <1>5

\* The helper sends its polynomial.
LEMMA PolynomialSentTyped ==
  ASSUME TypeInv, SendPolynomial
  PROVE  TypeInv'
<1>1. stack # <<>> /\ Top.pc = "cloud"
  BY DEF SendPolynomial, Active
<1>2. Top.at \in Clients /\ Top.msg.from \in Clients /\ Top.key \in Nat
  BY <1>1, TopFrame DEF FrameOK
<1> DEFINE qOf(read) ==
             [kind |-> "q", key |-> Top.key, a |-> Top.at, b |-> Top.msg.from,
              exact |-> read /\ Top.at \notin rekeyed /\ Top.msg.from \notin rekeyed]
           msgOf(q) == [type |-> "POLYNOMIAL", from |-> Top.at, claim |-> Top.at,
                        partner |-> Null, body |-> q]
<1>3. PICK read \in ReadsSecret(SecretLen[Top.msg.from]) :
        /\ heap' = heap \cup {qOf(read)}
        /\ qp' = [qp EXCEPT ![Top.at] = qOf(read)]
        /\ Send("poly", Top.key, Top.msg.from, msgOf(qOf(read)))
  BY DEF SendPolynomial
<1> DEFINE q == qOf(read)
           msg == msgOf(q)
<1>4. q \in QMatrix
  <2>1. (read /\ Top.at \notin rekeyed /\ Top.msg.from \notin rekeyed) \in BOOLEAN
    OBVIOUS
  <2> HIDE DEF ReadsSecret
  <2> QED
    BY <1>2, <2>1 DEF QMatrix
<1>5. /\ heap' = heap \cup {q} /\ qp' = [qp EXCEPT ![Top.at] = q]
      /\ Send("poly", Top.key, Top.msg.from, msg)
  BY <1>3
<1> HIDE DEF q
<1>6. msg \in Message
  BY <1>2, <1>4 DEF Message, MessageTypes, Objects, Parties
<1>7. FrameOK(Entered(Top.msg.from, msg))
  BY <1>2, <1>4, PartyAssumption DEF FrameOK, Entered
<1> HIDE DEF msg
<1>8. Top.msg.from \in Parties
  BY <1>1, TopFrame
<1>9. stack' \in Seq(Frame) /\ \A i \in 1..Len(stack') : FrameOK(stack'[i])
  BY <1>1, <1>2, <1>5, <1>6, <1>7, <1>8, SendFrames
<1>10. UNCHANGED <<known, blinded, rekeyed, contents, stored, tp, setcap, sessions>>
  BY DEF SendPolynomial
<1> QED
  BY <1>2, <1>4, <1>5, <1>9, <1>10 DEF TypeInv, TypeOK, Send, Objects

\* intersect() gives a set of numbers, and releases memory.
LEMMA IntersectTyped ==
  ASSUME TypeInv, stack # <<>>,
         NEW c \in Clients, NEW q \in QMatrix, NEW t \in TMatrix, Intersect(c, q, t)
  PROVE  /\ setcap' \in [Clients -> [clean : BOOLEAN, set : SUBSET Nat]]
         /\ heap' \subseteq Objects
         /\ stack' \in Seq(Frame) /\ \A i \in 1..Len(stack') : FrameOK(stack'[i])
         /\ raised' \in BOOLEAN /\ outcome' \in {"running", "exit", "undefined"}
<1>1. CASE {q, t} \subseteq heap
  <2>1. Answer(q, t) \in [clean : BOOLEAN, set : SUBSET Nat]
    <3>1. Found(q.a, q.b) \in SUBSET Nat
      BY DataAssumption DEF Found, QMatrix
    <3> QED
      BY <3>1 DEF Answer, NoAnswer
  <2>2. /\ setcap' = [setcap EXCEPT ![c] = Answer(q, t)]
        /\ heap' = heap \ {q, t} /\ Return
    BY <1>1 DEF Intersect
  <2> HIDE DEF Answer
  <2>3. setcap' \in [Clients -> [clean : BOOLEAN, set : SUBSET Nat]]
    BY <2>1, <2>2 DEF TypeInv, TypeOK
  <2> QED
    BY <2>2, <2>3, ReturnFrames DEF TypeInv, TypeOK
<1>2. CASE ~({q, t} \subseteq heap)
  BY <1>2 DEF Intersect, TypeInv, TypeOK
<1> QED
  BY <1>1, <1>2

\* The requester keeps the output, and intersects if it has a polynomial.
LEMMA OutputTyped ==
  ASSUME TypeInv, ReceiveOutput
  PROVE  TypeInv'
<1>1. Receiving("OUTPUT_COMPUTATION")
  BY DEF ReceiveOutput
<1>2. /\ stack # <<>> /\ Accepted(Top.at, Top.msg) /\ Top.msg.type = "OUTPUT_COMPUTATION"
  BY <1>1, ReceivingTop DEF MessageTypes
<1>3. Top.at \in Clients /\ Top.msg.body \in TMatrix
  BY <1>2, TopFrame, AcceptedKinds DEF FrameOK
<1>4. /\ tp' = [tp EXCEPT ![Top.at] = Top.msg.body]
      /\ UNCHANGED <<known, blinded, rekeyed, contents, stored, qp, sessions>>
  BY DEF ReceiveOutput
<1>5. tp' \in [Clients -> TMatrix \cup {Null}]
  BY <1>3, <1>4 DEF TypeInv, TypeOK
<1>6. CASE qp[Top.at] = Null
  <2>1. Return /\ UNCHANGED <<setcap, heap>>
    BY <1>6 DEF ReceiveOutput
  <2> QED
    BY <1>2, <1>4, <1>5, <2>1, ReturnFrames DEF TypeInv, TypeOK
<1>7. CASE qp[Top.at] # Null
  <2>1. Intersect(Top.at, qp[Top.at], Top.msg.body)
    BY <1>7 DEF ReceiveOutput
  <2>2. qp[Top.at] \in QMatrix
    BY <1>3, <1>7 DEF TypeInv, TypeOK
  <2> QED
    BY <1>2, <1>3, <1>4, <1>5, <2>1, <2>2, IntersectTyped DEF TypeInv, TypeOK
<1> QED
  BY <1>6, <1>7

\* The requester keeps the polynomial, and intersects if it has an output.
LEMMA PolynomialTyped ==
  ASSUME TypeInv, ReceivePolynomial
  PROVE  TypeInv'
<1>1. Receiving("POLYNOMIAL")
  BY DEF ReceivePolynomial
<1>2. /\ stack # <<>> /\ Accepted(Top.at, Top.msg) /\ Top.msg.type = "POLYNOMIAL"
  BY <1>1, ReceivingTop DEF MessageTypes
<1>3. Top.at \in Clients /\ Top.msg.body \in QMatrix
  BY <1>2, TopFrame, AcceptedKinds DEF FrameOK
<1>4. /\ qp' = [qp EXCEPT ![Top.at] = Top.msg.body]
      /\ UNCHANGED <<known, blinded, rekeyed, contents, stored, tp, sessions>>
  BY DEF ReceivePolynomial
<1>5. qp' \in [Clients -> QMatrix \cup {Null}]
  BY <1>3, <1>4 DEF TypeInv, TypeOK
<1>6. CASE tp[Top.at] = Null
  <2>1. Return /\ UNCHANGED <<setcap, heap>>
    BY <1>6 DEF ReceivePolynomial
  <2> QED
    BY <1>2, <1>4, <1>5, <2>1, ReturnFrames DEF TypeInv, TypeOK
<1>7. CASE tp[Top.at] # Null
  <2>1. Intersect(Top.at, Top.msg.body, tp[Top.at])
    BY <1>7 DEF ReceivePolynomial
  <2>2. tp[Top.at] \in TMatrix
    BY <1>3, <1>7 DEF TypeInv, TypeOK
  <2> QED
    BY <1>2, <1>3, <1>4, <1>5, <2>1, <2>2, IntersectTyped DEF TypeInv, TypeOK
<1> QED
  BY <1>6, <1>7

\* The cloud keeps the pointer to a client's message.
LEMMA OutsourcingTyped ==
  ASSUME TypeInv, ReceiveOutsourcing
  PROVE  TypeInv'
<1>1. Receiving("OUTSOURCING_DATA")
  BY DEF ReceiveOutsourcing
<1>2. /\ stack # <<>> /\ Accepted(Top.at, Top.msg) /\ Top.msg.type = "OUTSOURCING_DATA"
  BY <1>1, ReceivingTop DEF MessageTypes
<1>3. Top.at \in Servers /\ Top.msg.from \in Clients /\ Top.msg.body \in Envelopes
  BY <1>2, TopFrame, AcceptedKinds DEF FrameOK
<1>4. /\ stored' = [stored EXCEPT ![Top.at][Top.msg.from] = Top.msg.body]
      /\ Return
      /\ UNCHANGED <<known, blinded, rekeyed, contents, tp, qp, setcap, heap, sessions>>
  BY DEF ReceiveOutsourcing
<1>5. stored' \in [Servers -> [Clients -> Envelopes \cup {Null}]]
  BY <1>3, <1>4 DEF TypeInv, TypeOK
<1> QED
  BY <1>2, <1>4, <1>5, ReturnFrames DEF TypeInv, TypeOK

\* The two steps that only return, and release at most the request data.
LEMMA ReturnsTyped ==
  ASSUME TypeInv, DeleteRequestData \/ ReturnToApplication
  PROVE  TypeInv'
<1>1. /\ stack # <<>> /\ Return /\ heap' \subseteq heap
      /\ UNCHANGED <<known, blinded, rekeyed, contents, stored, tp, qp, setcap, sessions>>
  BY DEF DeleteRequestData, ReturnToApplication, Active, protocolVars
<1> QED
  BY <1>1, ReturnFrames DEF TypeInv, TypeOK

\* The steps that end the process or throw.
LEMMA RefusalsTyped ==
  ASSUME TypeInv, ReceiveRejected \/ ReceiveUnknownSender \/ ReceiveClientRequestNoCloud
  PROVE  TypeInv'
<1>1. CASE ReceiveRejected
  BY <1>1, ThrowTyped DEF ReceiveRejected
<1>2. CASE ReceiveUnknownSender
  BY <1>2 DEF ReceiveUnknownSender, Undefined, TypeInv, TypeOK, protocolVars
<1>3. CASE ReceiveClientRequestNoCloud
  BY <1>3 DEF ReceiveClientRequestNoCloud, Exit, TypeInv, TypeOK, protocolVars
<1> QED
  BY <1>1, <1>2, <1>3

\* What the application does between two calls of send().
LEMMA SettingsTyped ==
  ASSUME TypeInv,
         \/ \E pair \in Pairs : Authenticate(pair[1], pair[2])
         \/ AuthenticateAll
         \/ \E c \in Clients : SetRawData(c) \/ SetSecret(c)
  PROVE  TypeInv'
<1>1. CASE \E pair \in Pairs : Authenticate(pair[1], pair[2])
  <2>1. PICK pair \in Pairs : Authenticate(pair[1], pair[2])
    BY <1>1
  <2>2. pair[1] \in Parties /\ pair[2] \in Parties
    BY PairsAssumption
  <2>3. known' \in [Parties -> SUBSET Parties]
    BY <2>1, <2>2 DEF Authenticate, TypeInv, TypeOK
  <2> QED
    BY <2>1, <2>3 DEF Authenticate, TypeInv, TypeOK
<1>2. CASE AuthenticateAll
  BY <1>2 DEF AuthenticateAll, TypeInv, TypeOK
<1>3. ASSUME NEW c \in Clients, SetRawData(c) PROVE TypeInv'
  BY <1>3 DEF SetRawData, Exit, TypeInv, TypeOK
<1>4. ASSUME NEW c \in Clients, SetSecret(c) PROVE TypeInv'
  BY <1>4 DEF SetSecret, TypeInv, TypeOK
<1> QED
  BY <1>1, <1>2, <1>3, <1>4

\* A client outsources its data with a message of the application.
LEMMA OutsourceTyped ==
  ASSUME TypeInv, NEW c \in Clients, NEW s \in Servers, NEW m \in Envelopes, Outsource(c, s, m)
  PROVE  TypeInv'
<1> DEFINE msg == [type |-> "OUTSOURCING_DATA", from |-> c, claim |-> c, partner |-> Null, body |-> m]
<1>1. /\ contents' = [contents EXCEPT ![m] = IF c \in blinded THEN c ELSE Null]
      /\ Call(s, msg)
      /\ UNCHANGED <<known, blinded, rekeyed, stored, tp, qp, setcap, heap, sessions>>
  BY DEF Outsource
<1>2. msg \in Message /\ s \in Parties
  BY DEF Message, MessageTypes, Parties
<1>3. FrameOK(Entered(s, msg))
  BY PartyAssumption DEF FrameOK, Entered
<1>4. contents' \in [Envelopes -> Clients \cup {Null}]
  BY <1>1 DEF TypeInv, TypeOK
<1> HIDE DEF msg
<1> QED
  BY <1>1, <1>2, <1>3, <1>4, CallTyped DEF TypeInv, TypeOK

\* A client asks another one.
LEMMA RequestTyped ==
  ASSUME TypeInv, NEW c \in Clients, NEW d \in Clients, Request(c, d)
  PROVE  TypeInv'
<1> DEFINE msg == [type |-> "CLIENT_COMPUTATION_REQUEST", from |-> c, claim |-> c,
                   partner |-> Null, body |-> Null]
<1>1. Call(d, msg) /\ UNCHANGED protocolVars
  BY DEF Request
<1>2. msg \in Message /\ d \in Parties
  BY DEF Message, MessageTypes, Parties
<1>3. FrameOK(Entered(d, msg))
  BY DEF FrameOK, Entered
<1> HIDE DEF msg
<1> QED
  BY <1>1, <1>2, <1>3, CallTyped DEF TypeInv, TypeOK, protocolVars

\* A message out of place carries nothing, and never a type that must.
LEMMA MisplacedTyped ==
  ASSUME TypeInv, NEW p \in Parties, NEW r \in Parties, NEW claim \in Parties,
         NEW type \in MessageTypes, SendMisplaced(p, r, type, claim)
  PROVE  TypeInv'
<1> DEFINE msg == [type |-> type, from |-> p, claim |-> claim, partner |-> Null, body |-> Null]
<1>1. Call(r, msg) /\ UNCHANGED protocolVars /\ Misplaced(p, r, type, claim)
  BY DEF SendMisplaced
<1>2. msg \in Message
  BY DEF Message
<1>3. FrameOK(Entered(r, msg))
  BY <1>1, PartyAssumption DEF FrameOK, Entered, Misplaced
<1> HIDE DEF msg
<1> QED
  BY <1>1, <1>2, <1>3, CallTyped DEF TypeInv, TypeOK, protocolVars

\* Every step keeps the types.
LEMMA NextTyped ==
  ASSUME TypeInv, [Next]_vars
  PROVE  TypeInv'
<1>1. CASE Handle
  BY <1>1, ClientRequestTyped, CloudRequestTyped, PolynomialSentTyped, OutputTyped,
     PolynomialTyped, OutsourcingTyped, ReturnsTyped, RefusalsTyped DEF Handle
<1>2. CASE Application
  BY <1>2, SettingsTyped, OutsourceTyped, RequestTyped, MisplacedTyped DEF Application
<1>3. CASE UNCHANGED vars
  BY <1>3 DEF vars, TypeInv, TypeOK
<1> QED
  BY <1>1, <1>2, <1>3 DEF Next

\* The initial state is typed.
LEMMA InitTyped == Init => TypeInv
<1> SUFFICES ASSUME Init PROVE TypeInv
  OBVIOUS
<1>1. <<>> \in Seq(Frame) /\ Len(<<>>) = 0
  BY EmptySeq
<1>2. NoAnswer \in [clean : BOOLEAN, set : SUBSET Nat]
  BY DEF NoAnswer
<1>3. setcap \in [Clients -> [clean : BOOLEAN, set : SUBSET Nat]]
  BY <1>2 DEF Init
<1>4. /\ known \in [Parties -> SUBSET Parties]
      /\ contents \in [Envelopes -> Clients \cup {Null}]
      /\ stored \in [Servers -> [Clients -> Envelopes \cup {Null}]]
      /\ tp \in [Clients -> TMatrix \cup {Null}]
      /\ qp \in [Clients -> QMatrix \cup {Null}]
  BY DEF Init
<1>5. /\ stack \in Seq(Frame) /\ Len(stack) = 0
      /\ blinded \subseteq Clients /\ rekeyed \subseteq Clients /\ heap \subseteq Objects
      /\ sessions \in Nat /\ raised \in BOOLEAN /\ outcome \in {"running", "exit", "undefined"}
  BY <1>1 DEF Init
<1>6. \A i \in 1..Len(stack) : FrameOK(stack[i])
  BY <1>5
<1> QED
  BY <1>3, <1>4, <1>5, <1>6 DEF TypeInv, TypeOK

\* The variables keep their types, and every frame its shape, whatever the
\* application does: whatever it promises, and whoever it authenticates.
THEOREM TypeCorrect == Spec => []TypeOK
<1>1. Init => TypeInv
  BY InitTyped
<1>2. TypeInv /\ [Next]_vars => TypeInv'
  BY NextTyped
<1>3. TypeInv => TypeOK
  BY DEF TypeInv
<1> QED
  BY <1>1, <1>2, <1>3, PTL DEF Spec

-----------------------------------------------------------------------------
(* What holds for every application *)

\* The frame on top says which code runs.
LEMMA Dispatch ==
  ASSUME Handle
  PROVE  /\ outcome = "running" /\ stack # <<>>
         /\ Top.pc = "cloud" => SendPolynomial
         /\ Top.pc = "poly" => ReturnToApplication
         /\ Top.pc = "output" => DeleteRequestData
         /\ Top.pc = "enter" =>
              /\ Accepted(Top.at, Top.msg) =>
                   /\ Top.msg.type = "CLIENT_COMPUTATION_REQUEST" =>
                        ReceiveClientRequest \/ ReceiveClientRequestNoCloud
                   /\ Top.msg.type = "CLOUD_COMPUTATION_REQUEST" => ReceiveCloudRequest
                   /\ Top.msg.type = "OUTSOURCING_DATA" => ReceiveOutsourcing
                   /\ Top.msg.type = "OUTPUT_COMPUTATION" => ReceiveOutput
                   /\ Top.msg.type = "POLYNOMIAL" => ReceivePolynomial
              /\ ~Accepted(Top.at, Top.msg) => ReceiveRejected \/ ReceiveUnknownSender
<1>1. ReceiveUnknownSender => ~Accepted(Top.at, Top.msg) /\ Top.pc = "enter"
  BY PartyAssumption DEF ReceiveUnknownSender, DereferencesUnknownSender, Accepted, ClientAuthorises,
     ServerAuthorises, Entering
<1>2. ReceiveRejected => ~Accepted(Top.at, Top.msg) /\ Top.pc = "enter"
  BY DEF ReceiveRejected, Entering
<1>3. Active
  BY DEF Handle, ReceiveRejected, ReceiveUnknownSender, ReceiveClientRequest,
     ReceiveClientRequestNoCloud, SendPolynomial, ReturnToApplication, ReceiveOutput,
     ReceivePolynomial, ReceiveOutsourcing, ReceiveCloudRequest, DeleteRequestData,
     Receiving, Entering
<1>4. /\ ReceiveClientRequest \/ ReceiveClientRequestNoCloud => Receiving("CLIENT_COMPUTATION_REQUEST")
      /\ ReceiveCloudRequest => Receiving("CLOUD_COMPUTATION_REQUEST")
      /\ ReceiveOutsourcing => Receiving("OUTSOURCING_DATA")
      /\ ReceiveOutput => Receiving("OUTPUT_COMPUTATION")
      /\ ReceivePolynomial => Receiving("POLYNOMIAL")
      /\ SendPolynomial => Top.pc = "cloud"
      /\ ReturnToApplication => Top.pc = "poly"
      /\ DeleteRequestData => Top.pc = "output"
  BY DEF ReceiveClientRequest, ReceiveClientRequestNoCloud, SendPolynomial, ReturnToApplication,
     ReceiveOutput, ReceivePolynomial, ReceiveOutsourcing, ReceiveCloudRequest, DeleteRequestData
<1>5. \A type : Receiving(type) => Top.pc = "enter" /\ Accepted(Top.at, Top.msg) /\ Top.msg.type = type
  BY DEF Receiving, Entering
<1> QED
  BY <1>1, <1>2, <1>3, <1>4, <1>5 DEF Handle, Active, Running

\* No party accepts a message out of place.
LEMMA MisplacedRefused ==
  ASSUME NEW p \in Parties, NEW r \in Parties, NEW claim \in Parties, NEW msg \in Message,
         msg.from = p, msg.claim = claim, Misplaced(p, r, msg.type, claim)
  PROVE  ~Accepted(r, msg)
<1>1. p \in Clients \cup Servers /\ r \in Clients \cup Servers
  BY DEF Parties
<1> QED
  BY <1>1, PartyAssumption DEF Misplaced, Accepted, ClientAuthorises, ServerAuthorises, Refused

\* A server knows whoever it holds data of.
LEMMA StoredKnownKept ==
  ASSUME TypeInv, StoredAreKnown, [Next]_vars
  PROVE  StoredAreKnown'
<1>1. CASE ReceiveOutsourcing
  <2>1. /\ stack # <<>> /\ Accepted(Top.at, Top.msg) /\ Top.msg.type = "OUTSOURCING_DATA"
    BY <1>1, ReceivingTop DEF MessageTypes, ReceiveOutsourcing
  <2>2. Top.at \in Servers /\ Top.msg.from \in Clients
    BY <2>1, TopFrame, AcceptedKinds
  <2>3. Top.msg.from \in known[Top.at]
    BY <2>1, <2>2 DEF Accepted, ServerAuthorises, HasAuthenticated
  <2>4. /\ stored' = [stored EXCEPT ![Top.at][Top.msg.from] = Top.msg.body]
        /\ known' = known
    BY <1>1 DEF ReceiveOutsourcing
  <2> QED
    BY <2>2, <2>3, <2>4 DEF StoredAreKnown, TypeInv, TypeOK
<1>2. CASE Handle /\ ~ReceiveOutsourcing
  <2>1. UNCHANGED <<known, stored>>
    BY <1>2 DEF Handle, ReceiveRejected, ReceiveUnknownSender, ReceiveClientRequest,
       ReceiveClientRequestNoCloud, SendPolynomial, ReturnToApplication, ReceiveOutput,
       ReceivePolynomial, ReceiveCloudRequest, DeleteRequestData, Throw, Undefined, protocolVars
  <2> QED
    BY <2>1 DEF StoredAreKnown
<1>3. CASE \E pair \in Pairs : Authenticate(pair[1], pair[2])
  <2>1. PICK p, r \in Parties : known' = [known EXCEPT ![p] = @ \cup {r}] /\ stored' = stored
    BY <1>3, PairsAssumption DEF Authenticate
  <2>2. \A x \in Parties : known[x] \subseteq known'[x]
    BY <2>1 DEF TypeInv, TypeOK
  <2> QED
    BY <2>1, <2>2 DEF StoredAreKnown, Parties
<1>4. CASE AuthenticateAll
  <2>1. known' = [p \in Parties |-> Parties \ {p}] /\ stored' = stored
    BY <1>4 DEF AuthenticateAll
  <2> QED
    BY <2>1, PartyAssumption DEF StoredAreKnown, Parties
<1>5. CASE \/ \E c \in Clients : SetRawData(c) \/ SetSecret(c)
           \/ \E c \in Clients, s \in Servers, m \in Envelopes : Outsource(c, s, m)
           \/ \E c, d \in Clients : Request(c, d)
           \/ \E p, r, claim \in Parties, type \in MessageTypes : SendMisplaced(p, r, type, claim)
           \/ UNCHANGED vars
  <2>1. UNCHANGED <<known, stored>>
    BY <1>5 DEF SetRawData, SetSecret, Outsource, Request, SendMisplaced, protocolVars, vars
  <2> QED
    BY <2>1 DEF StoredAreKnown
<1> QED
  BY <1>1, <1>2, <1>3, <1>4, <1>5 DEF Next, Application

\* Whoever has data stored at a server is a party the server knows: however the
\* calls are ordered, the look-up of a partner whose data was found succeeds.
THEOREM StoredKnown == Spec => []StoredAreKnown
<1>1. Init => TypeInv /\ StoredAreKnown
  BY InitTyped DEF Init, StoredAreKnown
<1>2. TypeInv /\ StoredAreKnown /\ [Next]_vars => TypeInv' /\ StoredAreKnown'
  BY NextTyped, StoredKnownKept
<1> QED
  BY <1>1, <1>2, PTL DEF Spec

\* A message the protocol has no place for changes nothing at any party, from
\* whatever state, and even when it ends in undefined behaviour.
THEOREM MisplacedIneffective == Spec => MisplacedHasNoEffect
<1>1. Init => TypeInv
  BY InitTyped
<1>2. TypeInv /\ [Next]_vars => TypeInv'
  BY NextTyped
<1>3. ASSUME TypeInv, Next, Entering,
             Misplaced(Top.msg.from, Top.at, Top.msg.type, Top.msg.claim)
      PROVE  UNCHANGED protocolVars
  <2>1. stack # <<>> /\ Top.pc = "enter"
    BY <1>3 DEF Entering, Active
  <2>2. ~Application
    BY <2>1 DEF Application, Authenticate, AuthenticateAll, SetRawData, SetSecret, Outsource,
       Request, SendMisplaced, Idle
  <2>3. ~Accepted(Top.at, Top.msg)
    <3>1. Top.at \in Parties /\ Top.msg \in Message /\ Top.msg.from \in Parties
      BY <1>3, <2>1, TopFrame
    <3>2. Top.msg.claim \in Parties
      BY <3>1 DEF Message
    <3> QED
      BY <1>3, <3>1, <3>2, MisplacedRefused
  <2>4. ReceiveRejected \/ ReceiveUnknownSender
    BY <1>3, <2>1, <2>2, <2>3, Dispatch DEF Next
  <2> QED
    BY <2>4 DEF ReceiveRejected, ReceiveUnknownSender, Throw, Undefined
<1>4. TypeInv /\ [Next]_vars =>
        [Entering /\ Misplaced(Top.msg.from, Top.at, Top.msg.type, Top.msg.claim) =>
           UNCHANGED protocolVars]_vars
  BY <1>3
<1> QED
  BY <1>1, <1>2, <1>4, PTL DEF Spec, MisplacedHasNoEffect

-----------------------------------------------------------------------------
(***************************************************************************)
(* What the parties guarantee an application that keeps every promise, for   *)
(* every set of clients, servers and envelopes, every data and secret, and   *)
(* every number of sessions.                                                 *)
(***************************************************************************)

-----------------------------------------------------------------------------
(* Short stacks *)

\* The top of a stack of one, two or three frames.
LEMMA ShortStack ==
  /\ \A x : stack = <<x>> => stack # <<>> /\ Len(stack) = 1 /\ Top = x /\ stack[1] = x
  /\ \A x, y : stack = <<x, y>> => stack # <<>> /\ Len(stack) = 2 /\ Top = y /\ stack[1] = x
  /\ \A x, y, z : stack = <<x, y, z>> =>
       stack # <<>> /\ Len(stack) = 3 /\ Top = z /\ stack[1] = x /\ stack[2] = y
  BY DEF Top

\* A sequence of at most three elements, written out.
LEMMA ShortSeq ==
  ASSUME NEW S, NEW s \in Seq(S)
  PROVE  /\ Len(s) = 0 => s = <<>>
         /\ Len(s) = 1 => s = <<s[1]>>
         /\ Len(s) = 2 => s = <<s[1], s[2]>>
         /\ Len(s) = 3 => s = <<s[1], s[2], s[3]>>
<1>1. Len(s) = 0 => s = <<>>
  BY SeqEqual, EmptySeq
<1>2. ASSUME Len(s) = 1 PROVE s = <<s[1]>>
  <2>1. s[1] \in S
    BY <1>2, ElementOfSeq
  <2>2. <<s[1]>> \in Seq(S) /\ Len(<<s[1]>>) = 1 /\ \A i \in 1..1 : <<s[1]>>[i] = s[i]
    BY <2>1
  <2> QED
    BY <1>2, <2>2, SeqEqual
<1>3. ASSUME Len(s) = 2 PROVE s = <<s[1], s[2]>>
  <2> DEFINE x == s[1]
             y == s[2]
  <2>1. \A i \in 1..2 : s[i] \in S
    BY <1>3, ElementOfSeq
  <2>2. x \in S /\ y \in S
    BY <2>1
  <2> HIDE DEF x, y
  <2>3. /\ <<x, y>> \in Seq(S) /\ Len(<<x, y>>) = 2
        /\ \A i \in 1..2 : \/ i = 1 /\ <<x, y>>[i] = x
                           \/ i = 2 /\ <<x, y>>[i] = y
    BY <2>2
  <2>4. \A i \in 1..2 : <<x, y>>[i] = s[i]
    BY <2>3 DEF x, y
  <2>5. s = <<x, y>>
    BY <1>3, <2>3, <2>4, SeqEqual
  <2> QED
    BY <2>5 DEF x, y
<1>4. ASSUME Len(s) = 3 PROVE s = <<s[1], s[2], s[3]>>
  <2> DEFINE x == s[1]
             y == s[2]
             z == s[3]
  <2>1. \A i \in 1..3 : s[i] \in S
    BY <1>4, ElementOfSeq
  <2>2. x \in S /\ y \in S /\ z \in S
    BY <2>1
  <2> HIDE DEF x, y, z
  <2>3. /\ <<x, y, z>> \in Seq(S) /\ Len(<<x, y, z>>) = 3
        /\ \A i \in 1..3 : \/ i = 1 /\ <<x, y, z>>[i] = x
                           \/ i = 2 /\ <<x, y, z>>[i] = y
                           \/ i = 3 /\ <<x, y, z>>[i] = z
    BY <2>2
  <2>4. \A i \in 1..3 : <<x, y, z>>[i] = s[i]
    BY <2>3 DEF x, y, z
  <2>5. s = <<x, y, z>>
    BY <1>4, <2>3, <2>4, SeqEqual
  <2> QED
    BY <2>5 DEF x, y, z
<1> QED
  BY <1>1, <1>2, <1>3, <1>4

\* A send from a stack of one or two frames.
LEMMA ShortSend ==
  ASSUME stack \in Seq(Frame),
         NEW pc \in {"enter", "cloud", "output", "poly"}, NEW key \in Nat,
         NEW p \in Parties, NEW msg \in Message, Send(pc, key, p, msg)
  PROVE  /\ \A x : stack = <<x>> => stack' = <<Waiting(pc, key), Entered(p, msg)>>
         /\ \A x, y : stack = <<x, y>> => stack' = <<x, Waiting(pc, key), Entered(p, msg)>>
         /\ UNCHANGED <<raised, outcome>>
<1>1. stack # <<>> =>
        /\ stack' \in Seq(Frame)
        /\ Len(stack') = Len(stack) + 1
        /\ stack'[Len(stack) + 1] = Entered(p, msg)
        /\ stack'[Len(stack)] = Waiting(pc, key)
        /\ \A i \in 1..(Len(stack) - 1) : stack'[i] = stack[i]
  BY SendStack
<1> DEFINE w == Waiting(pc, key)
           e == Entered(p, msg)
<1> HIDE DEF w, e
<1>2. ASSUME NEW x, stack = <<x>> PROVE stack' = <<w, e>>
  <2>1. stack' \in Seq(Frame) /\ Len(stack') = 2 /\ stack'[2] = e /\ stack'[1] = w
    BY <1>1, <1>2, ShortStack DEF w, e
  <2> QED
    BY <2>1, ShortSeq
<1>3. ASSUME NEW x, NEW y, stack = <<x, y>> PROVE stack' = <<x, w, e>>
  <2>1. /\ stack' \in Seq(Frame) /\ Len(stack') = 3 /\ stack'[3] = e /\ stack'[2] = w
        /\ stack'[1] = x
    BY <1>1, <1>3, ShortStack DEF w, e
  <2> QED
    BY <2>1, ShortSeq
<1> QED
  BY <1>2, <1>3 DEF w, e, Send

\* A return from a stack of one, two or three frames.
LEMMA ShortReturn ==
  ASSUME stack \in Seq(Frame), Return
  PROVE  /\ \A x : stack = <<x>> => stack' = <<>>
         /\ \A x, y : stack = <<x, y>> => stack' = <<x>>
         /\ \A x, y, z : stack = <<x, y, z>> => stack' = <<x, y>>
         /\ UNCHANGED outcome
<1>1. stack # <<>> =>
        /\ stack' \in Seq(Frame)
        /\ Len(stack') = Len(stack) - 1
        /\ \A i \in 1..(Len(stack) - 1) : stack'[i] = stack[i]
  BY ReturnStack
<1>2. ASSUME NEW x, stack = <<x>> PROVE stack' = <<>>
  <2>1. stack' \in Seq(Frame) /\ Len(stack') = 0
    BY <1>1, <1>2, ShortStack
  <2> QED
    BY <2>1, ShortSeq
<1>3. ASSUME NEW x, NEW y, stack = <<x, y>> PROVE stack' = <<x>>
  <2>1. Len(stack) = 2 /\ stack # <<>> /\ stack[1] = x
    BY <1>3, ShortStack
  <2>2. stack' \in Seq(Frame) /\ Len(stack') = 1 /\ stack'[1] = x
    BY <1>1, <2>1
  <2> QED
    BY <2>2, ShortSeq
<1>4. ASSUME NEW x, NEW y, NEW z, stack = <<x, y, z>> PROVE stack' = <<x, y>>
  <2>1. Len(stack) = 3 /\ stack # <<>> /\ stack[1] = x /\ stack[2] = y
    BY <1>4, ShortStack
  <2>2. stack' \in Seq(Frame) /\ Len(stack') = 2 /\ stack'[1] = x /\ stack'[2] = y
    BY <1>1, <2>1
  <2> QED
    BY <2>2, ShortSeq
<1> QED
  BY <1>2, <1>3, <1>4 DEF Return

\* A session stays possible while nobody authenticates or outsources.
LEMMA SessionKept ==
  ASSUME NEW a, NEW b, Session(a, b), UNCHANGED <<known, contents, stored>>
  PROVE  Session(a, b)' /\ FirstCloud(a)' = FirstCloud(a)
<1>1. Clouds(a)' = Clouds(a) /\ FirstCloud(a)' = FirstCloud(a)
  BY DEF Clouds, FirstCloud
<1> QED
  BY <1>1 DEF Session, HasData

\* The cloud of a session is a server.
LEMMA SessionCloud ==
  ASSUME NEW a \in Clients, NEW b \in Clients, TypeInv, Session(a, b)
  PROVE  FirstCloud(a) \in Servers /\ FirstCloud(a) \in Clouds(a) /\ FirstCloud(a) \in known[b]
  BY FirstCloudIsCloud DEF Session, Clouds

\* The messages and objects of a session have their types.
LEMMA SessionTypes ==
  ASSUME NEW a \in Clients, NEW b \in Clients, NEW s \in Servers, NEW key \in Nat
  PROVE  /\ D(key) \in Body /\ T(key, a, b) \in TMatrix /\ Q(key, a, b) \in QMatrix
         /\ RequestMsg(b) \in Message
         /\ CloudMsg(a, b, D(key)) \in Message
         /\ OutputMsg(s, T(key, a, b)) \in Message
         /\ PolynomialMsg(a, Q(key, a, b)) \in Message
         /\ a \in Parties /\ b \in Parties /\ s \in Parties
<1>1. D(key) \in Body
  BY DEF D, Body
<1>2. T(key, a, b) \in TMatrix
  BY DEF T, TMatrix
<1>3. Q(key, a, b) \in QMatrix
  BY DEF Q, QMatrix
<1>4. a \in Parties /\ b \in Parties /\ s \in Parties
  BY DEF Parties
<1>5. RequestMsg(b) \in Message
  BY <1>4 DEF RequestMsg, Message, MessageTypes
<1>6. CloudMsg(a, b, D(key)) \in Message
  BY <1>1, <1>4 DEF CloudMsg, Message, MessageTypes, Objects
<1>7. OutputMsg(s, T(key, a, b)) \in Message
  BY <1>2, <1>4 DEF OutputMsg, Message, MessageTypes, Objects
<1>8. PolynomialMsg(a, Q(key, a, b)) \in Message
  BY <1>3, <1>4 DEF PolynomialMsg, Message, MessageTypes, Objects
<1> QED
  BY <1>1, <1>2, <1>3, <1>4, <1>5, <1>6, <1>7, <1>8

\* The helper takes the request on, and asks its cloud.
LEMMA RequestedStep ==
  ASSUME TypeInv, NEW a \in Clients, NEW b \in Clients, Session(a, b), Requested(a, b), Handle
  PROVE  /\ AtCloud(a, b, sessions)'
         /\ UNCHANGED <<known, rekeyed, contents, stored, setcap, outcome>>
<1>1. stack = <<Entered(a, RequestMsg(b))>> /\ Top = Entered(a, RequestMsg(b))
  BY ShortStack DEF Requested
<1>2. /\ Top.at = a /\ Top.pc = "enter" /\ Top.msg = RequestMsg(b) /\ Top.msg.from = b
      /\ Top.msg.type = "CLIENT_COMPUTATION_REQUEST" /\ Top.msg.claim = b
  BY <1>1 DEF Entered, RequestMsg
<1>3. Accepted(Top.at, Top.msg)
  BY <1>2, PartyAssumption DEF Accepted, ClientAuthorises, HasAuthenticated, Refused, Session
<1>4. ReceiveClientRequest
  <2>1. ~ReceiveClientRequestNoCloud
    BY <1>2 DEF ReceiveClientRequestNoCloud, Session
  <2> QED
    BY <1>2, <1>3, <2>1, Dispatch
<1> DEFINE key == sessions + 1
           s == FirstCloud(a)
<1>5. key \in Nat
  BY DEF TypeInv, TypeOK
<1>6. /\ sessions' = key /\ heap' = heap \cup {D(key)}
      /\ Send("cloud", key, s, CloudMsg(a, b, D(key)))
      /\ UNCHANGED <<known, rekeyed, contents, stored, setcap, tp, qp>>
  BY <1>2, <1>4 DEF ReceiveClientRequest, D, CloudMsg
<1>7. s \in Servers
  BY SessionCloud
<1> HIDE DEF key, s
<1>8. CloudMsg(a, b, D(key)) \in Message /\ s \in Parties
  BY <1>5, <1>7, SessionTypes
<1>9. stack' = <<Waiting("cloud", key), Entered(s, CloudMsg(a, b, D(key)))>> /\ outcome' = outcome
  BY <1>1, <1>5, <1>6, <1>8, ShortSend DEF TypeInv, TypeOK
<1>10. Waiting("cloud", key) = HelperAt("cloud", a, b, key)
  BY <1>1 DEF Waiting, HelperAt, Entered
<1>11. FirstCloud(a)' = s
  BY <1>6, SessionKept DEF s
<1>12. tp'[b] = Null /\ qp'[b] = Null /\ heap' = {D(key)}
  BY <1>6 DEF Requested
<1> QED
  BY <1>6, <1>9, <1>10, <1>11, <1>12 DEF AtCloud

\* The cloud intersects the two outsourced data sets, and answers the requester.
LEMMA AtCloudStep ==
  ASSUME TypeInv, NEW a \in Clients, NEW b \in Clients, Session(a, b), StoredIsOwn,
         AtCloud(a, b, sessions), Handle
  PROVE  /\ AtRequester(a, b, sessions)'
         /\ UNCHANGED <<known, rekeyed, contents, stored, setcap, outcome>>
<1> DEFINE key == sessions
           s == FirstCloud(a)
<1>0. key \in Nat /\ s \in Servers
  BY SessionCloud DEF TypeInv, TypeOK
<1> HIDE DEF key, s
<1>1. /\ stack = <<HelperAt("cloud", a, b, key), Entered(s, CloudMsg(a, b, D(key)))>>
      /\ Top = Entered(s, CloudMsg(a, b, D(key)))
  BY ShortStack DEF AtCloud, key, s
<1>2. /\ Top.at = s /\ Top.pc = "enter" /\ Top.msg.from = a /\ Top.msg.partner = b
      /\ Top.msg.type = "CLOUD_COMPUTATION_REQUEST" /\ Top.msg.claim = a
      /\ Top.msg.body.key = key
  BY <1>1 DEF Entered, CloudMsg, D
<1>3. Accepted(Top.at, Top.msg)
  BY <1>0, <1>2, PartyAssumption
     DEF Accepted, ServerAuthorises, HasAuthenticated, Refused, Session, s
<1>4. ReceiveCloudRequest
  BY <1>2, <1>3, Dispatch
<1>5. /\ HasData(s, a) /\ HasData(s, b) /\ b \in known[s]
      /\ contents[stored[s][a]] = a /\ contents[stored[s][b]] = b
  BY <1>0 DEF Session, StoredIsOwn, HasData, s
<1>6. /\ heap' = heap \cup {T(key, a, b)}
      /\ Send("output", 0, b, OutputMsg(s, T(key, a, b)))
      /\ UNCHANGED <<known, rekeyed, contents, stored, setcap, tp, qp, sessions>>
  BY <1>2, <1>4, <1>5 DEF ReceiveCloudRequest, T, OutputMsg
<1>7. OutputMsg(s, T(key, a, b)) \in Message /\ b \in Parties
  BY <1>0, SessionTypes
<1>8. /\ stack' = <<HelperAt("cloud", a, b, key), Waiting("output", 0),
                   Entered(b, OutputMsg(s, T(key, a, b)))>>
      /\ outcome' = outcome
  BY <1>1, <1>6, <1>7, ShortSend DEF TypeInv, TypeOK
<1>9. Waiting("output", 0) = CloudAt(s, a, b, key)
  BY <1>1 DEF Waiting, CloudAt, Entered
<1>10. FirstCloud(a)' = s
  BY <1>6, SessionKept DEF s
<1>11. /\ tp'[b] = Null /\ qp'[b] = Null /\ heap' = {D(key), T(key, a, b)}
       /\ sessions' = key
  BY <1>6 DEF AtCloud, key
<1> QED
  BY <1>6, <1>8, <1>9, <1>10, <1>11 DEF AtRequester

\* The requester keeps the output: it has no polynomial yet.
LEMMA AtRequesterStep ==
  ASSUME TypeInv, NEW a \in Clients, NEW b \in Clients, Session(a, b),
         AtRequester(a, b, sessions), Handle
  PROVE  /\ OutputReceived(a, b, sessions)'
         /\ UNCHANGED <<known, rekeyed, contents, stored, setcap, outcome>>
<1> DEFINE key == sessions
           s == FirstCloud(a)
<1>0. key \in Nat /\ s \in Servers
  BY SessionCloud DEF TypeInv, TypeOK
<1> HIDE DEF key, s
<1>1. /\ stack = <<HelperAt("cloud", a, b, key), CloudAt(s, a, b, key),
                   Entered(b, OutputMsg(s, T(key, a, b)))>>
      /\ Top = Entered(b, OutputMsg(s, T(key, a, b)))
  BY ShortStack DEF AtRequester, key, s
<1>2. /\ Top.at = b /\ Top.pc = "enter" /\ Top.msg.from = s
      /\ Top.msg.type = "OUTPUT_COMPUTATION" /\ Top.msg.body = T(key, a, b)
  BY <1>1 DEF Entered, OutputMsg
<1>3. Accepted(Top.at, Top.msg)
  BY <1>0, <1>2, PartyAssumption
     DEF Accepted, ClientAuthorises, HasAuthenticated, Refused, Session, s
<1>4. ReceiveOutput
  BY <1>2, <1>3, Dispatch
<1>5. qp[b] = Null /\ heap = {D(key), T(key, a, b)}
  BY DEF AtRequester, key
<1>6. /\ tp' = [tp EXCEPT ![b] = T(key, a, b)] /\ Return
      /\ UNCHANGED <<known, rekeyed, contents, stored, setcap, qp, sessions, heap>>
  BY <1>2, <1>4, <1>5 DEF ReceiveOutput
<1>7. /\ stack' = <<HelperAt("cloud", a, b, key), CloudAt(s, a, b, key)>>
      /\ outcome' = outcome
  BY <1>1, <1>6, ShortReturn DEF TypeInv, TypeOK
<1>8. tp'[b] = T(key, a, b)
  BY <1>6 DEF TypeInv, TypeOK
<1>9. FirstCloud(a)' = s /\ sessions' = key
  BY <1>6, SessionKept DEF s, key
<1> QED
  BY <1>5, <1>6, <1>7, <1>8, <1>9 DEF OutputReceived

\* The cloud deletes the data of the request, and returns.
LEMMA OutputReceivedStep ==
  ASSUME TypeInv, NEW a \in Clients, NEW b \in Clients, Session(a, b),
         OutputReceived(a, b, sessions), Handle
  PROVE  /\ CloudReturned(a, b, sessions)'
         /\ UNCHANGED <<known, rekeyed, contents, stored, setcap, outcome>>
<1> DEFINE key == sessions
           s == FirstCloud(a)
<1> HIDE DEF key, s
<1>1. /\ stack = <<HelperAt("cloud", a, b, key), CloudAt(s, a, b, key)>>
      /\ Top = CloudAt(s, a, b, key)
  BY ShortStack DEF OutputReceived, key, s
<1>2. Top.pc = "output" /\ Top.msg.body = D(key)
  BY <1>1 DEF CloudAt, CloudMsg
<1>3. DeleteRequestData
  BY <1>2, Dispatch
<1>4. /\ heap' = heap \ {D(key)} /\ Return
      /\ UNCHANGED <<known, rekeyed, contents, stored, setcap, tp, qp, sessions>>
  BY <1>2, <1>3 DEF DeleteRequestData
<1>5. stack' = <<HelperAt("cloud", a, b, key)>> /\ outcome' = outcome
  BY <1>1, <1>4, ShortReturn DEF TypeInv, TypeOK
<1>6. D(key) # T(key, a, b)
  BY DEF D, T
<1>7. heap' = {T(key, a, b)} /\ tp'[b] = T(key, a, b) /\ qp'[b] = Null /\ sessions' = key
  BY <1>4, <1>6 DEF OutputReceived, key
<1> QED
  BY <1>4, <1>5, <1>7 DEF CloudReturned

\* The helper computes the polynomial with the secret that blinded the data.
LEMMA CloudReturnedStep ==
  ASSUME TypeInv, NEW a \in Clients, NEW b \in Clients, Session(a, b), rekeyed = {},
         CloudReturned(a, b, sessions), Handle
  PROVE  /\ PolynomialSent(a, b, sessions)'
         /\ UNCHANGED <<known, rekeyed, contents, stored, setcap, outcome>>
<1> DEFINE key == sessions
<1>0. key \in Nat
  BY DEF TypeInv, TypeOK
<1> HIDE DEF key
<1>1. stack = <<HelperAt("cloud", a, b, key)>> /\ Top = HelperAt("cloud", a, b, key)
  BY ShortStack DEF CloudReturned, key
<1>2. /\ Top.pc = "cloud" /\ Top.at = a /\ Top.msg = RequestMsg(b) /\ Top.msg.from = b
      /\ Top.key = key
  BY <1>1 DEF HelperAt, RequestMsg
<1>3. SendPolynomial
  BY <1>2, Dispatch
<1>4. ReadsSecret(SecretLen[b]) = {TRUE}
  BY DEF ReadsSecret, Session
<1>5. /\ heap' = heap \cup {Q(key, a, b)}
      /\ qp' = [qp EXCEPT ![a] = Q(key, a, b)]
      /\ Send("poly", key, b, PolynomialMsg(a, Q(key, a, b)))
      /\ UNCHANGED <<known, rekeyed, contents, stored, setcap, tp, sessions>>
  <2>1. Q(key, a, b) = [kind |-> "q", key |-> Top.key, a |-> Top.at, b |-> Top.msg.from,
                        exact |-> TRUE /\ Top.at \notin rekeyed /\ Top.msg.from \notin rekeyed]
    BY <1>2 DEF Q
  <2> QED
    BY <1>2, <1>3, <1>4, <2>1 DEF SendPolynomial, PolynomialMsg
<1>6. PolynomialMsg(a, Q(key, a, b)) \in Message /\ b \in Parties
  <2>1. PICK s : s \in Servers
    BY SessionCloud
  <2> QED
    BY <1>0, <2>1, SessionTypes
<1>7. /\ stack' = <<Waiting("poly", key), Entered(b, PolynomialMsg(a, Q(key, a, b)))>>
      /\ outcome' = outcome
  BY <1>0, <1>1, <1>5, <1>6, ShortSend DEF TypeInv, TypeOK
<1>8. Waiting("poly", key) = HelperAt("poly", a, b, key)
  BY <1>2 DEF Waiting, HelperAt
<1>9. a # b
  BY DEF Session
<1>10. /\ tp'[b] = T(key, a, b) /\ qp'[b] = Null /\ sessions' = key
       /\ heap' = {T(key, a, b), Q(key, a, b)}
  BY <1>5, <1>9 DEF CloudReturned, key, TypeInv, TypeOK
<1> QED
  BY <1>5, <1>7, <1>8, <1>10 DEF PolynomialSent

\* The requester intersects, and releases both matrices.
LEMMA PolynomialSentStep ==
  ASSUME TypeInv, NEW a \in Clients, NEW b \in Clients, Session(a, b),
         PolynomialSent(a, b, sessions), Handle
  PROVE  /\ Answered(a, b, sessions)'
         /\ UNCHANGED <<known, rekeyed, contents, stored, outcome>>
<1> DEFINE key == sessions
<1>0. key \in Nat
  BY DEF TypeInv, TypeOK
<1> HIDE DEF key
<1> DEFINE q == Q(key, a, b)
           t == T(key, a, b)
<1>1. /\ stack = <<HelperAt("poly", a, b, key), Entered(b, PolynomialMsg(a, q))>>
      /\ Top = Entered(b, PolynomialMsg(a, q))
  BY ShortStack DEF PolynomialSent, key
<1>2. /\ Top.at = b /\ Top.pc = "enter" /\ Top.msg.from = a
      /\ Top.msg.type = "POLYNOMIAL" /\ Top.msg.body = q
  BY <1>1 DEF Entered, PolynomialMsg
<1>3. Accepted(Top.at, Top.msg)
  BY <1>2, PartyAssumption
     DEF Accepted, ClientAuthorises, HasAuthenticated, Refused, Session
<1>4. ReceivePolynomial
  BY <1>2, <1>3, Dispatch
<1>5. tp[b] = t /\ heap = {t, q}
  BY DEF PolynomialSent, key
<1>6. t # Null
  <2>1. t \in TMatrix
    BY <1>0 DEF T, TMatrix
  <2> QED
    BY <2>1, NullAssumption DEF Objects
<1>7. Intersect(b, q, t) /\ UNCHANGED <<known, rekeyed, contents, stored, tp, sessions>>
  BY <1>2, <1>4, <1>5, <1>6 DEF ReceivePolynomial
<1> HIDE DEF q, t
<1>8. setcap' = [setcap EXCEPT ![b] = Answer(q, t)] /\ heap' = heap \ {q, t} /\ Return
  BY <1>5, <1>7 DEF Intersect
<1>9. Answer(q, t) = [clean |-> TRUE, set |-> Data[b] \cap Data[a]]
  <2>1. Unblinds(q, t) /\ q.a = a /\ q.b = b
    BY DEF Unblinds, q, t, Q, T
  <2>2. Found(a, b) = Data[b] \cap Data[a]
    BY DEF Found, Session
  <2> QED
    BY <2>1, <2>2 DEF Answer
<1>10. stack' = <<HelperAt("poly", a, b, key)>> /\ outcome' = outcome
  BY <1>1, <1>8, ShortReturn DEF TypeInv, TypeOK
<1>11. setcap'[b] = [clean |-> TRUE, set |-> Data[b] \cap Data[a]]
  BY <1>8, <1>9 DEF TypeInv, TypeOK
<1>12. heap' = {} /\ sessions' = key
  BY <1>5, <1>7, <1>8 DEF key
<1> QED
  BY <1>7, <1>10, <1>11, <1>12 DEF Answered

\* The helper returns to the application: nothing is left allocated.
LEMMA AnsweredStep ==
  ASSUME TypeInv, NEW a \in Clients, NEW b \in Clients,
         Answered(a, b, sessions), Handle
  PROVE  NoCall' /\ UNCHANGED <<known, rekeyed, contents, stored, setcap, outcome>>
<1>1. stack = <<HelperAt("poly", a, b, sessions)>> /\ Top.pc = "poly"
  BY ShortStack DEF Answered, HelperAt
<1>2. ReturnToApplication
  BY <1>1, Dispatch
<1>3. Return /\ UNCHANGED protocolVars
  BY <1>2 DEF ReturnToApplication
<1>4. stack' = <<>> /\ outcome' = outcome
  BY <1>1, <1>3, ShortReturn DEF TypeInv, TypeOK
<1> QED
  BY <1>3, <1>4 DEF NoCall, Answered, protocolVars

\* A message out of place, of a party that is known, ends in an exception.
LEMMA MisplacedStep ==
  ASSUME TypeInv, MisplacedCall, Handle
  PROVE  NoCall' /\ UNCHANGED <<known, rekeyed, contents, stored, setcap, outcome>>
<1>1. PICK p, r, claim \in Parties, type \in MessageTypes :
        /\ Misplaced(p, r, type, claim)
        /\ p # r => p \in known[r]
        /\ stack = <<Entered(r, [type |-> type, from |-> p, claim |-> claim,
                                 partner |-> Null, body |-> Null])>>
  BY DEF MisplacedCall
<1> DEFINE msg == [type |-> type, from |-> p, claim |-> claim, partner |-> Null, body |-> Null]
<1>2. Len(stack) = 1 /\ Top = Entered(r, msg) /\ stack # <<>>
  BY <1>1, ShortStack
<1>3. msg.from = p /\ msg.claim = claim /\ msg.type = type
  OBVIOUS
<1> HIDE DEF msg
<1>4. Top.at = r /\ Top.msg = msg /\ Top.pc = "enter"
  BY <1>2 DEF Entered
<1>5. msg \in Message
  BY <1>2, <1>4, TopFrame
<1>6. ~Accepted(Top.at, Top.msg)
  BY <1>1, <1>3, <1>4, <1>5, MisplacedRefused
<1>7. ~DereferencesUnknownSender(Top.at, Top.msg)
  BY <1>1, <1>3, <1>4 DEF DereferencesUnknownSender, HasAuthenticated
<1>8. Throw
  BY <1>4, <1>6, <1>7, Dispatch DEF ReceiveRejected, ReceiveUnknownSender
<1>9. stack' = <<>> /\ outcome' = outcome /\ UNCHANGED protocolVars
  BY <1>2, <1>8 DEF Throw
<1> QED
  BY <1>9 DEF NoCall, MisplacedCall, protocolVars

\* The cloud keeps a client's own data.
LEMMA OutsourcingStep ==
  ASSUME TypeInv, OutsourcingCall, StoredIsOwn, Handle
  PROVE  NoCall' /\ StoredIsOwn' /\ UNCHANGED <<known, rekeyed, contents, setcap, outcome>>
<1>1. PICK c \in Clients, s \in Servers, m \in Envelopes :
        /\ c \in known[s] /\ contents[m] = c
        /\ \A r \in Servers, d \in Clients \ {c} : stored[r][d] # m
        /\ stack = <<Entered(s, OutsourcingMsg(c, m))>>
  BY DEF OutsourcingCall
<1>2. Top = Entered(s, OutsourcingMsg(c, m))
  BY <1>1, ShortStack
<1>3. /\ Top.at = s /\ Top.pc = "enter" /\ Top.msg.from = c
      /\ Top.msg.type = "OUTSOURCING_DATA" /\ Top.msg.body = m
  BY <1>2 DEF Entered, OutsourcingMsg
<1>4. Accepted(Top.at, Top.msg)
  BY <1>1, <1>3, PartyAssumption DEF Accepted, ServerAuthorises, HasAuthenticated, Refused
<1>5. ReceiveOutsourcing
  BY <1>3, <1>4, Dispatch
<1>6. /\ stored' = [stored EXCEPT ![s][c] = m] /\ Return
      /\ UNCHANGED <<known, rekeyed, contents, heap, setcap>>
  BY <1>3, <1>5 DEF ReceiveOutsourcing
<1>7. stack' = <<>> /\ outcome' = outcome
  BY <1>1, <1>6, ShortReturn DEF TypeInv, TypeOK
<1>8. StoredIsOwn'
  BY <1>1, <1>6 DEF StoredIsOwn, TypeInv, TypeOK
<1> QED
  BY <1>6, <1>7, <1>8 DEF NoCall, OutsourcingCall

-----------------------------------------------------------------------------
(* The invariant *)

\* With nobody in a call, nothing is allocated.
LEMMA NobodyInCall ==
  ASSUME SomePhase, stack = <<>>
  PROVE  heap = {}
<1>1. \A x, y, z : stack # <<x>> /\ stack # <<x, y>> /\ stack # <<x, y, z>>
  BY ShortStack
<1>2. ~MisplacedCall /\ ~OutsourcingCall
  BY <1>1 DEF MisplacedCall, OutsourcingCall
<1>3. ASSUME NEW a, NEW b PROVE ~Requested(a, b) /\ ~UnderWay(a, b, sessions)
  BY <1>1 DEF Requested, UnderWay, AtCloud, AtRequester, OutputReceived, CloudReturned,
     PolynomialSent, Answered
<1> QED
  BY <1>2, <1>3 DEF SomePhase, NoCall

\* Each step of a session leads to the next phase.
LEMMA HandleKeepsContract ==
  ASSUME TypeInv, ContractInv, Handle
  PROVE  ContractInv'
<1>1. /\ stack # <<>> /\ rekeyed = {} /\ StoredIsOwn /\ outcome # "undefined" /\ SomePhase
  BY Dispatch DEF ContractInv, NoUndefined
<1>2. CASE MisplacedCall
  <2>1. NoCall' /\ UNCHANGED <<rekeyed, contents, stored, outcome>>
    BY <1>2, MisplacedStep
  <2> QED
    BY <1>1, <2>1 DEF ContractInv, StoredIsOwn, NoUndefined, SomePhase
<1>3. CASE OutsourcingCall
  <2>1. NoCall' /\ StoredIsOwn' /\ UNCHANGED <<rekeyed, outcome>>
    BY <1>1, <1>3, OutsourcingStep
  <2> QED
    BY <1>1, <2>1 DEF ContractInv, NoUndefined, SomePhase
<1>4. ASSUME NEW a \in Clients, NEW b \in Clients, Session(a, b),
             Requested(a, b) \/ UnderWay(a, b, sessions)
      PROVE  ContractInv'
  <2>1. /\ UNCHANGED <<known, rekeyed, contents, stored, outcome>>
        /\ NoCall' \/ UnderWay(a, b, sessions)'
    BY <1>1, <1>4, RequestedStep, AtCloudStep, AtRequesterStep, OutputReceivedStep,
       CloudReturnedStep, PolynomialSentStep, AnsweredStep DEF UnderWay
  <2>2. Session(a, b)'
    BY <1>4, <2>1, SessionKept
  <2>3. SomePhase'
    BY <2>1, <2>2 DEF SomePhase
  <2> QED
    BY <1>1, <2>1, <2>3 DEF ContractInv, StoredIsOwn, NoUndefined
<1> QED
  BY <1>1, <1>2, <1>3, <1>4 DEF SomePhase, NoCall

\* An application that keeps its promises starts a call at its first phase.
LEMMA ApplicationKeepsContract ==
  ASSUME Promises = PromiseNames, TypeInv, ContractInv, Application
  PROVE  ContractInv'
<1>1. /\ rekeyed = {} /\ StoredIsOwn /\ outcome # "undefined" /\ SomePhase
      /\ \A name \in PromiseNames : Promised(name)
  BY DEF ContractInv, NoUndefined, Promised
<1>2. stack = <<>> /\ heap = {} /\ NoCall
  <2>1. Idle
    BY DEF Application, Authenticate, AuthenticateAll, SetRawData, SetSecret, Outsource, Request,
       SendMisplaced
  <2> QED
    BY <1>1, <2>1, NobodyInCall DEF Idle, NoCall
<1>3. CASE \/ \E pair \in Pairs : Authenticate(pair[1], pair[2])
           \/ AuthenticateAll
           \/ \E c \in Clients : SetRawData(c) \/ SetSecret(c)
  <2>1. /\ UNCHANGED <<rekeyed, contents, stored, stack, heap>>
        /\ outcome' \in {outcome, "exit"}
    BY <1>1, <1>3 DEF Authenticate, AuthenticateAll, SetRawData, SetSecret, Exit, PromiseNames
  <2> QED
    BY <1>1, <1>2, <2>1 DEF ContractInv, StoredIsOwn, NoUndefined, SomePhase, NoCall
<1>4. ASSUME NEW c \in Clients, NEW s \in Servers, NEW m \in Envelopes, Outsource(c, s, m)
      PROVE  ContractInv'
  <2>1. /\ contents' = [contents EXCEPT ![m] = c]
        /\ c \in known[s]
        /\ \A r \in Servers, d \in Clients \ {c} : stored[r][d] # m
        /\ stack' = <<Entered(s, OutsourcingMsg(c, m))>>
        /\ UNCHANGED <<known, rekeyed, stored, heap, outcome>>
    BY <1>1, <1>4 DEF Outsource, PromiseNames, Call, OutsourcingMsg
  <2>2. StoredIsOwn'
    BY <1>1, <2>1 DEF StoredIsOwn, TypeInv, TypeOK
  <2>3. OutsourcingCall'
    BY <1>2, <2>1 DEF OutsourcingCall, TypeInv, TypeOK
  <2> QED
    BY <1>1, <2>1, <2>2, <2>3 DEF ContractInv, NoUndefined, SomePhase
<1>5. ASSUME NEW c \in Clients, NEW d \in Clients, Request(c, d)
      PROVE  ContractInv'
  <2>1. /\ c # d /\ Ready(c, d)
        /\ stack' = <<Entered(d, RequestMsg(c))>>
        /\ UNCHANGED protocolVars /\ outcome' = outcome
    BY <1>5 DEF Request, Call, RequestMsg
  <2>2. Session(d, c)
    BY <1>1, <2>1 DEF Ready, Session, PromiseNames
  <2>3. tp[c] = Null /\ qp[c] = Null
    BY <1>1, <2>1 DEF Ready, PromiseNames
  <2>4. Session(d, c)'
    BY <2>1, <2>2, SessionKept DEF protocolVars
  <2>5. Requested(d, c)'
    BY <1>2, <2>1, <2>3 DEF Requested, protocolVars
  <2> QED
    BY <1>1, <2>1, <2>4, <2>5 DEF ContractInv, StoredIsOwn, NoUndefined, SomePhase, protocolVars
<1>6. ASSUME NEW p \in Parties, NEW r \in Parties, NEW claim \in Parties,
             NEW type \in MessageTypes, SendMisplaced(p, r, type, claim)
      PROVE  ContractInv'
  <2>1. /\ Misplaced(p, r, type, claim)
        /\ p # r => p \in known[r]
        /\ stack' = <<Entered(r, [type |-> type, from |-> p, claim |-> claim,
                                  partner |-> Null, body |-> Null])>>
        /\ UNCHANGED protocolVars /\ outcome' = outcome
    BY <1>1, <1>6 DEF SendMisplaced, Call, PromiseNames
  <2>2. MisplacedCall'
    BY <1>2, <2>1 DEF MisplacedCall, Misplaced, protocolVars
  <2> QED
    BY <1>1, <2>1, <2>2 DEF ContractInv, StoredIsOwn, NoUndefined, SomePhase, protocolVars
<1> QED
  BY <1>3, <1>4, <1>5, <1>6 DEF Application

\* Whatever the application does, while it keeps its promises every session
\* goes through its phases, and nothing else ever happens.
THEOREM ContractCorrect ==
  ASSUME Promises = PromiseNames
  PROVE  Spec => [](TypeInv /\ ContractInv)
<1>1. Init => TypeInv /\ ContractInv
  <2>1. Init => TypeInv
    BY InitTyped
  <2>2. Init => NoCall /\ rekeyed = {} /\ NoUndefined /\ StoredIsOwn
    BY DEF Init, NoCall, NoUndefined, StoredIsOwn
  <2> QED
    BY <2>1, <2>2 DEF ContractInv, SomePhase
<1>2. TypeInv /\ ContractInv /\ [Next]_vars => TypeInv' /\ ContractInv'
  <2> SUFFICES ASSUME TypeInv, ContractInv, [Next]_vars PROVE TypeInv' /\ ContractInv'
    OBVIOUS
  <2>1. TypeInv'
    BY NextTyped
  <2>2. CASE Handle
    BY <2>1, <2>2, HandleKeepsContract
  <2>3. CASE Application
    BY <2>1, <2>3, ApplicationKeepsContract
  <2>4. CASE UNCHANGED vars
    <3>1. \A a, b \in Clients : Session(a, b) => Session(a, b)' /\ FirstCloud(a)' = FirstCloud(a)
      BY <2>4, SessionKept DEF vars
    <3>2. /\ NoCall => NoCall'
          /\ MisplacedCall => MisplacedCall'
          /\ OutsourcingCall => OutsourcingCall'
      BY <2>4 DEF vars, NoCall, MisplacedCall, OutsourcingCall, Misplaced
    <3>3. ASSUME NEW a \in Clients, NEW b \in Clients, Session(a, b)
          PROVE  /\ Requested(a, b) => Requested(a, b)'
                 /\ UnderWay(a, b, sessions) => UnderWay(a, b, sessions)'
      BY <2>4, <3>1, <3>3 DEF vars, Requested, UnderWay, AtCloud, AtRequester,
         OutputReceived, CloudReturned, PolynomialSent, Answered
    <3>4. SomePhase => SomePhase'
      BY <3>1, <3>2, <3>3 DEF SomePhase
    <3> QED
      BY <2>1, <2>4, <3>4 DEF vars, ContractInv, StoredIsOwn, NoUndefined
  <2> QED
    BY <2>2, <2>3, <2>4 DEF Next
<1> QED
  BY <1>1, <1>2, PTL DEF Spec

\* No call reads or frees released memory, follows a null pointer, or reads
\* data nobody stored.
THEOREM ContractNeverUndefined ==
  ASSUME Promises = PromiseNames
  PROVE  Spec => []NoUndefined
<1>1. TypeInv /\ ContractInv => NoUndefined
  BY DEF ContractInv
<1> QED
  BY <1>1, ContractCorrect, PTL

\* The cloud holds each client's own data, through pointers to messages the
\* application uses again and again.
THEOREM ContractStoredIsOwn ==
  ASSUME Promises = PromiseNames
  PROVE  Spec => []StoredIsOwn
<1>1. TypeInv /\ ContractInv => StoredIsOwn
  BY DEF ContractInv
<1> QED
  BY <1>1, ContractCorrect, PTL

\* When a request returns, the requester holds the intersection of its data
\* and the helper's.
THEOREM ContractAnswerCorrect ==
  ASSUME Promises = PromiseNames
  PROVE  Spec => []AnswerCorrect
<1>1. TypeInv /\ ContractInv => AnswerCorrect
  <2> SUFFICES ASSUME TypeInv, ContractInv, Len(stack) = 1, Top.pc = "poly", stack # <<>>
               PROVE  setcap[Top.msg.from] =
                        [clean |-> TRUE, set |-> Data[Top.msg.from] \cap Data[Top.at]]
    BY DEF AnswerCorrect
  <2>1. ~MisplacedCall /\ ~OutsourcingCall
    BY ShortStack DEF MisplacedCall, OutsourcingCall, Entered
  <2>2. PICK a \in Clients, b \in Clients : Requested(a, b) \/ UnderWay(a, b, sessions)
    BY <2>1 DEF ContractInv, SomePhase, NoCall
  <2>3. Answered(a, b, sessions)
    BY <2>2, ShortStack DEF Requested, UnderWay, AtCloud, AtRequester, OutputReceived,
       CloudReturned, PolynomialSent, HelperAt, CloudAt, Entered
  <2>4. Top.at = a /\ Top.msg.from = b
    BY <2>3, ShortStack DEF Answered, HelperAt, RequestMsg
  <2> QED
    BY <2>3, <2>4 DEF Answered
<1> QED
  BY <1>1, ContractCorrect, PTL

\* A requester that receives an output has no polynomial of an earlier session:
\* the one that comes next, of this session, is combined with it.
THEOREM ContractMatches ==
  ASSUME Promises = PromiseNames
  PROVE  Spec => []PolynomialMatchesOutput
<1>1. TypeInv /\ ContractInv => PolynomialMatchesOutput
  <2> SUFFICES ASSUME TypeInv, ContractInv, Receiving("OUTPUT_COMPUTATION"), qp[Top.at] # Null
               PROVE  FALSE
    BY DEF PolynomialMatchesOutput
  <2>1. /\ stack # <<>> /\ Top.pc = "enter" /\ Accepted(Top.at, Top.msg)
        /\ Top.msg.type = "OUTPUT_COMPUTATION"
    BY DEF Receiving, Entering, Active
  <2>2. ~NoCall
    BY <2>1 DEF NoCall
  <2>3. ~MisplacedCall
    <3> SUFFICES ASSUME NEW p \in Parties, NEW r \in Parties, NEW claim \in Parties,
                        NEW type \in MessageTypes, Misplaced(p, r, type, claim),
                        stack = <<Entered(r, [type |-> type, from |-> p, claim |-> claim,
                                              partner |-> Null, body |-> Null])>>
                 PROVE  FALSE
      BY DEF MisplacedCall
    <3>1. /\ Top.at = r /\ Top.msg.from = p /\ Top.msg.claim = claim
          /\ Top.msg.type = type
      BY ShortStack DEF Entered
    <3>2. Top.msg \in Message
      BY <2>1, TopFrame
    <3>3. ~Accepted(r, Top.msg)
      BY <3>1, <3>2, MisplacedRefused
    <3> QED BY <2>1, <3>1, <3>3
  <2>4. ~OutsourcingCall
    BY <2>1, ShortStack DEF OutsourcingCall, Entered, OutsourcingMsg
  <2>5. PICK a \in Clients, b \in Clients : Requested(a, b) \/ UnderWay(a, b, sessions)
    BY <2>2, <2>3, <2>4 DEF ContractInv, SomePhase
  <2>6. AtRequester(a, b, sessions)
    BY <2>1, <2>5, ShortStack DEF Requested, UnderWay, AtCloud, AtRequester, OutputReceived,
       CloudReturned, PolynomialSent, Answered, HelperAt, CloudAt, Entered, RequestMsg,
       CloudMsg, PolynomialMsg
  <2>7. Top.at = b /\ qp[b] = Null
    BY <2>6, ShortStack DEF AtRequester, Entered
  <2> QED BY <2>7
<1> QED
  BY <1>1, ContractCorrect, PTL

-----------------------------------------------------------------------------
(* The ideal intersection *)

\* The abstract state, as the instance Ideal has it.
PendingOf(st) ==
  IF /\ st # <<>>
     /\ st[1].msg.type = "CLIENT_COMPUTATION_REQUEST"
     /\ {st[1].msg.from, st[1].at} \subseteq Clients
     /\ st[1].msg.from # st[1].at
  THEN [who |-> st[1].msg.from, of |-> st[1].at, done |-> Len(st) = 1 /\ st[1].pc = "poly"]
  ELSE Null
Pending == PendingOf(stack)
Answers == [c \in Clients |-> setcap[c].set]

\* A request is pending while its frame is the lowest of the stack.
LEMMA PendingFrame ==
  ASSUME NEW st, st # <<>>, NEW a \in Clients, NEW b \in Clients, a # b,
         st[1].at = a, st[1].msg.from = b,
         st[1].msg.type = "CLIENT_COMPUTATION_REQUEST"
  PROVE  PendingOf(st) = [who |-> b, of |-> a, done |-> Len(st) = 1 /\ st[1].pc = "poly"]
BY DEF PendingOf

\* Throughout a session the request is pending, and done only when the helper
\* is alone on the stack with the polynomial sent.
LEMMA PendingSession ==
  ASSUME NEW a \in Clients, NEW b \in Clients, a # b, NEW key, NEW st, st # <<>>
  PROVE  /\ st[1] = Entered(a, RequestMsg(b)) =>
              PendingOf(st) = [who |-> b, of |-> a, done |-> FALSE]
         /\ st[1] = HelperAt("cloud", a, b, key) =>
              PendingOf(st) = [who |-> b, of |-> a, done |-> FALSE]
         /\ st[1] = HelperAt("poly", a, b, key) =>
              /\ Len(st) # 1 => PendingOf(st) = [who |-> b, of |-> a, done |-> FALSE]
              /\ Len(st) = 1 => PendingOf(st) = [who |-> b, of |-> a, done |-> TRUE]
<1>1. /\ \A pc : /\ HelperAt(pc, a, b, key).at = a
                 /\ HelperAt(pc, a, b, key).msg.from = b
                 /\ HelperAt(pc, a, b, key).msg.type = "CLIENT_COMPUTATION_REQUEST"
                 /\ HelperAt(pc, a, b, key).pc = pc
      /\ Entered(a, RequestMsg(b)).at = a
      /\ Entered(a, RequestMsg(b)).msg.from = b
      /\ Entered(a, RequestMsg(b)).msg.type = "CLIENT_COMPUTATION_REQUEST"
      /\ Entered(a, RequestMsg(b)).pc = "enter"
  BY DEF HelperAt, RequestMsg, Entered
<1>2. ASSUME st[1].at = a, st[1].msg.from = b, st[1].msg.type = "CLIENT_COMPUTATION_REQUEST"
      PROVE  /\ st[1].pc # "poly" \/ Len(st) # 1 =>
                  PendingOf(st) = [who |-> b, of |-> a, done |-> FALSE]
             /\ st[1].pc = "poly" /\ Len(st) = 1 =>
                  PendingOf(st) = [who |-> b, of |-> a, done |-> TRUE]
  BY <1>2, PendingFrame
<1> QED BY <1>1, <1>2

\* The last step of the requester is the one the ideal intersection calls Learn.
LEMMA LearnStep ==
  ASSUME TypeInv, NEW a \in Clients, NEW b \in Clients, Session(a, b),
         PolynomialSent(a, b, sessions), Handle
  PROVE  Answers' = [Answers EXCEPT ![b] = Data[b] \cap Data[a]]
<1>1. PICK q : stack = <<HelperAt("poly", a, b, sessions), Entered(b, PolynomialMsg(a, q))>>
  BY DEF PolynomialSent
<1>2. Top = Entered(b, PolynomialMsg(a, q))
  BY <1>1, ShortStack
<1>3. Top.at = b /\ Top.pc = "enter" /\ Top.msg.type = "POLYNOMIAL"
  BY <1>2 DEF Entered, PolynomialMsg
<1>4. \A c \in Clients : c # b => setcap'[c] = setcap[c]
  <2>1. \/ setcap' = setcap
        \/ \E x : setcap' = [setcap EXCEPT ![b] = x]
    <3>1. ReceivePolynomial \/ ReceiveRejected \/ ReceiveUnknownSender
      BY <1>3, Dispatch
    <3> QED BY <1>3, <3>1 DEF ReceivePolynomial, Intersect, ReceiveRejected,
               ReceiveUnknownSender, Throw, Undefined, protocolVars
  <2> QED BY <2>1 DEF TypeInv, TypeOK
<1>5. setcap'[b].set = Data[b] \cap Data[a]
  <2>1. Answered(a, b, sessions)'
    BY PolynomialSentStep
  <2> QED BY <2>1 DEF Answered
<1> QED BY <1>4, <1>5 DEF Answers

\* What makes a step one of the ideal intersection's.
LEMMA IdealSteps ==
  /\ \A c, d \in Clients :
       c # d /\ Pending = Null /\ Pending' = [who |-> c, of |-> d, done |-> FALSE]
       /\ Answers' = Answers => Ideal!Next
  /\ Pending # Null /\ ~Pending.done /\ Pending' = Null /\ Answers' = Answers => Ideal!Next
  /\ \A c, d \in Clients :
       Pending = [who |-> c, of |-> d, done |-> FALSE]
       /\ Pending' = [who |-> c, of |-> d, done |-> TRUE]
       /\ Answers' = [Answers EXCEPT ![c] = Data[c] \cap Data[d]] => Ideal!Next
  /\ Pending # Null /\ Pending.done /\ Pending' = Null /\ Answers' = Answers => Ideal!Next
<1>1. \A c, d \in Clients :
        c # d /\ Pending = Null /\ Pending' = [who |-> c, of |-> d, done |-> FALSE]
        /\ Answers' = Answers => Ideal!Next
  BY DEF Ideal!Next, Ideal!Ask, Pending, PendingOf, Answers, UnderRequest
<1>2. Pending # Null /\ ~Pending.done /\ Pending' = Null /\ Answers' = Answers => Ideal!Next
  BY DEF Ideal!Next, Ideal!Refuse, Pending, PendingOf, Answers, UnderRequest
<1>3. ASSUME NEW c \in Clients, NEW d \in Clients,
             Pending = [who |-> c, of |-> d, done |-> FALSE],
             Pending' = [who |-> c, of |-> d, done |-> TRUE],
             Answers' = [Answers EXCEPT ![c] = Data[c] \cap Data[d]]
      PROVE  Ideal!Next
  <2>1. Pending # Null
    <3>1. [who |-> c, of |-> d, done |-> FALSE] \in [who : Clients, of : Clients, done : BOOLEAN]
      OBVIOUS
    <3> QED BY <1>3, <3>1, NoRequestAssumption
  <2>2. Ideal!Learn
    BY <1>3, <2>1 DEF Ideal!Learn, Pending, PendingOf, Answers, UnderRequest
  <2> QED BY <2>2 DEF Ideal!Next
<1>4. Pending # Null /\ Pending.done /\ Pending' = Null /\ Answers' = Answers => Ideal!Next
  BY DEF Ideal!Next, Ideal!Finish, Pending, PendingOf, Answers, UnderRequest
<1> QED BY <1>1, <1>2, <1>3, <1>4

\* A call out of place is refused, one that outsources is none of the requests.
LEMMA CallRefines ==
  ASSUME TypeInv, StoredIsOwn, MisplacedCall \/ OutsourcingCall, Handle
  PROVE  Ideal!Next \/ UNCHANGED <<Pending, Answers>>
<1>1. NoCall' /\ setcap' = setcap
  BY MisplacedStep, OutsourcingStep
<1>2. Pending' = Null /\ Answers' = Answers
  BY <1>1 DEF NoCall, Pending, PendingOf, Answers
<1>3. stack # <<>> /\ stack[1].pc = "enter"
  BY ShortStack DEF MisplacedCall, OutsourcingCall, Entered
<1>4. ASSUME Pending # Null PROVE ~Pending.done
  BY <1>3, <1>4 DEF Pending, PendingOf
<1> QED BY <1>2, <1>4, IdealSteps

\* A step of a session is a step of the ideal intersection, or none.
LEMMA SessionRefines ==
  ASSUME TypeInv, rekeyed = {}, StoredIsOwn, NEW a \in Clients, NEW b \in Clients, Session(a, b),
         Requested(a, b) \/ UnderWay(a, b, sessions), Handle
  PROVE  Ideal!Next \/ UNCHANGED <<Pending, Answers>>
<1> DEFINE Asked == [who |-> b, of |-> a, done |-> FALSE]
           Told == [who |-> b, of |-> a, done |-> TRUE]
<1>0. a # b
  BY DEF Session
<1>1. CASE Requested(a, b)
  <2>1. Pending = Asked
    <3>1. stack # <<>> /\ stack[1] = Entered(a, RequestMsg(b))
      BY <1>1, ShortStack DEF Requested
    <3> QED BY <1>0, <3>1, PendingSession DEF Pending
  <2>2. AtCloud(a, b, sessions)' /\ setcap' = setcap
    BY <1>1, RequestedStep
  <2>3. Pending' = Asked /\ Answers' = Answers
    <3>1. stack' # <<>> /\ stack'[1] = HelperAt("cloud", a, b, sessions')
      BY <2>2 DEF AtCloud
    <3> QED BY <1>0, <2>2, <3>1, PendingSession DEF Pending, Answers
  <2> QED BY <2>1, <2>3
<1>2. CASE AtCloud(a, b, sessions)
  <2>1. Pending = Asked
    <3>1. stack # <<>> /\ stack[1] = HelperAt("cloud", a, b, sessions)
      BY <1>2, ShortStack DEF AtCloud
    <3> QED BY <1>0, <3>1, PendingSession DEF Pending
  <2>2. AtRequester(a, b, sessions)' /\ setcap' = setcap
    BY <1>2, AtCloudStep
  <2>3. Pending' = Asked /\ Answers' = Answers
    <3>1. stack' # <<>> /\ stack'[1] = HelperAt("cloud", a, b, sessions')
      BY <2>2 DEF AtRequester
    <3> QED BY <1>0, <2>2, <3>1, PendingSession DEF Pending, Answers
  <2> QED BY <2>1, <2>3
<1>3. CASE AtRequester(a, b, sessions)
  <2>1. Pending = Asked
    <3>1. stack # <<>> /\ stack[1] = HelperAt("cloud", a, b, sessions)
      BY <1>3, ShortStack DEF AtRequester
    <3> QED BY <1>0, <3>1, PendingSession DEF Pending
  <2>2. OutputReceived(a, b, sessions)' /\ setcap' = setcap
    BY <1>3, AtRequesterStep
  <2>3. Pending' = Asked /\ Answers' = Answers
    <3>1. stack' # <<>> /\ stack'[1] = HelperAt("cloud", a, b, sessions')
      BY <2>2 DEF OutputReceived
    <3> QED BY <1>0, <2>2, <3>1, PendingSession DEF Pending, Answers
  <2> QED BY <2>1, <2>3
<1>4. CASE OutputReceived(a, b, sessions)
  <2>1. Pending = Asked
    <3>1. stack # <<>> /\ stack[1] = HelperAt("cloud", a, b, sessions)
      BY <1>4, ShortStack DEF OutputReceived
    <3> QED BY <1>0, <3>1, PendingSession DEF Pending
  <2>2. CloudReturned(a, b, sessions)' /\ setcap' = setcap
    BY <1>4, OutputReceivedStep
  <2>3. Pending' = Asked /\ Answers' = Answers
    <3>1. stack' # <<>> /\ stack'[1] = HelperAt("cloud", a, b, sessions')
      BY <2>2 DEF CloudReturned
    <3> QED BY <1>0, <2>2, <3>1, PendingSession DEF Pending, Answers
  <2> QED BY <2>1, <2>3
<1>5. CASE CloudReturned(a, b, sessions)
  <2>1. Pending = Asked
    <3>1. stack # <<>> /\ stack[1] = HelperAt("cloud", a, b, sessions)
      BY <1>5, ShortStack DEF CloudReturned
    <3> QED BY <1>0, <3>1, PendingSession DEF Pending
  <2>2. PolynomialSent(a, b, sessions)' /\ setcap' = setcap
    BY <1>5, CloudReturnedStep
  <2>3. Pending' = Asked /\ Answers' = Answers
    <3>1. stack' # <<>> /\ stack'[1] = HelperAt("poly", a, b, sessions') /\ Len(stack') # 1
      BY <2>2 DEF PolynomialSent
    <3> QED BY <1>0, <2>2, <3>1, PendingSession DEF Pending, Answers
  <2> QED BY <2>1, <2>3
<1>6. CASE PolynomialSent(a, b, sessions)
  <2>1. Pending = Asked
    <3>1. stack # <<>> /\ stack[1] = HelperAt("poly", a, b, sessions) /\ Len(stack) # 1
      BY <1>6, ShortStack DEF PolynomialSent
    <3> QED BY <1>0, <3>1, PendingSession DEF Pending
  <2>2. Answered(a, b, sessions)'
    BY <1>6, PolynomialSentStep
  <2>3. Pending' = Told
    <3>1. stack' # <<>> /\ stack'[1] = HelperAt("poly", a, b, sessions') /\ Len(stack') = 1
      BY <2>2 DEF Answered
    <3> QED BY <1>0, <3>1, PendingSession DEF Pending
  <2>4. Answers' = [Answers EXCEPT ![b] = Data[b] \cap Data[a]]
    BY <1>6, LearnStep
  <2> QED BY <2>1, <2>3, <2>4, IdealSteps
<1>7. CASE Answered(a, b, sessions)
  <2>1. Pending = Told
    <3>1. stack # <<>> /\ stack[1] = HelperAt("poly", a, b, sessions) /\ Len(stack) = 1
      BY <1>7, ShortStack DEF Answered
    <3> QED BY <1>0, <3>1, PendingSession DEF Pending
  <2>2. NoCall' /\ setcap' = setcap
    BY <1>7, AnsweredStep
  <2>3. Pending' = Null /\ Answers' = Answers
    BY <2>2 DEF NoCall, Pending, PendingOf, Answers
  <2>4. Told \in [who : Clients, of : Clients, done : BOOLEAN] /\ Told.done
    OBVIOUS
  <2> QED BY <2>1, <2>3, <2>4, NoRequestAssumption, IdealSteps
<1> QED BY <1>1, <1>2, <1>3, <1>4, <1>5, <1>6, <1>7 DEF UnderWay

\* Each step inside a call is a step of the ideal intersection, or none.
LEMMA HandleRefines ==
  ASSUME TypeInv, ContractInv, Handle
  PROVE  Ideal!Next \/ UNCHANGED <<Pending, Answers>>
<1>1. stack # <<>> /\ rekeyed = {} /\ StoredIsOwn /\ SomePhase
  BY Dispatch DEF ContractInv
<1> QED BY <1>1, CallRefines, SessionRefines DEF SomePhase, NoCall

\* A call of the application asks for an intersection, or asks for nothing.
LEMMA ApplicationRefines ==
  ASSUME Application
  PROVE  Ideal!Next \/ UNCHANGED <<Pending, Answers>>
<1>1. stack = <<>> /\ setcap' = setcap
  BY DEF Application, Authenticate, AuthenticateAll, SetRawData, SetSecret, Outsource, Request,
     SendMisplaced, Idle, protocolVars
<1>2. Pending = Null /\ Answers' = Answers
  BY <1>1 DEF Pending, PendingOf, Answers
<1>3. CASE stack' = stack
  BY <1>2, <1>3 DEF Pending
<1>4. ASSUME NEW r \in Parties, NEW msg \in [type : MessageTypes, from : Parties, claim : Parties,
                                            partner : {Null}, body : Envelopes \cup {Null}],
             stack' = <<Entered(r, msg)>>
      PROVE  Ideal!Next \/ UNCHANGED <<Pending, Answers>>
  <2>1. stack' # <<>> /\ Len(stack') = 1 /\ stack'[1] = Entered(r, msg)
    BY <1>4
  <2>2. stack'[1].at = r /\ stack'[1].msg = msg /\ stack'[1].pc = "enter"
    BY <2>1 DEF Entered
  <2>3. CASE /\ msg.type = "CLIENT_COMPUTATION_REQUEST"
             /\ msg.from \in Clients /\ r \in Clients /\ msg.from # r
    <3>1. PendingOf(stack') = [who |-> msg.from, of |-> r, done |-> FALSE]
      BY <2>1, <2>2, <2>3 DEF PendingOf
    <3> QED BY <1>2, <2>3, <3>1, IdealSteps DEF Pending
  <2>4. CASE ~(/\ msg.type = "CLIENT_COMPUTATION_REQUEST"
               /\ msg.from \in Clients /\ r \in Clients /\ msg.from # r)
    <3>1. PendingOf(stack') = Null
      BY <2>1, <2>2, <2>4 DEF PendingOf
    <3> QED BY <1>2, <3>1 DEF Pending
  <2> QED BY <2>3, <2>4
<1>5. ASSUME stack' # stack
      PROVE  \E r \in Parties, msg \in [type : MessageTypes, from : Parties, claim : Parties,
                                       partner : {Null}, body : Envelopes \cup {Null}] :
               stack' = <<Entered(r, msg)>>
  <2>1. CASE \E c \in Clients, s \in Servers, m \in Envelopes : Outsource(c, s, m)
    BY <2>1 DEF Outsource, Call, Parties, MessageTypes
  <2>2. CASE \E c, d \in Clients : Request(c, d)
    BY <2>2 DEF Request, Call, Parties, MessageTypes
  <2>3. CASE \E p, r, claim \in Parties, type \in MessageTypes : SendMisplaced(p, r, type, claim)
    BY <2>3 DEF SendMisplaced, Call
  <2> QED BY <1>5, <2>1, <2>2, <2>3 DEF Application, Authenticate, AuthenticateAll, SetRawData,
             SetSecret, Exit
<1> QED BY <1>3, <1>4, <1>5

\* While the application keeps its promises the parties implement the ideal
\* intersection: whatever they send each other, a client sees a request that is
\* refused, or answered with the intersection.
THEOREM ContractRefines ==
  ASSUME Promises = PromiseNames
  PROVE  Spec => Ideal!Init /\ [][Ideal!Next]_<<Pending, Answers>>
<1>1. Init => Ideal!Init
  BY DEF Init, Ideal!Init, UnderRequest, NoAnswer
<1>2. TypeInv /\ ContractInv /\ [Next]_vars => [Ideal!Next]_<<Pending, Answers>>
  <2>1. ASSUME UNCHANGED vars PROVE UNCHANGED <<Pending, Answers>>
    BY <2>1 DEF vars, Pending, Answers
  <2> QED BY <2>1, HandleRefines, ApplicationRefines DEF Next
<1>3. Spec => [](TypeInv /\ ContractInv)
  BY ContractCorrect
<1> QED BY <1>1, <1>2, <1>3, PTL DEF Spec

-----------------------------------------------------------------------------
(***************************************************************************)
(* What the parties guarantee whatever the application does, for every set   *)
(* of clients, servers and envelopes and every number of sessions: how calls *)
(* are nested, who owns what is allocated, who learns an intersection and     *)
(* where an exception goes.                                                *)
(***************************************************************************)

\* The process ends in this step: nothing is returned and nobody learns.
Ended == outcome' # "running" /\ UNCHANGED <<stack, setcap>>

\* A step of a session that goes on inside it, and changes no answer.
Inside == UNCHANGED <<setcap, outcome>> /\ stack' # <<>>

\* A step that brings control back to the application.
Back == NoCall' /\ UNCHANGED <<setcap, outcome>>

Clean ==
  stack # <<>> /\ stack' = <<>> /\ raised' =>
    Len(stack) = 1 /\ Top.pc = "enter" /\ UNCHANGED protocolVars

-----------------------------------------------------------------------------
(* What is refused *)

\* A refused message in the application's own call throws to it, or ends the
\* process.
LEMMA RefusedAlone ==
  ASSUME NEW x, stack = <<x>>, heap = {}, Handle, Top.pc = "enter",
         ~Accepted(Top.at, Top.msg)
  PROVE  (Back \/ Ended) /\ Clean
<1>1. ReceiveRejected \/ ReceiveUnknownSender
  BY Dispatch
<1>2. CASE ReceiveUnknownSender
  BY <1>2 DEF ReceiveUnknownSender, Undefined, protocolVars, Ended, Clean
<1>3. CASE ReceiveRejected
  <2>1. Throw /\ Len(stack) = 1
    BY <1>3, ShortStack DEF ReceiveRejected
  <2>2. stack' = <<>> /\ UNCHANGED outcome /\ UNCHANGED protocolVars
    BY <2>1 DEF Throw
  <2> QED BY <2>1, <2>2 DEF Back, NoCall, protocolVars, Clean
<1> QED BY <1>1, <1>2, <1>3

\* A refused message inside a session ends the process: the helper, which
\* waits for its cloud, catches the exception and exits.
LEMMA RefusedInside ==
  ASSUME NEW x, NEW y, stack = <<x, y>> \/ \E z : stack = <<x, y, z>>,
         x.pc = "cloud", Handle, Top.pc = "enter", ~Accepted(Top.at, Top.msg)
  PROVE  Ended
<1>1. ReceiveRejected \/ ReceiveUnknownSender
  BY Dispatch
<1>2. CASE ReceiveUnknownSender
  BY <1>2 DEF ReceiveUnknownSender, Undefined, protocolVars, Ended
<1>3. CASE ReceiveRejected
  <2>1. stack[1].pc = "cloud" /\ 1 \in 1..(Len(stack) - 1)
    BY ShortStack
  <2>2. Throw
    BY <1>3 DEF ReceiveRejected
  <2> QED BY <2>1, <2>2 DEF Throw, protocolVars, Ended
<1> QED BY <1>1, <1>2, <1>3

-----------------------------------------------------------------------------
(* One lemma for each phase *)

\* The helper asks its cloud, refuses, or has no cloud.
LEMMA AnyRequestedStep ==
  ASSUME TypeInv, NEW a \in Clients, NEW b \in Clients, a # b, AnyRequested(a, b), Handle
  PROVE  /\ \/ /\ \E s \in Servers, key \in Nat :
                    AnyAtCloud(a, b, s, key)' /\ key = sessions'
               /\ Inside
            \/ Back \/ Ended
         /\ Clean
<1>1. stack = <<Entered(a, RequestMsg(b))>> /\ Top = Entered(a, RequestMsg(b)) /\ heap = {}
  BY ShortStack DEF AnyRequested
<1>2. /\ Top.at = a /\ Top.pc = "enter" /\ Top.msg = RequestMsg(b) /\ Top.msg.from = b
      /\ Top.msg.type = "CLIENT_COMPUTATION_REQUEST"
  BY <1>1 DEF Entered, RequestMsg
<1>3. CASE ~Accepted(Top.at, Top.msg)
  BY <1>1, <1>2, <1>3, RefusedAlone
<1>4. CASE ReceiveClientRequestNoCloud
  BY <1>4, <1>1 DEF ReceiveClientRequestNoCloud, Exit, protocolVars, Ended, Clean
<1>5. CASE ReceiveClientRequest
  <2>1. PICK key \in Nat : key = sessions + 1
    BY DEF TypeInv, TypeOK
  <2>2. PICK s \in Servers : s = FirstCloud(a)
    BY <1>2, <1>5, FirstCloudIsCloud DEF ReceiveClientRequest, Clouds
  <2>3. /\ sessions' = key /\ heap' = heap \cup {D(key)}
        /\ Send("cloud", key, s, CloudMsg(a, b, D(key)))
        /\ UNCHANGED setcap
    BY <1>2, <1>5, <2>1, <2>2 DEF ReceiveClientRequest, D, CloudMsg
  <2>4. CloudMsg(a, b, D(key)) \in Message /\ s \in Parties
    BY <2>1, <2>2, SessionTypes
  <2>5. stack' = <<Waiting("cloud", key), Entered(s, CloudMsg(a, b, D(key)))>> /\ outcome' = outcome
    BY <1>1, <2>1, <2>3, <2>4, ShortSend DEF TypeInv, TypeOK
  <2>6. Waiting("cloud", key) = HelperAt("cloud", a, b, key)
    BY <1>1 DEF Waiting, HelperAt, Entered
  <2>7. stack' # <<>>
    BY <2>5
  <2>8. AnyAtCloud(a, b, s, key)'
    BY <1>1, <2>3, <2>5, <2>6 DEF AnyAtCloud
  <2> QED BY <2>2, <2>3, <2>5, <2>7, <2>8 DEF Inside, Clean
<1> QED BY <1>2, <1>3, <1>4, <1>5, Dispatch

\* The cloud answers the requester from what is stored, or the process ends.
LEMMA AnyAtCloudStep ==
  ASSUME TypeInv, NEW a \in Clients, NEW b \in Clients, NEW s \in Servers, NEW key \in Nat,
         AnyAtCloud(a, b, s, key), Handle
  PROVE  (AnyAtRequester(a, b, s, key)' /\ sessions' = sessions /\ Inside) \/ Ended
<1>1. /\ stack = <<HelperAt("cloud", a, b, key), Entered(s, CloudMsg(a, b, D(key)))>>
      /\ Top = Entered(s, CloudMsg(a, b, D(key)))
  BY ShortStack DEF AnyAtCloud
<1>2. /\ Top.at = s /\ Top.pc = "enter" /\ Top.msg.from = a /\ Top.msg.partner = b
      /\ Top.msg.type = "CLOUD_COMPUTATION_REQUEST" /\ Top.msg.body.key = key
  BY <1>1 DEF Entered, CloudMsg, D
<1>3. CASE ~Accepted(Top.at, Top.msg)
  <2>1. HelperAt("cloud", a, b, key).pc = "cloud"
    BY DEF HelperAt
  <2> QED BY <1>1, <1>2, <1>3, <2>1, RefusedInside
<1>4. CASE ReceiveCloudRequest /\ ~(HasData(s, a) /\ HasData(s, b) /\ b \in known[s])
  BY <1>2, <1>4 DEF ReceiveCloudRequest, Undefined, protocolVars, Ended
<1>5. CASE ReceiveCloudRequest /\ HasData(s, a) /\ HasData(s, b) /\ b \in known[s]
  <2> DEFINE x == contents[stored[s][a]]
             y == contents[stored[s][b]]
             t == T(key, x, y)
  <2>1. x \in Clients /\ y \in Clients
    BY <1>5 DEF HasData, TypeInv, TypeOK
  <2>2. /\ heap' = heap \cup {t}
        /\ Send("output", 0, b, OutputMsg(s, t))
        /\ UNCHANGED <<setcap, sessions>>
    BY <1>2, <1>5 DEF ReceiveCloudRequest, T, OutputMsg
  <2> HIDE DEF x, y
  <2>3. t \in TMatrix /\ OutputMsg(s, t) \in Message /\ b \in Parties
    <3>1. t \in TMatrix /\ b \in Parties /\ s \in Parties
      BY <2>1 DEF T, TMatrix, Parties
    <3> HIDE DEF t
    <3> QED BY <3>1 DEF OutputMsg, Message, MessageTypes, Objects
  <2> HIDE DEF t
  <2>4. /\ stack' = <<HelperAt("cloud", a, b, key), Waiting("output", 0),
                     Entered(b, OutputMsg(s, t))>>
        /\ outcome' = outcome
    BY <1>1, <2>2, <2>3, ShortSend DEF TypeInv, TypeOK
  <2>5. Waiting("output", 0) = CloudAt(s, a, b, key)
    BY <1>1 DEF Waiting, CloudAt, Entered
  <2>6. heap' = {D(key), t}
    BY <2>2 DEF AnyAtCloud
  <2>7. AnyAtRequester(a, b, s, key)'
    BY <2>3, <2>4, <2>5, <2>6 DEF AnyAtRequester
  <2>8. stack' # <<>>
    BY <2>4
  <2> QED BY <2>2, <2>4, <2>7, <2>8 DEF Inside
<1> QED BY <1>2, <1>3, <1>4, <1>5, Dispatch

\* The requester keeps the output; a polynomial left from another session is
\* no longer allocated.
LEMMA AnyAtRequesterStep ==
  ASSUME TypeInv, NEW a \in Clients, NEW b \in Clients, NEW s \in Servers, NEW key \in Nat,
         AnyAtRequester(a, b, s, key), Handle
  PROVE  (AnyOutputReceived(a, b, s, key)' /\ sessions' = sessions /\ Inside) \/ Ended
<1>0. PICK t \in TMatrix :
        /\ heap = {D(key), t}
        /\ stack = <<HelperAt("cloud", a, b, key), CloudAt(s, a, b, key),
                     Entered(b, OutputMsg(s, t))>>
  BY DEF AnyAtRequester
<1>1. Top = Entered(b, OutputMsg(s, t))
  BY <1>0, ShortStack
<1>2. /\ Top.at = b /\ Top.pc = "enter" /\ Top.msg.type = "OUTPUT_COMPUTATION"
      /\ Top.msg.body = t
  BY <1>1 DEF Entered, OutputMsg
<1>3. CASE ~Accepted(Top.at, Top.msg)
  <2>1. HelperAt("cloud", a, b, key).pc = "cloud"
    BY DEF HelperAt
  <2> QED BY <1>0, <1>2, <1>3, <2>1, RefusedInside
<1>4. CASE ReceiveOutput /\ qp[b] # Null
  <2>1. qp[b] \in QMatrix
    BY <1>4 DEF TypeInv, TypeOK
  <2>2. qp[b] # t /\ qp[b] # D(key)
    BY <2>1 DEF QMatrix, TMatrix, D
  <2>3. Intersect(b, qp[b], t)
    BY <1>2, <1>4 DEF ReceiveOutput
  <2> QED BY <1>0, <2>2, <2>3 DEF Intersect, Ended
<1>5. CASE ReceiveOutput /\ qp[b] = Null
  <2>1. /\ tp' = [tp EXCEPT ![b] = t] /\ Return
        /\ UNCHANGED <<setcap, heap, sessions>>
    BY <1>2, <1>5 DEF ReceiveOutput
  <2>2. /\ stack' = <<HelperAt("cloud", a, b, key), CloudAt(s, a, b, key)>>
        /\ outcome' = outcome
    BY <1>0, <2>1, ShortReturn DEF TypeInv, TypeOK
  <2>3. tp'[b] = t /\ heap' = {D(key), t}
    BY <1>0, <2>1 DEF TypeInv, TypeOK
  <2>4. stack' # <<>>
    BY <2>2
  <2> QED BY <2>1, <2>2, <2>3, <2>4 DEF AnyOutputReceived, Inside
<1> QED BY <1>2, <1>3, <1>4, <1>5, Dispatch

\* The cloud deletes the data of the request, and no other object.
LEMMA AnyOutputReceivedStep ==
  ASSUME TypeInv, NEW a \in Clients, NEW b \in Clients, NEW s \in Servers, NEW key \in Nat,
         AnyOutputReceived(a, b, s, key), Handle
  PROVE  AnyCloudReturned(a, b, key)' /\ sessions' = sessions /\ Inside
<1>1. /\ stack = <<HelperAt("cloud", a, b, key), CloudAt(s, a, b, key)>>
      /\ Top = CloudAt(s, a, b, key)
  BY ShortStack DEF AnyOutputReceived
<1>2. Top.pc = "output" /\ Top.msg.body = D(key)
  BY <1>1 DEF CloudAt, CloudMsg
<1>3. DeleteRequestData
  BY <1>2, Dispatch
<1>4. /\ heap' = heap \ {D(key)} /\ Return /\ UNCHANGED <<tp, setcap, sessions>>
  BY <1>2, <1>3 DEF DeleteRequestData
<1>5. stack' = <<HelperAt("cloud", a, b, key)>> /\ outcome' = outcome
  BY <1>1, <1>4, ShortReturn DEF TypeInv, TypeOK
<1>6. tp[b] \in TMatrix /\ tp[b] # D(key)
  BY DEF AnyOutputReceived, TMatrix, D
<1>7. heap' = {tp'[b]} /\ tp'[b] \in TMatrix
  BY <1>4, <1>6 DEF AnyOutputReceived
<1>8. stack' # <<>>
  BY <1>5
<1> QED BY <1>4, <1>5, <1>7, <1>8 DEF AnyCloudReturned, Inside

\* The helper sends its polynomial.
LEMMA AnyCloudReturnedStep ==
  ASSUME TypeInv, NEW a \in Clients, NEW b \in Clients, NEW key \in Nat,
         AnyCloudReturned(a, b, key), Handle
  PROVE  AnyPolynomialSent(a, b, key)' /\ sessions' = sessions /\ Inside
<1>1. stack = <<HelperAt("cloud", a, b, key)>> /\ Top = HelperAt("cloud", a, b, key)
  BY ShortStack DEF AnyCloudReturned
<1>2. /\ Top.pc = "cloud" /\ Top.at = a /\ Top.msg = RequestMsg(b) /\ Top.msg.from = b
      /\ Top.key = key
  BY <1>1 DEF HelperAt, RequestMsg
<1>3. SendPolynomial
  BY <1>2, Dispatch
<1> DEFINE qOf(e) == [kind |-> "q", key |-> key, a |-> a, b |-> b, exact |-> e]
<1>4. PICK e \in BOOLEAN :
        /\ heap' = heap \cup {qOf(e)}
        /\ Send("poly", key, b, PolynomialMsg(a, qOf(e)))
        /\ UNCHANGED <<tp, setcap, sessions>>
  <2>1. PICK read \in ReadsSecret(SecretLen[b]) :
          /\ heap' = heap \cup {qOf(read /\ a \notin rekeyed /\ b \notin rekeyed)}
          /\ Send("poly", key, b,
                  PolynomialMsg(a, qOf(read /\ a \notin rekeyed /\ b \notin rekeyed)))
    BY <1>2, <1>3 DEF SendPolynomial, PolynomialMsg
  <2>2. (read /\ a \notin rekeyed /\ b \notin rekeyed) \in BOOLEAN
    OBVIOUS
  <2>3. UNCHANGED <<tp, setcap, sessions>>
    BY <1>3 DEF SendPolynomial
  <2> QED BY <2>1, <2>2, <2>3
<1> DEFINE q == qOf(e)
<1>5. q \in QMatrix
  BY DEF QMatrix
<1> HIDE DEF q, qOf
<1>6. PolynomialMsg(a, q) \in Message /\ b \in Parties
  BY <1>5 DEF PolynomialMsg, Message, MessageTypes, Objects, Parties
<1>7. /\ stack' = <<Waiting("poly", key), Entered(b, PolynomialMsg(a, q))>>
      /\ outcome' = outcome
  BY <1>1, <1>4, <1>6, ShortSend DEF TypeInv, TypeOK, q
<1>8. Waiting("poly", key) = HelperAt("poly", a, b, key)
  BY <1>2 DEF Waiting, HelperAt
<1>9. tp'[b] \in TMatrix /\ heap' = {tp'[b], q}
  BY <1>4 DEF AnyCloudReturned, q
<1>10. stack' # <<>>
  BY <1>7
<1> QED BY <1>4, <1>5, <1>7, <1>8, <1>9, <1>10 DEF AnyPolynomialSent, Inside

\* The requester intersects and releases both matrices, unless the process ends.
LEMMA AnyPolynomialSentStep ==
  ASSUME TypeInv, NEW a \in Clients, NEW b \in Clients, a # b, NEW key \in Nat,
         AnyPolynomialSent(a, b, key), Handle
  PROVE  \/ /\ AnyAnswered(a, b, key)' /\ sessions' = sessions
            /\ outcome' = outcome /\ stack' # <<>>
            /\ \A c \in Clients : setcap'[c] # setcap[c] =>
                 /\ c = b /\ stack # <<>> /\ stack[1].msg.from = b
                 /\ stack[1].msg.type = "CLIENT_COMPUTATION_REQUEST"
         \/ Ended
<1>0. PICK q \in QMatrix :
        /\ heap = {tp[b], q}
        /\ stack = <<HelperAt("poly", a, b, key), Entered(b, PolynomialMsg(a, q))>>
  BY DEF AnyPolynomialSent
<1>1. Top = Entered(b, PolynomialMsg(a, q)) /\ stack[1] = HelperAt("poly", a, b, key)
      /\ stack # <<>>
  BY <1>0, ShortStack
<1>2. /\ Top.at = b /\ Top.pc = "enter" /\ Top.msg.from = a
      /\ Top.msg.type = "POLYNOMIAL" /\ Top.msg.body = q
  BY <1>1 DEF Entered, PolynomialMsg
<1>3. CASE ~Accepted(Top.at, Top.msg)
  <2>1. DereferencesUnknownSender(Top.at, Top.msg)
    BY <1>2, <1>3, PartyAssumption
       DEF Accepted, ClientAuthorises, Refused, DereferencesUnknownSender
  <2>2. ReceiveUnknownSender
    BY <1>2, <1>3, <2>1, Dispatch DEF ReceiveRejected
  <2> QED BY <2>2 DEF ReceiveUnknownSender, Undefined, protocolVars, Ended
<1>4. CASE Accepted(Top.at, Top.msg)
  <2>1. ReceivePolynomial
    BY <1>2, <1>4, Dispatch
  <2>2. tp[b] # Null
    BY NullAssumption DEF AnyPolynomialSent, Objects
  <2>3. Intersect(b, q, tp[b]) /\ sessions' = sessions
    BY <1>2, <2>1, <2>2 DEF ReceivePolynomial
  <2>4. setcap' = [setcap EXCEPT ![b] = Answer(q, tp[b])] /\ heap' = {} /\ Return
    BY <1>0, <2>3 DEF Intersect
  <2>5. stack' = <<HelperAt("poly", a, b, key)>> /\ outcome' = outcome
    BY <1>0, <2>4, ShortReturn DEF TypeInv, TypeOK
  <2>6. \A c \in Clients : setcap'[c] # setcap[c] => c = b
    BY <2>4 DEF TypeInv, TypeOK
  <2>7. stack[1].msg.from = b /\ stack[1].msg.type = "CLIENT_COMPUTATION_REQUEST"
    BY <1>1 DEF HelperAt, RequestMsg
  <2>8. stack' # <<>>
    BY <2>5
  <2> QED BY <1>1, <2>3, <2>4, <2>5, <2>6, <2>7, <2>8 DEF AnyAnswered
<1> QED BY <1>3, <1>4

\* The helper returns to the application, without an exception.
LEMMA AnyAnsweredStep ==
  ASSUME TypeInv, NEW a, NEW b, NEW key, AnyAnswered(a, b, key), Handle
  PROVE  Back /\ Clean
<1>1. stack = <<HelperAt("poly", a, b, key)>> /\ Len(stack) = 1 /\ Top.pc = "poly"
  BY ShortStack DEF AnyAnswered, HelperAt
<1>2. Return /\ UNCHANGED protocolVars
  BY <1>1, Dispatch DEF ReturnToApplication
<1>3. stack' = <<>> /\ outcome' = outcome /\ raised' = FALSE
  BY <1>1, <1>2, ShortReturn DEF TypeInv, TypeOK, Return
<1> QED BY <1>2, <1>3 DEF Back, Clean, NoCall, AnyAnswered, protocolVars

\* A message out of place is refused.
LEMMA AnyMisplacedStep ==
  ASSUME TypeInv, AnyMisplaced, Handle
  PROVE  (Back \/ Ended) /\ Clean
<1>1. PICK p, r, claim \in Parties, type \in MessageTypes :
        /\ Misplaced(p, r, type, claim)
        /\ stack = <<Entered(r, [type |-> type, from |-> p, claim |-> claim,
                                 partner |-> Null, body |-> Null])>>
  BY DEF AnyMisplaced
<1> DEFINE msg == [type |-> type, from |-> p, claim |-> claim, partner |-> Null, body |-> Null]
<1>2. msg \in Message /\ msg.from = p /\ msg.claim = claim /\ msg.type = type
  BY DEF Message
<1>3. ~Accepted(r, msg)
  BY <1>1, <1>2, MisplacedRefused
<1> HIDE DEF msg
<1>4. stack = <<Entered(r, msg)>>
  BY <1>1 DEF msg
<1>5. Top = Entered(r, msg)
  BY <1>4, ShortStack
<1>6. Top.at = r /\ Top.msg = msg /\ Top.pc = "enter"
  BY <1>5 DEF Entered
<1>7. heap = {}
  BY DEF AnyMisplaced
<1> QED BY <1>3, <1>4, <1>6, <1>7, RefusedAlone

\* A cloud keeps a pointer, and returns.
LEMMA AnyOutsourcingStep ==
  ASSUME TypeInv, AnyOutsourcing, Handle
  PROVE  (Back \/ Ended) /\ Clean
<1>1. PICK c \in Clients, s \in Servers, m \in Envelopes :
        stack = <<Entered(s, OutsourcingMsg(c, m))>>
  BY DEF AnyOutsourcing
<1>2. Top = Entered(s, OutsourcingMsg(c, m)) /\ Len(stack) = 1 /\ heap = {}
  BY <1>1, ShortStack DEF AnyOutsourcing
<1>3. Top.pc = "enter" /\ Top.msg.type = "OUTSOURCING_DATA"
  BY <1>2 DEF Entered, OutsourcingMsg
<1>4. CASE ~Accepted(Top.at, Top.msg)
  BY <1>1, <1>2, <1>3, <1>4, RefusedAlone
<1>5. CASE ReceiveOutsourcing
  <2>1. Return /\ UNCHANGED <<setcap, heap>>
    BY <1>5 DEF ReceiveOutsourcing
  <2>2. stack' = <<>> /\ outcome' = outcome /\ raised' = FALSE
    BY <1>1, <1>2, <2>1, ShortReturn DEF TypeInv, TypeOK, Return
  <2> QED BY <1>2, <2>1, <2>2 DEF Back, Clean, NoCall
<1> QED BY <1>3, <1>4, <1>5, Dispatch

-----------------------------------------------------------------------------
(* The invariant *)

\* Between calls nothing is allocated.
LEMMA NobodyNests ==
  ASSUME AnyPhase, stack = <<>>
  PROVE  heap = {}
<1>1. \A x, y, z : stack # <<x>> /\ stack # <<x, y>> /\ stack # <<x, y, z>>
  BY ShortStack
<1>2. ~AnyMisplaced /\ ~AnyOutsourcing
  BY <1>1 DEF AnyMisplaced, AnyOutsourcing
<1>3. ASSUME NEW a, NEW b, NEW key PROVE ~AnySession(a, b, key)
  BY <1>1 DEF AnySession, AnyRequested, AnyAtCloud, AnyAtRequester, AnyOutputReceived,
     AnyCloudReturned, AnyPolynomialSent, AnyAnswered
<1> QED BY <1>2, <1>3 DEF AnyPhase, NoCall

\* A helper, its cloud and the requester are three parties.
LEMMA PhaseDistinct ==
  ASSUME AnyPhase
  PROVE  NoReentrance
<1>1. ASSUME NEW x, stack = <<x>> \/ stack = <<>> PROVE NoReentrance
  <2>1. Len(stack) \in {0, 1}
    BY <1>1, ShortStack
  <2> QED BY <2>1 DEF NoReentrance
<1>2. ASSUME NEW x, NEW y, stack = <<x, y>>, x.at # y.at PROVE NoReentrance
  <2>1. Len(stack) = 2 /\ stack[1] = x /\ stack[2] = y
    BY <1>2, ShortStack
  <2>2. \A i \in 1..2 : i = 1 \/ i = 2
    OBVIOUS
  <2> QED BY <1>2, <2>1, <2>2 DEF NoReentrance
<1>3. ASSUME NEW x, NEW y, NEW z, stack = <<x, y, z>>,
             x.at # y.at, x.at # z.at, y.at # z.at
      PROVE  NoReentrance
  <2>1. Len(stack) = 3 /\ stack[1] = x /\ stack[2] = y /\ stack[3] = z
    BY <1>3, ShortStack
  <2>2. \A i \in 1..3 : i = 1 \/ i = 2 \/ i = 3
    OBVIOUS
  <2> QED BY <1>3, <2>1, <2>2 DEF NoReentrance
<1>4. CASE NoCall \/ AnyMisplaced \/ AnyOutsourcing
  BY <1>1, <1>4 DEF NoCall, AnyMisplaced, AnyOutsourcing
<1>5. ASSUME NEW a \in Clients, NEW b \in Clients, NEW key \in 0..sessions, a # b,
             AnySession(a, b, key)
      PROVE  NoReentrance
  <2>1. \A pc : HelperAt(pc, a, b, key).at = a
    BY DEF HelperAt
  <2>2. \A p, msg : Entered(p, msg).at = p
    BY DEF Entered
  <2>3. \A s : CloudAt(s, a, b, key).at = s
    BY DEF CloudAt
  <2>4. \A s \in Servers : s # a /\ s # b
    BY PartyAssumption
  <2>5. CASE AnyRequested(a, b) \/ AnyCloudReturned(a, b, key) \/ AnyAnswered(a, b, key)
    BY <1>1, <2>5 DEF AnyRequested, AnyCloudReturned, AnyAnswered
  <2>6. ASSUME NEW s \in Servers, AnyAtCloud(a, b, s, key) \/ AnyOutputReceived(a, b, s, key)
        PROVE  NoReentrance
    BY <1>2, <2>1, <2>2, <2>3, <2>4, <2>6 DEF AnyAtCloud, AnyOutputReceived
  <2>7. ASSUME NEW s \in Servers, AnyAtRequester(a, b, s, key) PROVE NoReentrance
    BY <1>3, <1>5, <2>1, <2>2, <2>3, <2>4, <2>7 DEF AnyAtRequester
  <2>8. CASE AnyPolynomialSent(a, b, key)
    BY <1>2, <1>5, <2>1, <2>2, <2>8 DEF AnyPolynomialSent
  <2> QED BY <1>5, <2>5, <2>6, <2>7, <2>8 DEF AnySession
<1> QED BY <1>4, <1>5 DEF AnyPhase

OnlyLearns ==
  \A c \in Clients : setcap'[c] # setcap[c] =>
    /\ stack # <<>>
    /\ stack[1].msg.type = "CLIENT_COMPUTATION_REQUEST"
    /\ stack[1].msg.from = c

\* Every step inside a call leads to the next phase, back to the application,
\* or to the end of the process.
LEMMA HandleNests ==
  ASSUME TypeInv, AnyPhase, Handle
  PROVE  (AnyPhase' \/ Ended) /\ Clean /\ OnlyLearns
<1>1. stack # <<>> /\ outcome = "running"
  BY Dispatch
<1>2. Back => AnyPhase' /\ OnlyLearns
  BY DEF Back, AnyPhase, OnlyLearns
<1>3. Ended => Clean /\ OnlyLearns
  BY <1>1 DEF Ended, Clean, OnlyLearns
<1>4. Inside => Clean /\ OnlyLearns
  BY DEF Inside, Clean, OnlyLearns
<1>5. CASE AnyMisplaced \/ AnyOutsourcing
  BY <1>2, <1>3, <1>5, AnyMisplacedStep, AnyOutsourcingStep
<1>6. ASSUME NEW a \in Clients, NEW b \in Clients, NEW key \in 0..sessions, a # b,
             AnySession(a, b, key)
      PROVE  (AnyPhase' \/ Ended) /\ Clean /\ OnlyLearns
  <2>1. key \in Nat /\ sessions \in Nat
    BY DEF TypeInv, TypeOK
  <2>2. ASSUME sessions' = sessions, AnySession(a, b, key)' PROVE AnyPhase'
    BY <1>6, <2>2 DEF AnyPhase
  <2>3. CASE AnyRequested(a, b)
    <3>1. ASSUME NEW s \in Servers, NEW k \in Nat, AnyAtCloud(a, b, s, k)', k = sessions'
          PROVE  AnyPhase'
      <4>1. k \in 0..sessions'
        BY <3>1
      <4>2. AnySession(a, b, k)'
        BY <3>1 DEF AnySession
      <4> QED BY <1>6, <4>1, <4>2 DEF AnyPhase
    <3> QED BY <1>2, <1>3, <1>4, <1>6, <2>3, <3>1, AnyRequestedStep
  <2>4. ASSUME NEW s \in Servers, AnyAtCloud(a, b, s, key) \/ AnyAtRequester(a, b, s, key)
                                  \/ AnyOutputReceived(a, b, s, key)
        PROVE  (AnyPhase' \/ Ended) /\ Clean /\ OnlyLearns
    <3>1. \/ Ended
          \/ /\ sessions' = sessions /\ Inside
             /\ \/ AnyAtRequester(a, b, s, key)' \/ AnyOutputReceived(a, b, s, key)'
                \/ AnyCloudReturned(a, b, key)'
      BY <2>1, <2>4, AnyAtCloudStep, AnyAtRequesterStep, AnyOutputReceivedStep
    <3> QED BY <1>3, <1>4, <2>2, <3>1 DEF AnySession
  <2>5. CASE AnyCloudReturned(a, b, key)
    BY <1>4, <2>1, <2>2, <2>5, AnyCloudReturnedStep DEF AnySession
  <2>6. CASE AnyPolynomialSent(a, b, key)
    <3>1. CASE Ended
      BY <1>3, <3>1
    <3>2. CASE ~Ended
      <4>1. /\ AnyAnswered(a, b, key)' /\ sessions' = sessions /\ stack' # <<>>
            /\ \A c \in Clients : setcap'[c] # setcap[c] =>
                 /\ c = b /\ stack # <<>> /\ stack[1].msg.from = b
                 /\ stack[1].msg.type = "CLIENT_COMPUTATION_REQUEST"
        BY <1>6, <2>1, <2>6, <3>2, AnyPolynomialSentStep
      <4> QED BY <2>2, <4>1 DEF AnySession, Clean, OnlyLearns
    <3> QED BY <3>1, <3>2
  <2>7. CASE AnyAnswered(a, b, key)
    BY <1>2, <2>7, AnyAnsweredStep
  <2> QED BY <1>6, <2>3, <2>4, <2>5, <2>6, <2>7 DEF AnySession
<1> QED BY <1>1, <1>5, <1>6 DEF AnyPhase, NoCall

\* The application calls only between calls, and its own steps change no answer.
LEMMA ApplicationNests ==
  ASSUME TypeInv, AnyPhase, Application
  PROVE  (AnyPhase' \/ Ended) /\ stack = <<>> /\ setcap' = setcap
<1>1. stack = <<>> /\ outcome = "running"
  BY DEF Application, Authenticate, AuthenticateAll, SetRawData, SetSecret, Outsource, Request,
     SendMisplaced, Idle, Running
<1>2. heap = {} /\ sessions \in Nat
  BY <1>1, NobodyNests DEF TypeInv, TypeOK
<1>3. CASE \/ \E pair \in Pairs : Authenticate(pair[1], pair[2])
           \/ AuthenticateAll
           \/ \E c \in Clients : SetRawData(c) \/ SetSecret(c)
  <2>1. UNCHANGED <<stack, heap, setcap>>
    BY <1>3 DEF Authenticate, AuthenticateAll, SetRawData, SetSecret, Exit
  <2> QED BY <1>1, <1>2, <2>1 DEF AnyPhase, NoCall
<1>4. ASSUME NEW c \in Clients, NEW s \in Servers, NEW m \in Envelopes, Outsource(c, s, m)
      PROVE  AnyPhase' /\ setcap' = setcap
  BY <1>2, <1>4 DEF Outsource, Call, OutsourcingMsg, AnyOutsourcing, AnyPhase
<1>5. ASSUME NEW c \in Clients, NEW d \in Clients, Request(c, d)
      PROVE  AnyPhase' /\ setcap' = setcap
  <2>1. c # d /\ stack' = <<Entered(d, RequestMsg(c))>> /\ UNCHANGED protocolVars
    BY <1>5 DEF Request, Call, RequestMsg
  <2>2. AnySession(d, c, 0)' /\ 0 \in 0..sessions'
    BY <1>2, <2>1 DEF AnySession, AnyRequested, protocolVars
  <2> QED BY <2>1, <2>2 DEF AnyPhase, protocolVars
<1>6. ASSUME NEW p \in Parties, NEW r \in Parties, NEW claim \in Parties,
             NEW type \in MessageTypes, SendMisplaced(p, r, type, claim)
      PROVE  AnyPhase' /\ setcap' = setcap
  <2>1. /\ Misplaced(p, r, type, claim)
        /\ stack' = <<Entered(r, [type |-> type, from |-> p, claim |-> claim,
                                  partner |-> Null, body |-> Null])>>
        /\ UNCHANGED protocolVars
    BY <1>6 DEF SendMisplaced, Call
  <2>2. AnyMisplaced'
    BY <1>2, <2>1 DEF AnyMisplaced, Misplaced, protocolVars
  <2> QED BY <2>1, <2>2 DEF AnyPhase, protocolVars
<1> QED BY <1>1, <1>3, <1>4, <1>5, <1>6 DEF Application

\* Nothing moves where the process has ended.
LEMMA RunningNext ==
  ASSUME Next
  PROVE  Running
<1>1. CASE Handle
  BY <1>1, Dispatch DEF Running
<1>2. CASE Application
  BY <1>2 DEF Application, Authenticate, AuthenticateAll, SetRawData, SetSecret, Outsource,
     Request, SendMisplaced, Idle
<1> QED BY <1>1, <1>2 DEF Next

LEMMA NextNests ==
  ASSUME TypeInv, NestInv, [Next]_vars
  PROVE  NestInv'
<1>1. CASE UNCHANGED vars
  <2>1. NoReentrance' /\ (Running' <=> Running)
    BY <1>1 DEF vars, NestInv, NoReentrance, Running
  <2>2. AnyPhase => AnyPhase'
    <3>1. (NoCall => NoCall') /\ (AnyMisplaced => AnyMisplaced')
      BY <1>1 DEF vars, NoCall, AnyMisplaced, Misplaced
    <3>2. AnyOutsourcing => AnyOutsourcing'
      BY <1>1 DEF vars, AnyOutsourcing
    <3>3. \A a, b, key : AnySession(a, b, key) => AnySession(a, b, key)'
      BY <1>1 DEF vars, AnySession, AnyRequested, AnyAtCloud, AnyAtRequester,
         AnyOutputReceived, AnyCloudReturned, AnyPolynomialSent, AnyAnswered
    <3>4. sessions' = sessions
      BY <1>1 DEF vars
    <3> QED BY <3>1, <3>2, <3>3, <3>4 DEF AnyPhase
  <2> QED BY <2>1, <2>2 DEF NestInv
<1>2. CASE Next
  <2>1. Running /\ AnyPhase
    BY <1>2, RunningNext DEF NestInv
  <2>2. AnyPhase' \/ Ended
    BY <1>2, <2>1, HandleNests, ApplicationNests DEF Next
  <2>3. CASE Ended
    BY <2>3 DEF Ended, NestInv, NoReentrance, Running
  <2>4. CASE AnyPhase'
    <3>1. NoReentrance'
      BY <2>4, PhaseDistinct, PTL
    <3> QED BY <2>4, <3>1 DEF NestInv
  <2> QED BY <2>2, <2>3, <2>4
<1> QED BY <1>1, <1>2

LEMMA InitNests == Init => NestInv
<1> SUFFICES ASSUME Init PROVE NestInv
  OBVIOUS
<1>1. NoCall
  BY DEF Init, NoCall
<1>2. AnyPhase
  BY <1>1 DEF AnyPhase
<1> QED BY <1>2, PhaseDistinct DEF NestInv

LEMMA NestAlways == Spec => [](TypeInv /\ NestInv)
<1>1. Init => TypeInv /\ NestInv
  BY InitTyped, InitNests
<1>2. TypeInv /\ NestInv /\ [Next]_vars => TypeInv' /\ NestInv'
  BY NextTyped, NextNests
<1> QED BY <1>1, <1>2, PTL DEF Spec

-----------------------------------------------------------------------------
(* What follows *)

\* No party is in two active calls, whatever the application does: the members
\* msgToCloud, msgToClient and bm belong to one call at a time.
THEOREM NeverReentrant == Spec => []NoReentrance
<1>1. NestInv => NoReentrance
  BY DEF NestInv
<1> QED BY <1>1, NestAlways, PTL

\* Between two calls of the application nothing is allocated, whoever threw and
\* whatever was left in the members t and q.
THEOREM NeverLeaks == Spec => []NothingLeaks
<1>1. NestInv => NothingLeaks
  BY NobodyNests DEF NestInv, NothingLeaks, Idle
<1> QED BY <1>1, NestAlways, PTL

\* An exception reaches the application only from the call it made itself, and
\* that call has changed nothing.
THEOREM ExceptionsClean == Spec => ExceptionsAreClean
<1>1. ASSUME TypeInv, NestInv, Next PROVE Clean
  <2>1. AnyPhase
    BY <1>1, RunningNext DEF NestInv
  <2>2. CASE Handle
    BY <1>1, <2>1, <2>2, HandleNests
  <2>3. CASE Application
    BY <1>1, <2>1, <2>3, ApplicationNests DEF Clean
  <2> QED BY <1>1, <2>2, <2>3 DEF Next
<1>2. TypeInv /\ NestInv /\ [Next]_vars =>
        [stack # <<>> /\ stack' = <<>> /\ raised' =>
           Len(stack) = 1 /\ Top.pc = "enter" /\ UNCHANGED protocolVars]_vars
  BY <1>1 DEF Clean
<1> QED BY <1>2, NestAlways, PTL DEF Spec, ExceptionsAreClean

\* An intersection is learned only by the client whose request is being served,
\* whatever the pointers of earlier sessions lead to.
THEOREM RequesterAloneLearns == Spec => OnlyRequesterLearns
<1>1. ASSUME TypeInv, NestInv, Next PROVE OnlyLearns
  <2>1. AnyPhase
    BY <1>1, RunningNext DEF NestInv
  <2>2. CASE Handle
    BY <1>1, <2>1, <2>2, HandleNests
  <2>3. CASE Application
    BY <1>1, <2>1, <2>3, ApplicationNests DEF OnlyLearns
  <2> QED BY <1>1, <2>2, <2>3 DEF Next
<1>2. TypeInv /\ NestInv /\ [Next]_vars =>
        [\A c \in Clients : setcap'[c] # setcap[c] =>
           /\ stack # <<>>
           /\ stack[1].msg.type = "CLIENT_COMPUTATION_REQUEST"
           /\ stack[1].msg.from = c]_vars
  BY <1>1 DEF OnlyLearns
<1> QED BY <1>2, NestAlways, PTL DEF Spec, OnlyRequesterLearns

=============================================================================
