------------------------------- MODULE EOPSI -------------------------------
(***************************************************************************)
(* The parties of the EO-PSI protocol: EOPSIClient, EOPSIServer and their   *)
(* base EOPSIParty, driven by an application.                               *)
(*                                                                          *)
(* send() calls receive() of the other party, so a session is one nest of   *)
(* calls on one thread:                                                     *)
(*                                                                          *)
(*   application -> helper.receive(CLIENT_COMPUTATION_REQUEST)              *)
(*                    -> cloud.receive(CLOUD_COMPUTATION_REQUEST)           *)
(*                         -> requester.receive(OUTPUT_COMPUTATION)   (t)   *)
(*                    -> requester.receive(POLYNOMIAL)                (q)   *)
(*                                                                          *)
(* The call stack is a variable, and an action is the code a receive() runs *)
(* until it calls send(), returns, throws, or ends the process.             *)
(*                                                                          *)
(* Matrices over the field are symbolic.  A heap object is a record that    *)
(* says what its contents were computed from; a pointer is the record, and  *)
(* it dangles when the record is not in heap.  The temporary keys are       *)
(* distinct numbers, since a key is 128 fresh random bits.                  *)
(*                                                                          *)
(* A variant of an operator is what a fault in the code would make of it;   *)
(* the runs of PROJECT.json use each to show a property that it breaks.     *)
(***************************************************************************)
EXTENDS Naturals, Sequences, FiniteSets

CONSTANTS
  Clients,      \* ids of the EOPSIClient objects
  Servers,      \* ids of the EOPSIServer objects
  Rank,         \* the order of the ids in a std::map<std::string, ...>
  Data,         \* the raw data of each client, a set of numbers
  SecretLen,    \* NTL::bytes() of each client's secret
  Envelopes,    \* the application's EOPSIMessage objects for outsourcing
  MaxSessions,  \* bound: client computation requests the application makes
  Pairs,        \* bound: pairs the application authenticates one at a time
  Promises,     \* what the application promises, see Ready
  Null

Parties == Clients \cup Servers

PromiseNames == {"authenticated", "outsourced", "ownEnvelope", "keptSecret",
                 "secretFits", "fresh", "nonzero"}

ASSUME PartyAssumption ==
  /\ Clients \cap Servers = {}
  /\ Null \notin Parties \cup Envelopes

ASSUME RankAssumption ==
  /\ Rank \in [Parties -> Nat]
  /\ \A p, r \in Parties : Rank[p] = Rank[r] => p = r

ASSUME DataAssumption ==
  /\ Data \in [Clients -> SUBSET Nat]
  /\ SecretLen \in [Clients -> Nat]

ASSUME PairsAssumption == Pairs \subseteq Parties \X Parties

ASSUME PromisesAssumption == Promises \subseteq PromiseNames

VARIABLES
  known,     \* known[p]: the keys of p.parties
  blinded,   \* clients whose blindedData is set
  rekeyed,   \* clients whose secret was set again after blinding
  contents,  \* contents[m]: the client whose blinded data m points to, or Null
  stored,    \* stored[s][c]: the message storedData[c] of s points to, or Null
  tp, qp,    \* tp[c], qp[c]: the members t and q of client c
  setcap,    \* setcap[c]: the last intersection c computed
  heap,      \* live matrices t and q and message bodies
  sessions,  \* temporary keys drawn
  stack,     \* active receive() calls, the innermost last
  raised,    \* whether the application's last send() threw
  outcome    \* "running", "exit" (the process ended) or "undefined"

protocolVars == <<known, blinded, rekeyed, contents, stored, tp, qp, setcap, heap, sessions>>
vars == <<known, blinded, rekeyed, contents, stored, tp, qp, setcap, heap,
          sessions, stack, raised, outcome>>

-----------------------------------------------------------------------------
(* Messages, frames and heap objects *)

MessageTypes == {"OUTSOURCING_DATA", "CLIENT_COMPUTATION_REQUEST",
                 "CLOUD_COMPUTATION_REQUEST", "OUTPUT_COMPUTATION",
                 "POLYNOMIAL", "UNKNOWN"}

\* The matrix intersectionOutput allocates: the data of a and b under the key.
TMatrix == [kind : {"t"}, key : Nat, a : Clients, b : Clients]
\* The matrix delegationOutput allocates.  exact: the two secrets it used are
\* those that blinded the data a and b outsourced.
QMatrix == [kind : {"q"}, key : Nat, a : Clients, b : Clients, exact : BOOLEAN]
\* The bytes of a cloud computation request.
Body == [kind : {"data"}, key : Nat]
Objects == TMatrix \cup QMatrix \cup Body

ASSUME NullAssumption == Null \notin Objects
ASSUME NoRequestAssumption == Null \notin [who : Clients, of : Clients, done : BOOLEAN]

\* claim and partner stand for the ids written in the data of the message.
Message == [type : MessageTypes, from : Parties, claim : Parties,
            partner : Parties \cup {Null}, body : Objects \cup Envelopes \cup {Null}]

\* pc: where the call is.  "enter" at its beginning, else the send() it makes.
\* key: the local tmpKey of a helper.
Frame == [at : Parties, msg : Message, pc : {"enter", "cloud", "output", "poly"}, key : Nat]

Entered(p, msg) == [at |-> p, msg |-> msg, pc |-> "enter", key |-> 0]

Top == stack[Len(stack)]

Running == outcome = "running"
Idle == Running /\ stack = <<>>
Active == Running /\ stack # <<>>

-----------------------------------------------------------------------------
(* Control: send(), return, exceptions and the ends of the process *)

\* The top frame, once it waits at pc.
Waiting(pc, key) == [at |-> Top.at, msg |-> Top.msg, pc |-> pc, key |-> key]

\* The top frame calls send(): it waits at pc, the callee is entered.
Send(pc, key, p, msg) ==
  /\ stack' = Append([stack EXCEPT ![Len(stack)] = Waiting(pc, key)],
                     Entered(p, msg))
  /\ UNCHANGED <<raised, outcome>>

Return ==
  /\ stack' = SubSeq(stack, 1, Len(stack) - 1)
  /\ raised' = IF Len(stack) = 1 THEN FALSE ELSE raised
  /\ UNCHANGED outcome

\* Variant of Throw: the helper does not catch what its cloud throws.
ThrowUncaught ==
  /\ stack' = <<>> /\ raised' = TRUE /\ UNCHANGED outcome
  /\ UNCHANGED protocolVars

\* A ProtocolException passes through send() up to the application, unless a
\* helper waits for the cloud: it catches it and exits.
Throw ==
  /\ IF \E i \in 1..(Len(stack) - 1) : stack[i].pc = "cloud"
       THEN outcome' = "exit" /\ UNCHANGED <<stack, raised>>
       ELSE stack' = <<>> /\ raised' = TRUE /\ UNCHANGED outcome
  /\ UNCHANGED protocolVars

Exit == outcome' = "exit" /\ UNCHANGED <<stack, raised>>
Undefined == outcome' = "undefined" /\ UNCHANGED <<stack, raised>> /\ UNCHANGED protocolVars

-----------------------------------------------------------------------------
(* Authorisation *)

HasAuthenticated(p, r) == r \in known[p]

\* Variant of ServerAuthorises: the type alone decides.
ServerAuthorisesAnyone(s, msg) ==
  \/ msg.type \in {"CLOUD_COMPUTATION_REQUEST", "OUTSOURCING_DATA"}
  \/ msg.type = "OUTPUT_COMPUTATION" /\ msg.from \in Servers

\* EOPSIServer::isAuthorised
ServerAuthorises(s, msg) ==
  /\ HasAuthenticated(s, msg.from)
  /\ \/ msg.type \in {"CLOUD_COMPUTATION_REQUEST", "OUTSOURCING_DATA"}
     \/ msg.type = "OUTPUT_COMPUTATION" /\ msg.from \in Servers

\* EOPSIClient::isAuthorised, for a sender that getPartyById finds
ClientAuthorises(c, msg) ==
  /\ HasAuthenticated(c, msg.from)
  /\ \/ msg.type \in {"CLIENT_COMPUTATION_REQUEST", "POLYNOMIAL"} /\ msg.from \in Clients
     \/ msg.type = "OUTPUT_COMPUTATION" /\ msg.from \in Servers

\* EOPSIClient::isAuthorised dereferences the sender without a null check.
DereferencesUnknownSender(p, msg) ==
  p \in Clients /\ msg.from # p /\ ~HasAuthenticated(p, msg.from)

\* Variant of Refused: the ids in the data are not compared with the sender.
RefusedServersOnly(p, msg) == p \in Servers /\ msg.from \in Servers

\* What receive() refuses after isAuthorised: servers that act as clients, and
\* data that claims another sender.
Refused(p, msg) ==
  \/ p \in Servers /\ msg.from \in Servers
  \/ /\ msg.type \in {"CLIENT_COMPUTATION_REQUEST", "CLOUD_COMPUTATION_REQUEST"}
     /\ msg.claim # msg.from

Accepted(p, msg) ==
  /\ msg.from # p
  /\ IF p \in Servers THEN ServerAuthorises(p, msg) ELSE ClientAuthorises(p, msg)
  /\ ~Refused(p, msg)

Entering == Active /\ Top.pc = "enter"
Receiving(type) == Entering /\ Accepted(Top.at, Top.msg) /\ Top.msg.type = type

\* Self-messages, unauthorised or forbidden messages and mismatched ids.
ReceiveRejected ==
  /\ Entering
  /\ ~Accepted(Top.at, Top.msg)
  /\ ~DereferencesUnknownSender(Top.at, Top.msg)
  /\ Throw

ReceiveUnknownSender ==
  /\ Entering
  /\ DereferencesUnknownSender(Top.at, Top.msg)
  /\ Undefined

-----------------------------------------------------------------------------
(* The helper: EOPSIClient::receive, CLIENT_COMPUTATION_REQUEST *)

Clouds(c) == known[c] \cap Servers

\* The first server met while walking the map of the parties.
FirstCloud(c) == CHOOSE s \in Clouds(c) : \A r \in Clouds(c) : Rank[s] <= Rank[r]

ReceiveClientRequest ==
  /\ Receiving("CLIENT_COMPUTATION_REQUEST")
  /\ Clouds(Top.at) # {}
  /\ LET key == sessions + 1
         data == [kind |-> "data", key |-> key]
     IN /\ sessions' = key
        /\ heap' = heap \cup {data}
        /\ Send("cloud", key, FirstCloud(Top.at),
                [type |-> "CLOUD_COMPUTATION_REQUEST", from |-> Top.at, claim |-> Top.at,
                 partner |-> Top.msg.from, body |-> data])
  /\ UNCHANGED <<known, blinded, rekeyed, contents, stored, tp, qp, setcap>>

\* Variant of ReceiveClientRequestNoCloud: it looks for a cloud again and again.
LooksForCloud ==
  /\ Receiving("CLIENT_COMPUTATION_REQUEST")
  /\ Clouds(Top.at) = {}
  /\ UNCHANGED vars

\* The helper knows no cloud.
ReceiveClientRequestNoCloud ==
  /\ Receiving("CLIENT_COMPUTATION_REQUEST")
  /\ Clouds(Top.at) = {}
  /\ Exit
  /\ UNCHANGED protocolVars

\* Variant of ReadsSecret: two bytes are read instead of three.
ReadsTwoBytes(len) == {len = 2}

\* What ZZFromBytes(otherSecretBytes, 3) makes of a secret of len bytes: TRUE
\* when it is the secret.  A longer secret is cut; a shorter one is read with
\* its terminator, and below two bytes with a byte beyond the message.
ReadsSecret(len) ==
  IF len \in {2, 3} THEN {TRUE} ELSE IF len > 3 THEN {FALSE} ELSE BOOLEAN

\* The cloud has answered: compute q and send it to the requester.
SendPolynomial ==
  /\ Active
  /\ Top.pc = "cloud"
  /\ \E read \in ReadsSecret(SecretLen[Top.msg.from]) :
       LET q == [kind |-> "q", key |-> Top.key, a |-> Top.at, b |-> Top.msg.from,
                 exact |-> read /\ Top.at \notin rekeyed /\ Top.msg.from \notin rekeyed]
       IN /\ heap' = heap \cup {q}
          /\ qp' = [qp EXCEPT ![Top.at] = q]
          /\ Send("poly", Top.key, Top.msg.from,
                  [type |-> "POLYNOMIAL", from |-> Top.at, claim |-> Top.at,
                   partner |-> Null, body |-> q])
  /\ UNCHANGED <<known, blinded, rekeyed, contents, stored, tp, setcap, sessions>>

ReturnToApplication ==
  /\ Active
  /\ Top.pc = "poly"
  /\ Return
  /\ UNCHANGED protocolVars

-----------------------------------------------------------------------------
(* The requester: EOPSIClient::receive, OUTPUT_COMPUTATION and POLYNOMIAL *)

\* Variant of Found: the multiplicity of a root is not counted.
FoundInOne(a, b) == Data[a] \ {0}

\* The roots findIntersection keeps: NumTwos(0) is 0, so that the root 0 never
\* shows the padding a common element must have.
Found(a, b) == (Data[a] \cap Data[b]) \ {0}

\* t - q is the blinded combination of the two polynomials alone.
Unblinds(q, t) == t.key = q.key /\ t.a = q.a /\ t.b = q.b /\ q.exact

NoAnswer == [clean |-> FALSE, set |-> {}]
Answer(q, t) == IF Unblinds(q, t) THEN [clean |-> TRUE, set |-> Found(q.a, q.b)] ELSE NoAnswer

\* Variant of Intersect: only one of the two matrices is deleted.
IntersectKeepsOutput(c, q, t) ==
  IF {q, t} \subseteq heap
  THEN /\ setcap' = [setcap EXCEPT ![c] = Answer(q, t)]
       /\ heap' = heap \ {q}
       /\ Return
  ELSE outcome' = "undefined" /\ UNCHANGED <<setcap, heap, stack, raised>>

\* intersect() and the delete [] of both matrices; the members keep the pointers.
Intersect(c, q, t) ==
  IF {q, t} \subseteq heap
  THEN /\ setcap' = [setcap EXCEPT ![c] = Answer(q, t)]
       /\ heap' = heap \ {q, t}
       /\ Return
  ELSE outcome' = "undefined" /\ UNCHANGED <<setcap, heap, stack, raised>>

\* Variant of ReceiveOutput: the output is kept in the wrong member.
OutputIntoPolynomial ==
  /\ Receiving("OUTPUT_COMPUTATION")
  /\ qp' = [qp EXCEPT ![Top.at] = Top.msg.body]
  /\ Return
  /\ UNCHANGED <<known, blinded, rekeyed, contents, stored, tp, setcap, heap, sessions>>

\* Variant of ReceiveOutput: the polynomial is taken to be there.
OutputIntersects ==
  /\ Receiving("OUTPUT_COMPUTATION")
  /\ tp' = [tp EXCEPT ![Top.at] = Top.msg.body]
  /\ Intersect(Top.at, qp[Top.at], Top.msg.body)
  /\ UNCHANGED <<known, blinded, rekeyed, contents, stored, qp, sessions>>

ReceiveOutput ==
  /\ Receiving("OUTPUT_COMPUTATION")
  /\ tp' = [tp EXCEPT ![Top.at] = Top.msg.body]
  /\ IF qp[Top.at] = Null
     THEN Return /\ UNCHANGED <<setcap, heap>>
     ELSE Intersect(Top.at, qp[Top.at], Top.msg.body)
  /\ UNCHANGED <<known, blinded, rekeyed, contents, stored, qp, sessions>>

\* Variant of ReceivePolynomial: it never intersects, as if the output came last.
PolynomialOnlyKept ==
  /\ Receiving("POLYNOMIAL")
  /\ qp' = [qp EXCEPT ![Top.at] = Top.msg.body]
  /\ Return
  /\ UNCHANGED <<known, blinded, rekeyed, contents, stored, tp, setcap, heap, sessions>>

\* Variant of ReceivePolynomial: the answer goes to the helper.
PolynomialForSender ==
  /\ Receiving("POLYNOMIAL")
  /\ qp' = [qp EXCEPT ![Top.at] = Top.msg.body]
  /\ IF tp[Top.at] = Null
     THEN Return /\ UNCHANGED <<setcap, heap>>
     ELSE Intersect(Top.msg.from, Top.msg.body, tp[Top.at])
  /\ UNCHANGED <<known, blinded, rekeyed, contents, stored, tp, sessions>>

ReceivePolynomial ==
  /\ Receiving("POLYNOMIAL")
  /\ qp' = [qp EXCEPT ![Top.at] = Top.msg.body]
  /\ IF tp[Top.at] = Null
     THEN Return /\ UNCHANGED <<setcap, heap>>
     ELSE Intersect(Top.at, Top.msg.body, tp[Top.at])
  /\ UNCHANGED <<known, blinded, rekeyed, contents, stored, tp, sessions>>

-----------------------------------------------------------------------------
(* The cloud: EOPSIServer::receive *)

\* Variant of ReceiveOutsourcing: one pointer serves all the clients.
OutsourcingForAll ==
  /\ Receiving("OUTSOURCING_DATA")
  /\ stored' = [stored EXCEPT ![Top.at] =
       [c \in Clients |-> IF @[c] # Null \/ c = Top.msg.from THEN Top.msg.body ELSE Null]]
  /\ Return
  /\ UNCHANGED <<known, blinded, rekeyed, contents, tp, qp, setcap, heap, sessions>>

ReceiveOutsourcing ==
  /\ Receiving("OUTSOURCING_DATA")
  /\ stored' = [stored EXCEPT ![Top.at][Top.msg.from] = Top.msg.body]
  /\ Return
  /\ UNCHANGED <<known, blinded, rekeyed, contents, tp, qp, setcap, heap, sessions>>

HasData(s, c) == stored[s][c] # Null /\ contents[stored[s][c]] # Null

\* Variant of ReceiveCloudRequest: the output goes to the helper.
OutputToHelper ==
  /\ Receiving("CLOUD_COMPUTATION_REQUEST")
  /\ LET a == Top.msg.from
         b == Top.msg.partner
         t == [kind |-> "t", key |-> Top.msg.body.key,
               a |-> contents[stored[Top.at][a]], b |-> contents[stored[Top.at][b]]]
     IN IF HasData(Top.at, a) /\ HasData(Top.at, b) /\ b \in known[Top.at]
        THEN /\ heap' = heap \cup {t}
             /\ Send("output", 0, a,
                     [type |-> "OUTPUT_COMPUTATION", from |-> Top.at, claim |-> Top.at,
                      partner |-> Null, body |-> t])
             /\ UNCHANGED <<known, blinded, rekeyed, contents, stored, tp, qp, setcap, sessions>>
        ELSE Undefined

\* intersectionOutput follows the stored pointers, and the partner is looked up
\* in the parties of the server: none is checked for null.
ReceiveCloudRequest ==
  /\ Receiving("CLOUD_COMPUTATION_REQUEST")
  /\ LET a == Top.msg.from
         b == Top.msg.partner
         t == [kind |-> "t", key |-> Top.msg.body.key,
               a |-> contents[stored[Top.at][a]], b |-> contents[stored[Top.at][b]]]
     IN IF HasData(Top.at, a) /\ HasData(Top.at, b) /\ b \in known[Top.at]
        THEN /\ heap' = heap \cup {t}
             /\ Send("output", 0, b,
                     [type |-> "OUTPUT_COMPUTATION", from |-> Top.at, claim |-> Top.at,
                      partner |-> Null, body |-> t])
             /\ UNCHANGED <<known, blinded, rekeyed, contents, stored, tp, qp, setcap, sessions>>
        ELSE Undefined

\* Variant of DeleteRequestData: the cloud also deletes the output it sent.
DeleteRequestDataAndOutput ==
  /\ Active
  /\ Top.pc = "output"
  /\ heap' = {o \in heap : o.kind = "q"}
  /\ Return
  /\ UNCHANGED <<known, blinded, rekeyed, contents, stored, tp, qp, setcap, sessions>>

\* The partner has its matrix: the server deletes the data of the request.
DeleteRequestData ==
  /\ Active
  /\ Top.pc = "output"
  /\ heap' = heap \ {Top.msg.body}
  /\ Return
  /\ UNCHANGED <<known, blinded, rekeyed, contents, stored, tp, qp, setcap, sessions>>

-----------------------------------------------------------------------------
(* The application *)

Promised(name) == name \in Promises

Authenticate(p, r) ==
  /\ Idle
  /\ p # r
  /\ known' = [known EXCEPT ![p] = @ \cup {r}]
  /\ UNCHANGED <<blinded, rekeyed, contents, stored, tp, qp, setcap, heap, sessions,
                 stack, raised, outcome>>

\* authentication(...) of the simulation: every two parties know each other.
AuthenticateAll ==
  /\ Idle
  /\ known' = [p \in Parties |-> Parties \ {p}]
  /\ UNCHANGED <<blinded, rekeyed, contents, stored, tp, qp, setcap, heap, sessions,
                 stack, raised, outcome>>

\* setRawData blinds the data.  The process ends when a bucket overflows, which
\* the data of a first call may cause and a second call causes always: blind()
\* leaves every bucket full.
SetRawData(c) ==
  /\ Idle
  /\ \/ c \notin blinded /\ blinded' = blinded \cup {c} /\ UNCHANGED <<stack, raised, outcome>>
     \/ Exit /\ UNCHANGED blinded
  /\ UNCHANGED <<known, rekeyed, contents, stored, tp, qp, setcap, heap, sessions>>

SetSecret(c) ==
  /\ Idle
  /\ c \in blinded
  /\ ~Promised("keptSecret")
  /\ rekeyed' = rekeyed \cup {c}
  /\ UNCHANGED <<known, blinded, contents, stored, tp, qp, setcap, heap, sessions,
                 stack, raised, outcome>>

Call(p, msg) == stack' = <<Entered(p, msg)>> /\ UNCHANGED <<raised, outcome>>

\* m.setData(c.getBlindedData(), ...), then c.send(s, &m)
Outsource(c, s, m) ==
  /\ Idle
  /\ Promised("authenticated") => c \in known[s]
  /\ Promised("outsourced") => c \in blinded
  /\ Promised("ownEnvelope") => \A r \in Servers, d \in Clients \ {c} : stored[r][d] # m
  /\ contents' = [contents EXCEPT ![m] = IF c \in blinded THEN c ELSE Null]
  /\ Call(s, [type |-> "OUTSOURCING_DATA", from |-> c, claim |-> c, partner |-> Null, body |-> m])
  /\ UNCHANGED <<known, blinded, rekeyed, stored, tp, qp, setcap, heap, sessions>>

\* What a request of c to d needs.  No code checks any of it.
Ready(c, d) ==
  /\ Promised("authenticated") =>
       /\ c \in known[d] /\ d \in known[c]
       /\ Clouds(d) # {}
       /\ LET s == FirstCloud(d) IN {c, d} \subseteq known[s] /\ s \in known[c]
  /\ Promised("outsourced") =>
       Clouds(d) # {} /\ HasData(FirstCloud(d), c) /\ HasData(FirstCloud(d), d)
  /\ Promised("secretFits") => SecretLen[c] \in {2, 3}
  /\ Promised("fresh") => tp[c] = Null /\ qp[c] = Null
  /\ Promised("nonzero") => 0 \notin Data[c] \cap Data[d]

Request(c, d) ==
  /\ Idle
  /\ c # d
  /\ sessions < MaxSessions
  /\ Ready(c, d)
  /\ Call(d, [type |-> "CLIENT_COMPUTATION_REQUEST", from |-> c, claim |-> c,
              partner |-> Null, body |-> Null])
  /\ UNCHANGED protocolVars

\* A message the protocol has no place for: to oneself, of a type that does not
\* go from such a party to such a party, or with data that claims another sender.
Misplaced(p, r, type, claim) ==
  \/ p = r
  \/ <<p, r>> \in Clients \X Clients
       /\ type \notin {"CLIENT_COMPUTATION_REQUEST", "POLYNOMIAL"}
  \/ <<p, r>> \in Clients \X Servers
       /\ type \notin {"OUTSOURCING_DATA", "CLOUD_COMPUTATION_REQUEST"}
  \/ <<p, r>> \in Servers \X Clients /\ type # "OUTPUT_COMPUTATION"
  \/ <<p, r>> \in Servers \X Servers
  \/ type \in {"CLIENT_COMPUTATION_REQUEST", "CLOUD_COMPUTATION_REQUEST"} /\ claim # p

SendMisplaced(p, r, type, claim) ==
  /\ Idle
  /\ Misplaced(p, r, type, claim)
  /\ claim = p \/ type \in {"CLIENT_COMPUTATION_REQUEST", "CLOUD_COMPUTATION_REQUEST"}
  /\ Promised("authenticated") /\ p # r => p \in known[r]
  /\ Call(r, [type |-> type, from |-> p, claim |-> claim, partner |-> Null, body |-> Null])
  /\ UNCHANGED protocolVars

-----------------------------------------------------------------------------

Init ==
  /\ known = [p \in Parties |-> {}]
  /\ blinded = {}
  /\ rekeyed = {}
  /\ contents = [m \in Envelopes |-> Null]
  /\ stored = [s \in Servers |-> [c \in Clients |-> Null]]
  /\ tp = [c \in Clients |-> Null]
  /\ qp = [c \in Clients |-> Null]
  /\ setcap = [c \in Clients |-> NoAnswer]
  /\ heap = {}
  /\ sessions = 0
  /\ stack = <<>>
  /\ raised = FALSE
  /\ outcome = "running"

\* The code that runs once the application has made a call.
Handle ==
  \/ ReceiveRejected \/ ReceiveUnknownSender
  \/ ReceiveClientRequest \/ ReceiveClientRequestNoCloud
  \/ SendPolynomial \/ ReturnToApplication
  \/ ReceiveOutput \/ ReceivePolynomial
  \/ ReceiveOutsourcing \/ ReceiveCloudRequest \/ DeleteRequestData

Application ==
  \/ \E pair \in Pairs : Authenticate(pair[1], pair[2])
  \/ AuthenticateAll
  \/ \E c \in Clients : SetRawData(c) \/ SetSecret(c)
  \/ \E c \in Clients, s \in Servers, m \in Envelopes : Outsource(c, s, m)
  \/ \E c, d \in Clients : Request(c, d)
  \/ \E p, r, claim \in Parties, type \in MessageTypes : SendMisplaced(p, r, type, claim)

Next == Handle \/ Application

\* The thread runs: a call that can go on does.
Spec == Init /\ [][Next]_vars /\ WF_vars(Handle)
-----------------------------------------------------------------------------
(* Properties *)

\* The values the variables take, with the shape of every frame and object.
TypeOK ==
  /\ known \in [Parties -> SUBSET Parties]
  /\ blinded \subseteq Clients
  /\ rekeyed \subseteq Clients
  /\ contents \in [Envelopes -> Clients \cup {Null}]
  /\ stored \in [Servers -> [Clients -> Envelopes \cup {Null}]]
  /\ tp \in [Clients -> TMatrix \cup {Null}]
  /\ qp \in [Clients -> QMatrix \cup {Null}]
  /\ setcap \in [Clients -> [clean : BOOLEAN, set : SUBSET Nat]]
  /\ heap \subseteq Objects
  /\ sessions \in Nat
  /\ stack \in Seq(Frame)
  /\ raised \in BOOLEAN
  /\ outcome \in {"running", "exit", "undefined"}

\* No party is in two active calls: the messages msgToCloud and msgToClient and
\* the chronometer bm, which are members, are never used by a call while an
\* outer call of the same party still needs them.
NoReentrance ==
  \A i, j \in 1..Len(stack) : i # j => stack[i].at # stack[j].at

\* Whoever has data stored at a server is a party the server knows, so that the
\* unchecked *getPartyById(partnerId) of a cloud request that found both data
\* does not fail.
StoredAreKnown ==
  \A s \in Servers, c \in Clients : stored[s][c] # Null => c \in known[s]

\* Between two calls no matrix and no message body is allocated: every session
\* that came to its end released t, q and the request data, each exactly once
\* (a second release would have left outcome "undefined").
NothingLeaks == Idle => heap = {}

\* With every promise kept no call reads or frees released memory, follows a
\* null pointer, or reads data nobody stored.
NoUndefined == outcome # "undefined"

\* When a request returns, the requester holds the intersection of its data
\* and the helper's.
AnswerCorrect ==
  stack # <<>> /\ Len(stack) = 1 /\ Top.pc = "poly" =>
    setcap[Top.msg.from] = [clean |-> TRUE, set |-> Data[Top.msg.from] \cap Data[Top.at]]

\* What the cloud holds for a client is that client's data, although it holds
\* only a pointer to a message that belongs to the application.
StoredIsOwn ==
  \A s \in Servers, c \in Clients :
    stored[s][c] # Null => contents[stored[s][c]] = c

\* The polynomial matrix q is the key to the cloud's output t: a requester that
\* receives an output combines it with a q of the same session or with none.
PolynomialMatchesOutput ==
  Receiving("OUTPUT_COMPUTATION") /\ qp[Top.at] # Null =>
    qp[Top.at].key = Top.msg.body.key

\* An exception reaches the application only from the call it made itself,
\* before that call has changed anything: never out of a session under way.
ExceptionsAreClean ==
  [][stack # <<>> /\ stack' = <<>> /\ raised' =>
       Len(stack) = 1 /\ Top.pc = "enter" /\ UNCHANGED protocolVars]_vars

\* A message the protocol has no place for has no effect on any party.
MisplacedHasNoEffect ==
  [][Entering /\ Misplaced(Top.msg.from, Top.at, Top.msg.type, Top.msg.claim) =>
       UNCHANGED protocolVars]_vars

\* An intersection is learned only by the client whose request is being served.
OnlyRequesterLearns ==
  [][\A c \in Clients : setcap'[c] # setcap[c] =>
       /\ stack # <<>>
       /\ stack[1].msg.type = "CLIENT_COMPUTATION_REQUEST"
       /\ stack[1].msg.from = c]_vars

\* Every call of the application comes back, unless the process ends.
CallsReturn == Active ~> ~Active

\* Every request a helper has taken on ends with the answer at the requester.
RequestsAreAnswered ==
  \A c \in Clients :
    (Active /\ stack[1].pc = "cloud" /\ stack[1].msg.from = c) ~>
    (Idle /\ ~raised /\ setcap[c].clean)

\* The abstract state: the request the application is making, and the answers.
UnderRequest ==
  /\ stack # <<>>
  /\ stack[1].msg.type = "CLIENT_COMPUTATION_REQUEST"
  /\ {stack[1].msg.from, stack[1].at} \subseteq Clients
  /\ stack[1].msg.from # stack[1].at

Ideal == INSTANCE IdealPSI WITH
  NoRequest <- Null,
  pending <- IF UnderRequest
             THEN [who |-> stack[1].msg.from, of |-> stack[1].at,
                   done |-> Len(stack) = 1 /\ stack[1].pc = "poly"]
             ELSE Null,
  answers <- [c \in Clients |-> setcap[c].set]

\* With every promise kept the three parties implement the ideal intersection.
ImplementsIdealPSI == Ideal!Spec
=============================================================================
