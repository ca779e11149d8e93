---------------------------- MODULE EOPSIPhases ----------------------------
(***************************************************************************)
(* The phases of a session when the application keeps every promise: for    *)
(* each point a session can be at, the whole call stack, what is allocated, *)
(* and what the requester holds.  Their disjunction is the inductive        *)
(* invariant behind the safety properties of EOPSI.                         *)
(***************************************************************************)
EXTENDS EOPSI

RequestMsg(b) ==
  [type |-> "CLIENT_COMPUTATION_REQUEST", from |-> b, claim |-> b, partner |-> Null, body |-> Null]
CloudMsg(a, b, data) ==
  [type |-> "CLOUD_COMPUTATION_REQUEST", from |-> a, claim |-> a, partner |-> b, body |-> data]
OutputMsg(s, t) ==
  [type |-> "OUTPUT_COMPUTATION", from |-> s, claim |-> s, partner |-> Null, body |-> t]
PolynomialMsg(a, q) ==
  [type |-> "POLYNOMIAL", from |-> a, claim |-> a, partner |-> Null, body |-> q]
OutsourcingMsg(c, m) ==
  [type |-> "OUTSOURCING_DATA", from |-> c, claim |-> c, partner |-> Null, body |-> m]

\* The objects of the session of a helper a and a requester b.
D(key) == [kind |-> "data", key |-> key]
T(key, a, b) == [kind |-> "t", key |-> key, a |-> a, b |-> b]
Q(key, a, b) == [kind |-> "q", key |-> key, a |-> a, b |-> b, exact |-> TRUE]

\* The frames of the helper a, and of the cloud while the requester receives t.
HelperAt(pc, a, b, key) == [at |-> a, msg |-> RequestMsg(b), pc |-> pc, key |-> key]
CloudAt(s, a, b, key) == [at |-> s, msg |-> CloudMsg(a, b, D(key)), pc |-> "output", key |-> 0]

\* What Ready has checked, and nothing changes while a call is active.
Session(a, b) ==
  /\ a # b
  /\ a \in known[b] /\ b \in known[a]
  /\ Clouds(a) # {}
  /\ {a, b} \subseteq known[FirstCloud(a)]
  /\ FirstCloud(a) \in known[b]
  /\ HasData(FirstCloud(a), a) /\ HasData(FirstCloud(a), b)
  /\ SecretLen[b] \in {2, 3}
  /\ 0 \notin Data[a] \cap Data[b]

NoCall == stack = <<>> /\ heap = {}

MisplacedCall ==
  /\ heap = {}
  /\ \E p, r, claim \in Parties, type \in MessageTypes :
       /\ Misplaced(p, r, type, claim)
       /\ p # r => p \in known[r]
       /\ stack = <<Entered(r, [type |-> type, from |-> p, claim |-> claim,
                                partner |-> Null, body |-> Null])>>

OutsourcingCall ==
  /\ heap = {}
  /\ \E c \in Clients, s \in Servers, m \in Envelopes :
       /\ c \in known[s]
       /\ contents[m] = c
       /\ \A r \in Servers, d \in Clients \ {c} : stored[r][d] # m
       /\ stack = <<Entered(s, OutsourcingMsg(c, m))>>

Requested(a, b) ==
  /\ tp[b] = Null /\ qp[b] = Null
  /\ heap = {}
  /\ stack = <<Entered(a, RequestMsg(b))>>

AtCloud(a, b, key) ==
  /\ tp[b] = Null /\ qp[b] = Null
  /\ heap = {D(key)}
  /\ stack = <<HelperAt("cloud", a, b, key),
               Entered(FirstCloud(a), CloudMsg(a, b, D(key)))>>

AtRequester(a, b, key) ==
  /\ tp[b] = Null /\ qp[b] = Null
  /\ heap = {D(key), T(key, a, b)}
  /\ stack = <<HelperAt("cloud", a, b, key), CloudAt(FirstCloud(a), a, b, key),
               Entered(b, OutputMsg(FirstCloud(a), T(key, a, b)))>>

OutputReceived(a, b, key) ==
  /\ tp[b] = T(key, a, b) /\ qp[b] = Null
  /\ heap = {D(key), T(key, a, b)}
  /\ stack = <<HelperAt("cloud", a, b, key), CloudAt(FirstCloud(a), a, b, key)>>

CloudReturned(a, b, key) ==
  /\ tp[b] = T(key, a, b) /\ qp[b] = Null
  /\ heap = {T(key, a, b)}
  /\ stack = <<HelperAt("cloud", a, b, key)>>

PolynomialSent(a, b, key) ==
  /\ tp[b] = T(key, a, b) /\ qp[b] = Null
  /\ heap = {T(key, a, b), Q(key, a, b)}
  /\ stack = <<HelperAt("poly", a, b, key), Entered(b, PolynomialMsg(a, Q(key, a, b)))>>

Answered(a, b, key) ==
  /\ setcap[b] = [clean |-> TRUE, set |-> Data[b] \cap Data[a]]
  /\ heap = {}
  /\ stack = <<HelperAt("poly", a, b, key)>>

UnderWay(a, b, key) ==
  \/ AtCloud(a, b, key) \/ AtRequester(a, b, key) \/ OutputReceived(a, b, key)
  \/ CloudReturned(a, b, key) \/ PolynomialSent(a, b, key) \/ Answered(a, b, key)

SomePhase ==
  \/ NoCall \/ MisplacedCall \/ OutsourcingCall
  \/ \E a, b \in Clients : Session(a, b) /\ (Requested(a, b) \/ UnderWay(a, b, sessions))

\* What holds between and during the calls of an application that keeps every
\* promise: no secret was changed, the cloud's pointers lead to each client's
\* own data, nothing went wrong, and the session is at one of the phases.
ContractInv ==
  /\ rekeyed = {}
  /\ StoredIsOwn
  /\ NoUndefined
  /\ SomePhase
-----------------------------------------------------------------------------

(* The phases whatever the application does: the parties may not know each    *)
(* other, the matrices may be of other data, the pointers of an earlier        *)
(* session may still be there.  The nest of calls and the owner of each object *)
(* are the same.                                                           *)

AnyMisplaced ==
  /\ heap = {}
  /\ \E p, r, claim \in Parties, type \in MessageTypes :
       /\ Misplaced(p, r, type, claim)
       /\ stack = <<Entered(r, [type |-> type, from |-> p, claim |-> claim,
                                partner |-> Null, body |-> Null])>>

AnyOutsourcing ==
  /\ heap = {}
  /\ \E c \in Clients, s \in Servers, m \in Envelopes :
       stack = <<Entered(s, OutsourcingMsg(c, m))>>

AnyRequested(a, b) == heap = {} /\ stack = <<Entered(a, RequestMsg(b))>>

AnyAtCloud(a, b, s, key) ==
  /\ heap = {D(key)}
  /\ stack = <<HelperAt("cloud", a, b, key), Entered(s, CloudMsg(a, b, D(key)))>>

AnyAtRequester(a, b, s, key) ==
  \E t \in heap :
    /\ t \in TMatrix
    /\ heap = {D(key), t}
    /\ stack = <<HelperAt("cloud", a, b, key), CloudAt(s, a, b, key),
                 Entered(b, OutputMsg(s, t))>>

AnyOutputReceived(a, b, s, key) ==
  /\ tp[b] \in TMatrix
  /\ heap = {D(key), tp[b]}
  /\ stack = <<HelperAt("cloud", a, b, key), CloudAt(s, a, b, key)>>

AnyCloudReturned(a, b, key) ==
  /\ tp[b] \in TMatrix
  /\ heap = {tp[b]}
  /\ stack = <<HelperAt("cloud", a, b, key)>>

AnyPolynomialSent(a, b, key) ==
  /\ tp[b] \in TMatrix
  /\ \E q \in heap :
       /\ q \in QMatrix
       /\ heap = {tp[b], q}
       /\ stack = <<HelperAt("poly", a, b, key), Entered(b, PolynomialMsg(a, q))>>

AnyAnswered(a, b, key) == heap = {} /\ stack = <<HelperAt("poly", a, b, key)>>

AnySession(a, b, key) ==
  \/ AnyRequested(a, b)
  \/ \E s \in Servers : \/ AnyAtCloud(a, b, s, key) \/ AnyAtRequester(a, b, s, key)
                        \/ AnyOutputReceived(a, b, s, key)
  \/ AnyCloudReturned(a, b, key) \/ AnyPolynomialSent(a, b, key) \/ AnyAnswered(a, b, key)

AnyPhase ==
  \/ NoCall \/ AnyMisplaced \/ AnyOutsourcing
  \/ \E a, b \in Clients, key \in 0..sessions : a # b /\ AnySession(a, b, key)

\* While the process runs, its calls are nested in one of these ways; where it
\* ended, they were.
NestInv == NoReentrance /\ (Running => AnyPhase)
=============================================================================
