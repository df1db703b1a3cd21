------------------------- MODULE Refinements_proofs --------------------------
(***************************************************************************)
(* Theorems about the two components that are shown to implement an        *)
(* abstract specification: OAuth implements AtMostOnce, Monitor implements *)
(* LossyFeed, for every value of their constants.                          *)
(***************************************************************************)
EXTENDS OAuth, Monitor, TLAPS

(***************************************************************************)
(* Theorems about OAuth, for any number of accounts, projects, codes and   *)
(* requests in flight: a code is redeemed at most once, and not at all if  *)
(* its project or its account was gone when it was taken.                  *)
(***************************************************************************)

-----------------------------------------------------------------------------
(* Types.                                                                  *)

LEMMA TypeInit == Init => TypeOK
BY DEF Init, TypeOK

\* A request in flight is one of two records, told apart by its pc.
LEMMA InFlightFields ==
  ASSUME TypeOK, NEW r \in Requests, req[r] # NoReq
  PROVE  /\ req[r] \in InFlight
         /\ req[r].client \in Clients
         /\ req[r].pc = "insert" => req[r].user \in Accounts /\ req[r].pkce \in BOOLEAN
         /\ req[r].pc # "insert" => req[r].code \in Codes
         /\ req[r].pc \in {"insert", "consume", "client", "user", "issue"}
BY DEF TypeOK, InFlight

\* Moving on keeps a token request a token request.
LEMMA GoType ==
  ASSUME TypeOK, NEW r \in Requests, req[r] # NoReq, req[r].pc # "insert",
         NEW pc \in {"client", "user", "issue"}, Go(r, pc)
  PROVE  /\ req' \in [Requests -> InFlight \cup {NoReq}]
         /\ req'[r] # NoReq /\ req'[r].pc = pc /\ req'[r].code = req[r].code
         /\ req'[r].client = req[r].client
         /\ \A s \in Requests \ {r} : req'[s] = req[s]
<1>1. req[r] \in [pc: {"consume", "client", "user", "issue"}, client: Clients, code: Codes]
  BY DEF TypeOK, InFlight
<1>2. [req[r] EXCEPT !.pc = pc] \in InFlight
  BY <1>1 DEF InFlight
<1> QED
  BY <1>1, <1>2, NothingsDiffer DEF TypeOK, Go

LEMMA DoneType ==
  ASSUME TypeOK, NEW r \in Requests, Done(r)
  PROVE  /\ req' \in [Requests -> InFlight \cup {NoReq}]
         /\ req'[r] = NoReq
         /\ \A s \in Requests \ {r} : req'[s] = req[s]
BY DEF TypeOK, Done

LEMMA TypeNext == TypeOK /\ [Next]_vars => TypeOK'
<1> SUFFICES ASSUME TypeOK, [Next]_vars PROVE TypeOK'
  OBVIOUS
<1>1. CASE Tick
  BY <1>1 DEF Tick, TypeOK
<1>2. ASSUME NEW c \in Clients, RegisterClient(c) \/ DeleteClient(c) PROVE TypeOK'
  BY <1>2 DEF RegisterClient, DeleteClient, TypeOK
<1>3. ASSUME NEW u \in Accounts, DeleteAccount(u) PROVE TypeOK'
  BY <1>3 DEF DeleteAccount, TypeOK
<1>4. ASSUME NEW r \in Requests, Consent(r) PROVE TypeOK'
  BY <1>4 DEF Consent, TypeOK, InFlight
<1>5. ASSUME NEW r \in Requests, TokenRequest(r) PROVE TypeOK'
  BY <1>5 DEF TokenRequest, TypeOK, InFlight
<1>6. ASSUME NEW r \in Requests, Handle(r) PROVE TypeOK'
  <2>1. CASE CreateCode(r)
    <3>1. req[r].client \in Clients /\ req[r].user \in Accounts /\ req[r].pkce \in BOOLEAN
          /\ now + CodeTTL \in Nat
      BY <2>1, InFlightFields, TimesAreNumbers DEF CreateCode, At, TypeOK
    <3>2. codes' \in [Codes -> Code \cup {NoCode}]
      BY <2>1, <3>1 DEF CreateCode, TypeOK, Code
    <3> QED
      BY <2>1, <3>2, DoneType DEF CreateCode, TypeOK
  <2>2. CASE Consume(r)
    <3>1. req[r] # NoReq /\ req[r].pc = "consume" /\ req[r].code \in Codes
      BY <2>2, InFlightFields DEF Consume, At
    <3>4. late' \subseteq Codes
      BY <2>2, <3>1 DEF Consume, TypeOK
    <3>2. codes' \in [Codes -> Code \cup {NoCode}]
      <4>1. CASE UNCHANGED codes
        BY <4>1 DEF TypeOK
      <4>2. CASE /\ Redeemable(req[r].code)
                 /\ codes' = [codes EXCEPT ![req[r].code].used = TRUE]
        <5>1. codes[req[r].code] \in Code
          BY <3>1, <4>2 DEF Redeemable, TypeOK
        <5>2. [codes[req[r].code] EXCEPT !.used = TRUE] \in Code
          BY <5>1 DEF Code
        <5> QED
          BY <3>1, <4>2, <5>2 DEF TypeOK
      <4> QED
        BY <2>2, <4>1, <4>2 DEF Consume
    <3>3. Go(r, "client") \/ Done(r)
      BY <2>2 DEF Consume
    <3> QED
      BY <2>2, <3>1, <3>2, <3>3, <3>4, GoType, DoneType DEF Consume, TypeOK
  <2>3. CASE CheckClient(r)
    <3>1. (Go(r, "user") \/ Done(r)) /\ req[r] # NoReq /\ req[r].pc # "insert"
      BY <2>3 DEF CheckClient, At
    <3> QED
      BY <2>3, <3>1, GoType, DoneType DEF CheckClient, TypeOK
  <2>4. CASE LoadUser(r)
    <3>1. (Go(r, "issue") \/ Done(r)) /\ req[r] # NoReq /\ req[r].pc # "insert"
      BY <2>4 DEF LoadUser, At
    <3> QED
      BY <2>4, <3>1, GoType, DoneType DEF LoadUser, TypeOK
  <2>5. CASE IssueTokens(r)
    <3>1. req[r].code \in Codes
      BY <2>5, InFlightFields DEF IssueTokens, At
    <3>2. issued' \in [Codes -> Nat]
      BY <2>5, <3>1 DEF IssueTokens, TypeOK
    <3> QED
      BY <2>5, <3>2, DoneType DEF IssueTokens, TypeOK
  <2>6. CASE GiveUp(r)
    BY <2>6, DoneType DEF GiveUp, TypeOK
  <2> QED
    BY <1>6, <2>1, <2>2, <2>3, <2>4, <2>5, <2>6 DEF Handle
<1>7. CASE UNCHANGED vars
  BY <1>7 DEF vars, TypeOK
<1> QED
  BY <1>1, <1>2, <1>3, <1>4, <1>5, <1>6, <1>7 DEF Next

\* Type correctness.
THEOREM TypeCorrect == Spec => []TypeOK
BY TypeInit, TypeNext, PTL DEF Spec

-----------------------------------------------------------------------------
(* One holder per code.                                                    *)

\* OneHolder says the same of the codes alone; with the types and with the
\* project each holder acts for it is inductive.
HolderIsClient ==
  \A r \in Requests, k \in Codes : Holds(r, k) => codes[k].client = req[r].client

HolderInv == TypeOK /\ OneHolder /\ HolderIsClient

\* Who can come to hold a code in one step: a request that consumes it.
LEMMA HoldersStep ==
  ASSUME HolderInv, [Next]_vars, NEW s \in Requests, NEW k \in Codes, Holds(s, k)'
  PROVE  \/ Holds(s, k) /\ req'[s].client = req[s].client
         \/ /\ Consume(s)
            /\ Redeemable(k)
            /\ codes' = [codes EXCEPT ![k].used = TRUE]
            /\ codes[k].client = req'[s].client
            /\ issued' = issued
            /\ \A t \in Requests \ {s} : req'[t] = req[t]
<1> USE DEF HolderInv
<1>1. CASE req' = req
  BY <1>1 DEF Holds
<1>2. ASSUME NEW r \in Requests, Consent(r) \/ TokenRequest(r)
      PROVE  Holds(s, k) /\ req'[s].client = req[s].client
  <2>1. s # r
    BY <1>2 DEF Consent, TokenRequest, Holds, TypeOK
  <2> QED
    BY <1>2, <2>1 DEF Consent, TokenRequest, Holds, TypeOK
<1>3. ASSUME NEW r \in Requests, Done(r)
      PROVE  Holds(s, k) /\ req'[s].client = req[s].client
  <2>1. s # r
    BY <1>3, DoneType DEF Holds
  <2> QED
    BY <1>3, <2>1, DoneType DEF Holds
<1>4. ASSUME NEW r \in Requests, CheckClient(r) \/ LoadUser(r), ~Done(r)
      PROVE  Holds(s, k) /\ req'[s].client = req[s].client
  <2>1. /\ req[r] # NoReq /\ req[r].pc \in {"client", "user"}
        /\ Go(r, "user") \/ Go(r, "issue")
    BY <1>4 DEF CheckClient, LoadUser, At
  <2> QED
    BY <2>1, GoType DEF Holds
<1>5. ASSUME NEW r \in Requests, Consume(r), ~Done(r)
      PROVE  \/ Holds(s, k) /\ req'[s].client = req[s].client
             \/ /\ Consume(s)
                /\ Redeemable(k)
                /\ codes' = [codes EXCEPT ![k].used = TRUE]
                /\ codes[k].client = req'[s].client
                /\ issued' = issued
                /\ \A t \in Requests \ {s} : req'[t] = req[t]
  <2>1. /\ req[r] # NoReq /\ req[r].pc = "consume" /\ Go(r, "client") /\ issued' = issued
        /\ Redeemable(req[r].code) /\ codes[req[r].code].client = req[r].client
        /\ codes' = [codes EXCEPT ![req[r].code].used = TRUE]
    BY <1>5 DEF Consume, At
  <2>2. /\ req'[r].code = req[r].code /\ req'[r].client = req[r].client
        /\ \A t \in Requests \ {r} : req'[t] = req[t]
    BY <2>1, GoType
  <2>3. CASE s = r
    <3>1. k = req[r].code
      BY <2>2, <2>3 DEF Holds
    <3> QED
      BY <1>5, <2>1, <2>2, <2>3, <3>1
  <2>4. CASE s # r
    BY <2>2, <2>4 DEF Holds
  <2> QED
    BY <2>3, <2>4
<1> QED
  BY <1>1, <1>2, <1>3, <1>4, <1>5
  DEF Next, Tick, RegisterClient, DeleteClient, DeleteAccount, Handle, CreateCode, IssueTokens,
      GiveUp, vars

\* A code that is burnt stays burnt, and stays the project's and the account's.
LEMMA CodesStep ==
  ASSUME TypeOK, [Next]_vars, NEW k \in Codes, codes[k] # NoCode
  PROVE  /\ codes'[k] # NoCode
         /\ codes[k].used => codes'[k].used
         /\ codes'[k].client = codes[k].client /\ codes'[k].user = codes[k].user
<1>1. CASE codes' = codes
  BY <1>1
<1>2. ASSUME NEW r \in Requests, CreateCode(r) PROVE codes'[k] = codes[k]
  BY <1>2 DEF CreateCode, TypeOK
<1>3. ASSUME NEW r \in Requests, Consume(r), codes' # codes
      PROVE  codes'[k] \in {codes[k], [codes[k] EXCEPT !.used = TRUE]}
  BY <1>3 DEF Consume, TypeOK
<1>4. codes[k] \in Code
  BY DEF TypeOK
<1>5. [codes[k] EXCEPT !.used = TRUE] \in Code
  BY <1>4 DEF Code
<1>6. ASSUME NEW r \in Requests, Consume(r), codes' # codes
      PROVE  /\ codes'[k] # NoCode /\ codes'[k].client = codes[k].client
             /\ codes[k].used => codes'[k].used
             /\ codes'[k].user = codes[k].user
  BY <1>3, <1>4, <1>5, <1>6, NothingsDiffer DEF Code
<1> QED
  BY <1>1, <1>2, <1>6
  DEF Next, Tick, RegisterClient, DeleteClient, DeleteAccount, Consent, TokenRequest, Handle,
      CheckClient, LoadUser, IssueTokens, GiveUp, vars

\* Tokens are issued by the holder, who lets go of the code by issuing.
LEMMA IssuedStep ==
  ASSUME HolderInv, [Next]_vars
  PROVE  \/ issued' = issued
         \/ \E r \in Requests, k \in Codes :
              /\ IssueTokens(r)
              /\ Holds(r, k)
              /\ issued[k] = 0
              /\ issued' = [issued EXCEPT ![k] = 1]
              /\ req'[r] = NoReq
<1>1. ASSUME NEW r \in Requests, IssueTokens(r)
      PROVE  \E k \in Codes : Holds(r, k) /\ issued[k] = 0 /\ issued' = [issued EXCEPT ![k] = 1]
                              /\ req'[r] = NoReq
  <2> DEFINE k == req[r].code
  <2>1. k \in Codes /\ Holds(r, k)
    BY <1>1, InFlightFields DEF IssueTokens, At, Holds, HolderInv
  <2>2. issued[k] = 0
    BY <2>1 DEF HolderInv, OneHolder
  <2>3. issued' = [issued EXCEPT ![k] = 1]
    BY <1>1, <2>2 DEF IssueTokens
  <2>4. req'[r] = NoReq
    BY <1>1, DoneType DEF IssueTokens, HolderInv
  <2> QED
    BY <2>1, <2>2, <2>3, <2>4
<1> QED
  BY <1>1
  DEF Next, Tick, RegisterClient, DeleteClient, DeleteAccount, Consent, TokenRequest, Handle,
      CreateCode, Consume, CheckClient, LoadUser, GiveUp, vars

LEMMA HolderInit == Init => HolderInv
BY TypeInit DEF Init, HolderInv, OneHolder, HolderIsClient, Holds

LEMMA HolderNext == HolderInv /\ [Next]_vars => HolderInv'
<1> SUFFICES ASSUME HolderInv, [Next]_vars PROVE HolderInv'
  OBVIOUS
<1>1. TypeOK /\ TypeOK'
  BY TypeNext DEF HolderInv
<1>2. ASSUME NEW k \in Codes, NEW r \in Requests, NEW s \in Requests, Holds(r, k)', Holds(s, k)'
      PROVE  r = s
  <2>1. CASE Holds(r, k) /\ Holds(s, k)
    BY <2>1 DEF HolderInv, OneHolder
  <2>2. CASE ~Holds(r, k) \/ ~Holds(s, k)
    <3>1. Redeemable(k)
      BY <1>2, <2>2, HoldersStep
    <3>2. ~Holds(r, k) /\ ~Holds(s, k)
      BY <3>1 DEF HolderInv, OneHolder, Redeemable
    <3>3. SUFFICES ASSUME r # s PROVE FALSE
      OBVIOUS
    <3>4. req'[s] = req[s]
      BY <1>2, <3>2, <3>3, HoldersStep
    <3> QED
      BY <1>2, <3>2, <3>4 DEF Holds
  <2> QED
    BY <2>1, <2>2
<1>3. ASSUME NEW k \in Codes, NEW r \in Requests, Holds(r, k)'
      PROVE  /\ issued'[k] = 0
             /\ codes'[k] # NoCode /\ codes'[k].used
             /\ codes'[k].client = req'[r].client
  <2>1. CASE Holds(r, k) /\ req'[r].client = req[r].client
    <3>1. issued[k] = 0 /\ codes[k] # NoCode /\ codes[k].used /\ codes[k].client = req[r].client
      BY <2>1 DEF HolderInv, OneHolder, HolderIsClient
    <3>2. issued'[k] = 0
      <4>1. CASE issued' = issued
        BY <3>1, <4>1
      <4>2. ASSUME NEW s \in Requests, NEW l \in Codes, Holds(s, l), req'[s] = NoReq,
                   issued' = [issued EXCEPT ![l] = 1]
            PROVE  issued'[k] = 0
        <5>1. s # r
          BY <1>3, <4>2 DEF Holds
        <5>2. l # k
          BY <2>1, <4>2, <5>1 DEF HolderInv, OneHolder
        <5> QED
          BY <1>1, <3>1, <4>2, <5>2 DEF TypeOK
      <4> QED
        BY <4>1, <4>2, IssuedStep
    <3> QED
      BY <1>1, <2>1, <3>1, <3>2, CodesStep
  <2>2. CASE /\ Redeemable(k)
             /\ codes' = [codes EXCEPT ![k].used = TRUE]
             /\ codes[k].client = req'[r].client
             /\ issued' = issued
    <3>1. codes[k] # NoCode /\ codes[k] \in Code /\ issued[k] \in Nat /\ issued[k] <= 1 /\ ~(issued[k] > 0)
      BY <1>1, <2>2 DEF Redeemable, TypeOK, HolderInv, OneHolder
    <3>2. codes'[k].used /\ codes'[k].client = codes[k].client
      BY <1>1, <2>2, <3>1 DEF TypeOK, Code
    <3> QED
      BY <1>1, <2>2, <3>1, <3>2, CodesStep
  <2> QED
    BY <1>3, <2>1, <2>2, HoldersStep
<1>4. ASSUME NEW k \in Codes
      PROVE  /\ issued'[k] <= 1
             /\ issued'[k] > 0 => codes'[k] # NoCode /\ codes'[k].used
  <2>1. CASE issued' = issued
    <3>1. issued[k] <= 1 /\ (issued[k] > 0 => codes[k] # NoCode /\ codes[k].used)
      BY DEF HolderInv, OneHolder
    <3> QED
      BY <1>1, <2>1, <3>1, CodesStep
  <2>2. ASSUME NEW r \in Requests, NEW l \in Codes, Holds(r, l), issued[l] = 0,
               issued' = [issued EXCEPT ![l] = 1]
        PROVE  /\ issued'[k] <= 1
               /\ issued'[k] > 0 => codes'[k] # NoCode /\ codes'[k].used
    <3>1. issued'[k] = issued[k] \/ (k = l /\ issued'[k] = 1)
      BY <1>1, <2>2 DEF TypeOK
    <3>2. issued[k] <= 1 /\ (issued'[k] > 0 => codes[k] # NoCode /\ codes[k].used)
      BY <1>1, <2>2, <3>1 DEF HolderInv, OneHolder, TypeOK
    <3> QED
      BY <1>1, <3>1, <3>2, CodesStep
  <2> QED
    BY <2>1, <2>2, IssuedStep
<1>5. OneHolder'
  BY <1>2, <1>3, <1>4 DEF OneHolder
<1>6. HolderIsClient'
  BY <1>3 DEF HolderIsClient
<1> QED
  BY <1>1, <1>5, <1>6 DEF HolderInv

\* A code is in the hands of at most one request, and burnt from then on.
THEOREM HoldersAreAlone == Spec => []OneHolder
BY HolderInit, HolderNext, PTL DEF Spec, HolderInv

\* The flow implements the one-shot token: a code is redeemed once or never,
\* whatever races for it.
THEOREM CodesAreOneShot == Spec => RedeemedAtMostOnce
<1>1. Init => Once!Init
  BY DEF Init, Once!Init
<1>2. HolderInv /\ [Next]_vars => [Once!Next]_issued
  BY IssuedStep DEF Once!Next, Once!Do
<1> QED
  BY <1>1, <1>2, HolderInit, HolderNext, PTL DEF Spec, RedeemedAtMostOnce, Once!Spec

-----------------------------------------------------------------------------
(* Codes that are taken too late.                                          *)

\* A project is registered before it has codes, and once.
ClientsInv ==
  /\ \A k \in Codes : codes[k] # NoCode => clients[codes[k].client] # "new"
  /\ \A r \in Requests : At(r, "insert") => clients[req[r].client] # "new"

\* Whoever holds a late code is still to ask for what is missing.
LateInv ==
  /\ HolderInv /\ ClientsInv
  /\ \A k \in late :
       /\ codes[k] # NoCode /\ codes[k].used /\ Gone(k) /\ issued[k] = 0
       /\ \A r \in Requests : Holds(r, k) =>
            req[r].pc = "client" \/ (req[r].pc = "user" /\ codes[k].user \notin alive)

\* What is deleted is not registered again.
LEMMA ClientsStep ==
  ASSUME TypeOK, [Next]_vars, NEW c \in Clients, clients[c] # "new"
  PROVE  clients'[c] # "new" /\ (clients[c] \notin ClientTypes => clients'[c] \notin ClientTypes)
<1>1. CASE clients' = clients
  BY <1>1
<1>2. ASSUME NEW d \in Clients, RegisterClient(d) PROVE clients'[c] = clients[c]
  BY <1>2 DEF RegisterClient, TypeOK
<1>3. ASSUME NEW d \in Clients, DeleteClient(d) PROVE clients'[c] \in {clients[c], "deleted"}
  BY <1>3 DEF DeleteClient, TypeOK
<1> QED
  BY <1>1, <1>2, <1>3
  DEF Next, Tick, DeleteAccount, Consent, TokenRequest, Handle, CreateCode, Consume, CheckClient,
      LoadUser, IssueTokens, GiveUp, vars, ClientTypes

LEMMA AliveStep == TypeOK /\ [Next]_vars => alive' \subseteq alive
BY DEF Next, Tick, RegisterClient, DeleteClient, DeleteAccount, Consent, TokenRequest, Handle,
       CreateCode, Consume, CheckClient, LoadUser, IssueTokens, GiveUp, vars

LEMMA ClientsNext == TypeOK /\ ClientsInv /\ [Next]_vars => ClientsInv'
<1> SUFFICES ASSUME TypeOK, ClientsInv, [Next]_vars PROVE ClientsInv'
  OBVIOUS
<1>1. ASSUME NEW k \in Codes, codes'[k] # NoCode PROVE clients'[codes'[k].client] # "new"
  <2>1. CASE codes[k] # NoCode
    <3>1. codes[k].client \in Clients /\ codes'[k].client = codes[k].client
      BY <2>1, CodesStep DEF TypeOK, Code
    <3> QED BY <2>1, <3>1, ClientsStep DEF ClientsInv
  <2>2. CASE codes[k] = NoCode
    <3>1. ASSUME NEW r \in Requests, CreateCode(r), codes' # codes, codes'[k] # codes[k]
          PROVE  clients'[codes'[k].client] # "new"
      <4>1. /\ codes'[k].client = req[r].client /\ clients' = clients /\ At(r, "insert")
        BY <3>1 DEF CreateCode, TypeOK
      <4> QED BY <4>1 DEF ClientsInv
    <3>2. ASSUME NEW r \in Requests, Consume(r) PROVE codes'[k] = codes[k]
      BY <2>2, <3>2 DEF Consume, Redeemable, TypeOK
    <3> QED
      BY <1>1, <2>2, <3>1, <3>2
      DEF Next, Tick, RegisterClient, DeleteClient, DeleteAccount, Consent, TokenRequest, Handle,
          CheckClient, LoadUser, IssueTokens, GiveUp, vars
  <2> QED BY <2>1, <2>2
<1>2. ASSUME NEW s \in Requests, At(s, "insert")' PROVE clients'[req'[s].client] # "new"
  <2>1. CASE req'[s] = req[s]
    <3>1. req[s].client \in Clients /\ clients[req[s].client] # "new"
      BY <1>2, <2>1, InFlightFields DEF ClientsInv, At
    <3> QED BY <2>1, <3>1, ClientsStep
  <2>2. CASE req'[s] # req[s]
    <3>1. ASSUME NEW r \in Requests, Consent(r) PROVE clients'[req'[s].client] # "new"
      <4>1. s = r
        BY <2>2, <3>1 DEF Consent, TypeOK
      <4>2. clients' = clients /\ clients[req'[s].client] \in ClientTypes
        BY <3>1, <4>1 DEF Consent, TypeOK
      <4> QED BY <4>2 DEF ClientTypes
    <3>2. ASSUME NEW r \in Requests, TokenRequest(r) PROVE FALSE
      BY <1>2, <2>2, <3>2 DEF TokenRequest, TypeOK, At
    <3>3. ASSUME NEW r \in Requests, Done(r) PROVE FALSE
      BY <1>2, <2>2, <3>3, DoneType DEF At
    <3>4. ASSUME NEW r \in Requests, req[r] # NoReq, req[r].pc # "insert",
                 NEW pc \in {"client", "user", "issue"}, Go(r, pc)
          PROVE  FALSE
      BY <1>2, <2>2, <3>4, GoType DEF At
    <3> QED
      BY <2>2, <3>1, <3>2, <3>3, <3>4
      DEF Next, Tick, RegisterClient, DeleteClient, DeleteAccount, Handle, CreateCode, Consume,
          CheckClient, LoadUser, IssueTokens, GiveUp, At, vars
  <2> QED BY <2>1, <2>2
<1> QED BY <1>1, <1>2 DEF ClientsInv

\* How the holder of a code moves on with it.
LEMMA HolderMoves ==
  ASSUME HolderInv, [Next]_vars, NEW s \in Requests, NEW k \in Codes, Holds(s, k), Holds(s, k)'
  PROVE  \/ req'[s] = req[s]
         \/ /\ req[s].pc = "client" /\ req'[s].pc = "user"
            /\ clients[codes[k].client] \in ClientTypes
         \/ /\ req[s].pc = "user" /\ req'[s].pc = "issue"
            /\ codes[k].user \in alive
<1> USE DEF HolderInv
<1>1. req[s] # NoReq /\ req[s].pc # "insert" /\ req[s].code = k /\ codes[k].client = req[s].client
  BY DEF Holds, HolderIsClient
<1>2. ASSUME NEW r \in Requests, Consent(r) \/ TokenRequest(r) PROVE req'[s] = req[s]
  BY <1>1, <1>2 DEF Consent, TokenRequest, TypeOK
<1>3. ASSUME NEW r \in Requests, Done(r) PROVE req'[s] = req[s]
  BY <1>1, <1>3, DoneType DEF Holds
<1>4. ASSUME NEW r \in Requests, r # s, req[r] # NoReq, req[r].pc # "insert",
             NEW pc \in {"client", "user", "issue"}, Go(r, pc)
      PROVE  req'[s] = req[s]
  BY <1>4, GoType
<1>5. CASE CheckClient(s) /\ Go(s, "user") /\ clients[req[s].client] \in ClientTypes
  BY <1>1, <1>5, GoType DEF CheckClient, At
<1>6. CASE LoadUser(s) /\ Go(s, "issue") /\ codes[req[s].code].user \in alive
  BY <1>1, <1>6, GoType DEF LoadUser, At
<1>7. ~At(s, "consume")
  BY DEF Holds, At
<1>8. ASSUME NEW r \in Requests, Consume(r)
      PROVE  Done(r) \/ (r # s /\ req[r] # NoReq /\ req[r].pc # "insert" /\ Go(r, "client"))
  BY <1>7, <1>8 DEF Consume, At
<1>9. ASSUME NEW r \in Requests, CheckClient(r)
      PROVE  \/ Done(r)
             \/ /\ req[r] # NoReq /\ req[r].pc # "insert" /\ Go(r, "user")
                /\ clients[req[r].client] \in ClientTypes
  BY <1>9 DEF CheckClient, At
<1>10. ASSUME NEW r \in Requests, LoadUser(r)
       PROVE  \/ Done(r)
              \/ /\ req[r] # NoReq /\ req[r].pc # "insert" /\ Go(r, "issue")
                 /\ codes[req[r].code].user \in alive
  BY <1>10 DEF LoadUser, At
<1>11. ASSUME NEW r \in Requests, Handle(r)
       PROVE  \/ req'[s] = req[s]
              \/ CheckClient(s) /\ Go(s, "user") /\ clients[req[s].client] \in ClientTypes
              \/ LoadUser(s) /\ Go(s, "issue") /\ codes[req[s].code].user \in alive
  <2>1. CASE CreateCode(r) \/ IssueTokens(r) \/ GiveUp(r)
    BY <1>3, <2>1 DEF CreateCode, IssueTokens, GiveUp
  <2>2. CASE Consume(r)
    BY <1>3, <1>4, <1>8, <2>2
  <2>3. CASE CheckClient(r)
    BY <1>3, <1>4, <1>9, <2>3
  <2>4. CASE LoadUser(r)
    BY <1>3, <1>4, <1>10, <2>4
  <2> QED BY <1>11, <2>1, <2>2, <2>3, <2>4 DEF Handle
<1> QED
  BY <1>2, <1>5, <1>6, <1>11
  DEF Next, Tick, RegisterClient, DeleteClient, DeleteAccount, vars

LEMMA LateInit == Init => LateInv
BY HolderInit DEF Init, LateInv, ClientsInv, At

LEMMA LateNext == LateInv /\ [Next]_vars => LateInv'
<1> SUFFICES ASSUME LateInv, [Next]_vars PROVE LateInv'
  OBVIOUS
<1>1. HolderInv /\ HolderInv' /\ TypeOK /\ ClientsInv /\ ClientsInv'
  BY HolderNext, ClientsNext DEF LateInv, HolderInv
<1>2. ASSUME NEW k \in Codes, codes[k] # NoCode, Gone(k)
      PROVE  Gone(k)' /\ (codes[k].user \notin alive => codes'[k].user \notin alive')
  <2>1. codes[k].client \in Clients /\ clients[codes[k].client] # "new"
    BY <1>1, <1>2 DEF TypeOK, Code, ClientsInv
  <2>2. /\ codes'[k].client = codes[k].client /\ codes'[k].user = codes[k].user
        /\ alive' \subseteq alive
    BY <1>1, <1>2, CodesStep, AliveStep
  <2>3. clients[codes[k].client] \notin ClientTypes => clients'[codes[k].client] \notin ClientTypes
    BY <1>1, <2>1, ClientsStep
  <2> QED BY <1>2, <2>2, <2>3 DEF Gone
<1>3. ASSUME NEW k \in late
      PROVE  /\ codes'[k] # NoCode /\ codes'[k].used /\ Gone(k)' /\ issued'[k] = 0
             /\ \A r \in Requests : Holds(r, k)' =>
                  req'[r].pc = "client" \/ (req'[r].pc = "user" /\ codes'[k].user \notin alive')
  <2>1. k \in Codes /\ codes[k] # NoCode /\ codes[k].used /\ Gone(k) /\ issued[k] = 0
    BY <1>1 DEF LateInv, TypeOK
  <2>2. \A r \in Requests : Holds(r, k) =>
          req[r].pc = "client" \/ (req[r].pc = "user" /\ codes[k].user \notin alive)
    BY DEF LateInv
  <2>3. /\ codes'[k] # NoCode /\ codes'[k].used
        /\ Gone(k)' /\ (codes[k].user \notin alive => codes'[k].user \notin alive')
    BY <1>1, <1>2, <2>1, CodesStep
  <2>4. issued'[k] = 0
    <3>1. ASSUME NEW r \in Requests, NEW l \in Codes, IssueTokens(r), Holds(r, l),
                 issued' = [issued EXCEPT ![l] = 1]
          PROVE  issued'[k] = 0
      <4>1. req[r].pc = "issue"
        BY <3>1 DEF IssueTokens, At
      <4>2. l # k
        BY <2>2, <3>1, <4>1
      <4> QED BY <1>1, <2>1, <3>1, <4>2 DEF TypeOK
    <3> QED BY <1>1, <2>1, <3>1, IssuedStep
  <2>5. ASSUME NEW r \in Requests, Holds(r, k)'
        PROVE  req'[r].pc = "client" \/ (req'[r].pc = "user" /\ codes'[k].user \notin alive')
    <3>1. Holds(r, k)
      BY <1>1, <2>1, <2>5, HoldersStep DEF Redeemable
    <3>2. req[r].pc = "client" \/ (req[r].pc = "user" /\ codes[k].user \notin alive)
      BY <2>2, <3>1
    <3>3. \/ req'[r] = req[r]
          \/ /\ req[r].pc = "client" /\ req'[r].pc = "user"
             /\ clients[codes[k].client] \in ClientTypes
          \/ /\ req[r].pc = "user" /\ req'[r].pc = "issue"
             /\ codes[k].user \in alive
      BY <1>1, <2>1, <2>5, <3>1, HolderMoves
    <3> QED BY <2>1, <2>3, <3>2, <3>3 DEF Gone
  <2> QED BY <2>3, <2>4, <2>5
<1>4. ASSUME NEW k \in late', k \notin late
      PROVE  /\ codes'[k] # NoCode /\ codes'[k].used /\ Gone(k)' /\ issued'[k] = 0
             /\ \A r \in Requests : Holds(r, k)' =>
                  req'[r].pc = "client" \/ (req'[r].pc = "user" /\ codes'[k].user \notin alive')
  <2>1. PICK r \in Requests : /\ Consume(r) /\ k = req[r].code /\ Redeemable(k) /\ Gone(k)
                              /\ codes' = [codes EXCEPT ![k].used = TRUE]
    BY <1>4 DEF Next, Tick, RegisterClient, DeleteClient, DeleteAccount, Consent, TokenRequest,
                Handle, CreateCode, Consume, CheckClient, LoadUser, IssueTokens, GiveUp, vars
  <2>2. k \in Codes /\ codes[k] # NoCode /\ codes[k] \in Code /\ ~codes[k].used
    BY <1>1, <2>1, InFlightFields DEF Consume, At, Redeemable, TypeOK
  <2>3. codes'[k].used
    BY <1>1, <2>1, <2>2 DEF TypeOK, Code
  <2>4. Gone(k)' /\ codes'[k] # NoCode
    BY <1>1, <1>2, <2>1, <2>2, CodesStep
  <2>5. issued'[k] = 0
    <3>1. issued' = issued /\ issued[k] \in Nat /\ ~(issued[k] > 0)
      BY <1>1, <2>1, <2>2 DEF Consume, HolderInv, OneHolder, TypeOK
    <3> QED BY <3>1
  <2>6. ASSUME NEW s \in Requests, Holds(s, k)' PROVE req'[s].pc = "client"
    <3>1. ~Holds(s, k)
      BY <1>1, <2>2 DEF HolderInv, OneHolder
    <3>2. Consume(s)
      BY <1>1, <2>2, <2>6, <3>1, HoldersStep
    <3>3. Go(s, "client") /\ req[s] # NoReq /\ req[s].pc # "insert"
      BY <1>1, <2>6, <3>2, DoneType DEF Consume, Holds, At
    <3> QED BY <1>1, <3>3, GoType
  <2> QED BY <2>3, <2>4, <2>5, <2>6
<1> QED BY <1>1, <1>3, <1>4 DEF LateInv

\* No tokens come of a code whose project or account was gone when it was taken,
\* for whichever project it is presented.
THEOREM LateCodesGetNothing == Spec => []LateCodesAreWorthless
<1>1. LateInv => LateCodesAreWorthless
  BY DEF LateInv, LateCodesAreWorthless
<1> QED
  BY <1>1, LateInit, LateNext, PTL DEF Spec

(***************************************************************************)
(* Whatever the number of tabs, the size of their channels and the order   *)
(* of sends, no browser is sent a sample twice or after a later one:       *)
(* Monitor implements LossyFeed.                                           *)
(*                                                                         *)
(* The argument is about what is on its way to a browser: what its channel *)
(* holds rises, from above what the browser has (or is being sent) to      *)
(* below what publish has still to send it.                                *)
(***************************************************************************)

\* What is in q rises, between low and high.
Rising(q, low, high) ==
  \A i \in 1..Len(q) : /\ low < q[i] /\ q[i] < high
                       /\ \A j \in 1..Len(q) : i < j => q[i] < q[j]

\* Everything on its way to s is below this.
Horizon(s) == IF s \in todo THEN latest ELSE latest + 1

StreamInv(s) ==
  /\ s \in subs <=> at[s] \in {"select", "write"}
  /\ at[s] \in {"latest", "first", "subscribe"} => s \notin todo /\ chan[s] = <<>>
  /\ at[s] \in {"closed", "latest", "first"} => seen[s] = 0
  /\ at[s] = "first" => 0 < sample[s] /\ sample[s] <= latest
  /\ at[s] = "subscribe" => seen[s] <= latest
  /\ at[s] = "select" => seen[s] < Horizon(s) /\ Rising(chan[s], seen[s], Horizon(s))
  /\ at[s] = "write" => /\ seen[s] < sample[s] /\ sample[s] < Horizon(s)
                        /\ Rising(chan[s], sample[s], Horizon(s))

FeedInv == MonitorTypeOK /\ \A s \in Streams : StreamInv(s)

-----------------------------------------------------------------------------
(* Rising sequences.                                                       *)

LEMMA RisingEmpty == ASSUME NEW low, NEW high PROVE Rising(<<>>, low, high)
BY DEF Rising

LEMMA RisingAppend ==
  ASSUME NEW q \in Seq(Nat), NEW low \in Nat, NEW n \in Nat, low < n, Rising(q, low, n)
  PROVE  Rising(Append(q, n), low, n + 1)
<1>1. Len(Append(q, n)) = Len(q) + 1 /\ Append(q, n)[Len(q) + 1] = n /\ Len(q) \in Nat
  OBVIOUS
<1>2. \A i \in 1..Len(q) : Append(q, n)[i] = q[i] /\ q[i] \in Nat
  OBVIOUS
<1>3. ASSUME NEW i \in 1..(Len(q) + 1)
      PROVE  /\ low < Append(q, n)[i] /\ Append(q, n)[i] < n + 1
             /\ \A j \in 1..(Len(q) + 1) : i < j => Append(q, n)[i] < Append(q, n)[j]
  <2>1. CASE i = Len(q) + 1
    BY <1>1, <2>1
  <2>2. CASE i \in 1..Len(q)
    <3>1. low < q[i] /\ q[i] < n /\ \A j \in 1..Len(q) : i < j => q[i] < q[j]
      BY <2>2 DEF Rising
    <3>2. \A j \in 1..(Len(q) + 1) : j \in 1..Len(q) \/ j = Len(q) + 1
      BY <1>1
    <3> QED BY <1>1, <1>2, <2>2, <3>1, <3>2
  <2> QED BY <1>1, <2>1, <2>2
<1> QED BY <1>1, <1>3 DEF Rising

LEMMA RisingHigher ==
  ASSUME NEW q \in Seq(Nat), NEW low \in Nat, NEW n \in Nat, Rising(q, low, n)
  PROVE  Rising(q, low, n + 1)
<1>1. \A i \in 1..Len(q) : q[i] \in Nat
  OBVIOUS
<1> QED BY <1>1 DEF Rising

LEMMA RisingTail ==
  ASSUME NEW q \in Seq(Nat), q # <<>>, NEW low \in Nat, NEW high \in Nat, Rising(q, low, high)
  PROVE  /\ Head(q) \in Nat /\ low < Head(q) /\ Head(q) < high
         /\ Tail(q) \in Seq(Nat) /\ Rising(Tail(q), Head(q), high)
<1>1. Len(q) \in Nat \ {0} /\ Head(q) = q[1] /\ Tail(q) \in Seq(Nat) /\ Len(Tail(q)) = Len(q) - 1
  OBVIOUS
<1>2. \A i \in 1..(Len(q) - 1) : Tail(q)[i] = q[i + 1] /\ i + 1 \in 1..Len(q)
  BY <1>1
<1>3. \A i \in 1..Len(q) : q[i] \in Nat
  OBVIOUS
<1>4. ASSUME NEW i \in 1..(Len(q) - 1)
      PROVE  /\ Head(q) < Tail(q)[i] /\ Tail(q)[i] < high
             /\ \A j \in 1..(Len(q) - 1) : i < j => Tail(q)[i] < Tail(q)[j]
  <2>1. 1 \in 1..Len(q) /\ 1 < i + 1
    BY <1>1
  <2>2. q[1] < q[i + 1] /\ q[i + 1] < high
    BY <1>2, <2>1 DEF Rising
  <2>3. ASSUME NEW j \in 1..(Len(q) - 1), i < j
        PROVE  q[i + 1] < q[j + 1]
    BY <1>1, <1>2, <2>3 DEF Rising
  <2> QED BY <1>1, <1>2, <2>2, <2>3
<1>5. low < Head(q) /\ Head(q) < high /\ Head(q) \in Nat
  BY <1>1, <1>3 DEF Rising
<1> QED BY <1>1, <1>4, <1>5 DEF Rising

-----------------------------------------------------------------------------
(* Types.                                                                  *)

LEMMA MonitorTypes ==
  ASSUME MonitorTypeOK, [MonitorNext]_monitorVars
  PROVE  MonitorTypeOK'
<1> USE DEF MonitorTypeOK
<1>1. CASE TakeSample
  BY <1>1 DEF TakeSample
<1>2. ASSUME NEW s \in Streams, Send(s) PROVE MonitorTypeOK'
  <2>1. chan' \in [Streams -> Seq(Nat)]
    BY <1>2 DEF Send
  <2> QED BY <1>2, <2>1 DEF Send
<1>3. ASSUME NEW s \in Streams, Connect(s) PROVE MonitorTypeOK'
  BY <1>3 DEF Connect, Move, Places
<1>4. ASSUME NEW s \in Streams, Serve(s) PROVE MonitorTypeOK'
  <2>1. CASE Latest(s)
    BY <2>1 DEF Latest, Move, Places
  <2>2. CASE WriteFirst(s)
    BY <2>2 DEF WriteFirst, Write, Move, Places
  <2>3. CASE Subscribe(s)
    BY <2>3 DEF Subscribe, Move, Places
  <2>4. CASE Receive(s)
    <3>1. Head(chan[s]) \in Nat /\ Tail(chan[s]) \in Seq(Nat)
      BY <2>4 DEF Receive
    <3> QED BY <2>4, <3>1 DEF Receive, Move, Places
  <2>5. CASE WriteNext(s)
    BY <2>5 DEF WriteNext, Write, Move, Places
  <2>6. CASE Leave(s)
    BY <2>6 DEF Leave, Move, Places
  <2> QED BY <1>4, <2>1, <2>2, <2>3, <2>4, <2>5, <2>6 DEF Serve
<1>5. ASSUME NEW s \in Streams, Disconnect(s) PROVE MonitorTypeOK'
  BY <1>5 DEF Disconnect
<1>6. CASE UNCHANGED monitorVars
  BY <1>6 DEF monitorVars
<1> QED BY <1>1, <1>2, <1>3, <1>4, <1>5, <1>6 DEF MonitorNext

-----------------------------------------------------------------------------
(* The invariant of each stream.                                           *)

\* What s does leaves every other stream alone.
LEMMA OthersRest ==
  ASSUME FeedInv, NEW s \in Streams, NEW r \in Streams \ {s},
         Send(s) \/ Connect(s) \/ Serve(s) \/ Disconnect(s)
  PROVE  StreamInv(r)'
<1> USE DEF FeedInv, MonitorTypeOK
<1>1. /\ latest' = latest /\ at'[r] = at[r] /\ chan'[r] = chan[r] /\ seen'[r] = seen[r]
      /\ sample'[r] = sample[r] /\ (r \in subs' <=> r \in subs) /\ (r \in todo' <=> r \in todo)
  <2>1. CASE Send(s)
    BY <2>1 DEF Send
  <2>2. CASE Connect(s)
    BY <2>2 DEF Connect, Move
  <2>3. CASE Latest(s) \/ Subscribe(s) \/ Receive(s) \/ Leave(s)
    BY <2>3 DEF Latest, Subscribe, Receive, Leave, Move
  <2>4. CASE WriteFirst(s) \/ WriteNext(s)
    BY <2>4 DEF WriteFirst, WriteNext, Write, Move
  <2>5. CASE Disconnect(s)
    BY <2>5 DEF Disconnect
  <2> QED BY <2>1, <2>2, <2>3, <2>4, <2>5 DEF Serve
<1>2. StreamInv(r)
  OBVIOUS
<1> QED BY <1>1, <1>2 DEF StreamInv, Horizon

LEMMA TakeSampleKeeps ==
  ASSUME FeedInv, TakeSample, NEW s \in Streams
  PROVE  StreamInv(s)'
<1>1. /\ latest \in Nat /\ latest' = latest + 1 /\ todo = {} /\ todo' = subs /\ seen[s] \in Nat
      /\ subs' = subs /\ at' = at /\ chan' = chan /\ seen' = seen /\ sample' = sample
      /\ sample[s] \in Nat /\ StreamInv(s)
  BY DEF FeedInv, MonitorTypeOK, TakeSample
<1>2. at[s] \in {"select", "write"} => Horizon(s)' = Horizon(s)
  BY <1>1 DEF StreamInv, Horizon
<1> QED BY <1>1, <1>2 DEF StreamInv

LEMMA SendKeeps ==
  ASSUME FeedInv, NEW s \in Streams, Send(s)
  PROVE  StreamInv(s)'
<1>1. /\ latest' = latest /\ s \in todo /\ s \notin todo' /\ subs' = subs /\ at' = at
      /\ seen' = seen /\ sample' = sample /\ chan'[s] \in {chan[s], Append(chan[s], latest)}
  BY DEF FeedInv, MonitorTypeOK, Send
<1>2. latest \in Nat /\ seen[s] \in Nat /\ sample[s] \in Nat /\ chan[s] \in Seq(Nat) /\ StreamInv(s)
  BY DEF FeedInv, MonitorTypeOK
<1>3. Horizon(s) = latest /\ Horizon(s)' = latest + 1
  BY <1>1 DEF Horizon
<1>4. \A low \in Nat : low < latest /\ Rising(chan[s], low, latest) => Rising(chan'[s], low, latest + 1)
  BY <1>1, <1>2, RisingAppend, RisingHigher
<1>5. at[s] = "select" => /\ seen[s] < latest + 1 /\ Rising(chan'[s], seen[s], latest + 1)
  BY <1>2, <1>3, <1>4 DEF StreamInv
<1>6. at[s] = "write" => /\ seen[s] < sample[s] /\ sample[s] < latest + 1
                         /\ Rising(chan'[s], sample[s], latest + 1)
  BY <1>2, <1>3, <1>4 DEF StreamInv
<1>7. at[s] \notin {"latest", "first", "subscribe"}
  BY <1>1, <1>2 DEF StreamInv
<1> QED BY <1>1, <1>2, <1>3, <1>5, <1>6, <1>7 DEF StreamInv

LEMMA ServeKeeps ==
  ASSUME FeedInv, NEW s \in Streams, Connect(s) \/ Serve(s) \/ Disconnect(s)
  PROVE  StreamInv(s)'
<1>1. latest \in Nat /\ seen[s] \in Nat /\ sample[s] \in Nat /\ chan[s] \in Seq(Nat) /\ StreamInv(s)
  BY DEF FeedInv, MonitorTypeOK
<1> USE DEF FeedInv, MonitorTypeOK
<1>2. CASE Connect(s)
  BY <1>1, <1>2 DEF Connect, Move, StreamInv
<1>3. CASE Latest(s)
  <2>1. /\ at[s] = "latest" /\ at'[s] = IF latest = 0 THEN "subscribe" ELSE "first"
        /\ sample'[s] = latest /\ latest' = latest /\ subs' = subs /\ todo' = todo
        /\ chan' = chan /\ seen' = seen
    BY <1>3 DEF Latest, Move
  <2> QED BY <1>1, <2>1 DEF StreamInv
<1>4. CASE WriteFirst(s)
  <2>1. /\ at[s] = "first" /\ at'[s] = "subscribe" /\ seen'[s] \in {seen[s], sample[s]}
        /\ latest' = latest /\ subs' = subs /\ todo' = todo /\ chan' = chan
    BY <1>4 DEF WriteFirst, Write, Move
  <2> QED BY <1>1, <2>1 DEF StreamInv
<1>5. CASE Subscribe(s)
  <2>1. /\ at[s] = "subscribe" /\ at'[s] = "select" /\ seen' = seen /\ latest' = latest
        /\ s \in subs' /\ todo' = todo /\ chan' = chan
    BY <1>5 DEF Subscribe, Move
  <2>2. Horizon(s)' = latest + 1 /\ seen[s] <= latest /\ chan[s] = <<>>
    BY <1>1, <2>1 DEF StreamInv, Horizon
  <2>3. Rising(<<>>, seen[s], latest + 1)
    BY RisingEmpty
  <2> QED BY <1>1, <2>1, <2>2, <2>3 DEF StreamInv
<1>6. CASE Receive(s)
  <2>1. /\ at[s] = "select" /\ at'[s] = "write" /\ seen' = seen /\ latest' = latest
        /\ subs' = subs /\ todo' = todo /\ chan[s] # <<>>
        /\ sample'[s] = Head(chan[s]) /\ chan'[s] = Tail(chan[s])
    BY <1>6 DEF Receive, Move
  <2>2. Horizon(s)' = Horizon(s) /\ Horizon(s) \in Nat
    BY <1>1, <2>1 DEF Horizon
  <2>3. Rising(chan[s], seen[s], Horizon(s)) /\ s \in subs
    BY <1>1, <2>1 DEF StreamInv
  <2>4. /\ seen[s] < Head(chan[s]) /\ Head(chan[s]) < Horizon(s)
        /\ Rising(Tail(chan[s]), Head(chan[s]), Horizon(s))
    BY <1>1, <2>1, <2>2, <2>3, RisingTail
  <2> QED BY <2>1, <2>2, <2>3, <2>4 DEF StreamInv
<1>7. CASE WriteNext(s)
  <2>1. /\ at[s] = "write" /\ at'[s] = "select" /\ seen'[s] \in {seen[s], sample[s]}
        /\ latest' = latest /\ subs' = subs /\ todo' = todo /\ chan' = chan
    BY <1>7 DEF WriteNext, Write, Move
  <2>2. Horizon(s)' = Horizon(s) /\ Horizon(s) \in Nat
    BY <1>1, <2>1 DEF Horizon
  <2>3. /\ s \in subs /\ seen[s] < sample[s] /\ sample[s] < Horizon(s)
        /\ Rising(chan[s], sample[s], Horizon(s))
    BY <1>1, <2>1 DEF StreamInv
  <2>4. Rising(chan[s], seen[s], Horizon(s))
    <3>1. \A i \in 1..Len(chan[s]) : chan[s][i] \in Nat
      BY <1>1
    <3> QED BY <1>1, <2>3, <3>1 DEF Rising
  <2> QED BY <1>1, <2>1, <2>2, <2>3, <2>4 DEF StreamInv
<1>8. CASE Leave(s)
  <2>1. at'[s] = "closed" /\ seen'[s] = 0 /\ s \notin subs'
    BY <1>8 DEF Leave, Move
  <2> QED BY <2>1 DEF StreamInv
<1>9. CASE Disconnect(s)
  BY <1>1, <1>9 DEF Disconnect, StreamInv, Horizon
<1> QED BY <1>2, <1>3, <1>4, <1>5, <1>6, <1>7, <1>8, <1>9 DEF Serve

LEMMA FeedStep == FeedInv /\ [MonitorNext]_monitorVars => FeedInv'
<1> SUFFICES ASSUME FeedInv, [MonitorNext]_monitorVars, NEW s \in Streams
             PROVE  StreamInv(s)'
  BY MonitorTypes DEF FeedInv
<1>1. CASE UNCHANGED monitorVars
  BY <1>1 DEF monitorVars, FeedInv, StreamInv, Horizon
<1>2. CASE TakeSample
  BY <1>2, TakeSampleKeeps
<1>3. ASSUME NEW r \in Streams, Send(r) \/ Connect(r) \/ Serve(r) \/ Disconnect(r)
      PROVE  StreamInv(s)'
  BY <1>3, OthersRest, SendKeeps, ServeKeeps
<1> QED BY <1>1, <1>2, <1>3 DEF MonitorNext

LEMMA FeedInvariant == MonitorSpec => []FeedInv
<1>1. MonitorInit => FeedInv
  BY DEF MonitorInit, FeedInv, MonitorTypeOK, StreamInv, Places
<1> QED BY <1>1, FeedStep, PTL DEF MonitorSpec

-----------------------------------------------------------------------------
(* The theorems.                                                           *)

\* The types of Monitor.
THEOREM MonitorTypeCorrect == MonitorSpec => []MonitorTypeOK
<1>1. FeedInv => MonitorTypeOK
  BY DEF FeedInv
<1> QED BY <1>1, FeedInvariant, PTL

\* A step of the collector or of a handler is a step of the feed, or none.
LEMMA FeedSimulated ==
  ASSUME FeedInv, [MonitorNext]_monitorVars
  PROVE  [Feed!Next]_<<latest, seen>>
<1> USE DEF FeedInv, MonitorTypeOK
<1>1. CASE TakeSample
  BY <1>1 DEF TakeSample, Feed!Next, Feed!Publish
<1>2. ASSUME NEW s \in Streams, WriteFirst(s) \/ WriteNext(s)
      PROVE  [Feed!Next]_<<latest, seen>>
  <2>1. latest' = latest /\ (seen' = seen \/ seen' = [seen EXCEPT ![s] = sample[s]])
    BY <1>2 DEF WriteFirst, WriteNext, Write
  <2>2. sample[s] \in (seen[s] + 1)..latest
    <3>1. latest \in Nat /\ seen[s] \in Nat /\ sample[s] \in Nat /\ StreamInv(s)
      OBVIOUS
    <3>2. CASE at[s] = "first"
      BY <3>1, <3>2 DEF StreamInv
    <3>3. CASE at[s] = "write"
      BY <3>1, <3>3 DEF StreamInv, Horizon
    <3> QED BY <1>2, <3>2, <3>3 DEF WriteFirst, WriteNext, Move
  <2> QED BY <2>1, <2>2 DEF Feed!Next, Feed!Show
<1>3. ASSUME NEW s \in Streams, Leave(s) PROVE [Feed!Next]_<<latest, seen>>
  BY <1>3 DEF Leave, Feed!Next, Feed!Close
<1>4. ASSUME NEW s \in Streams,
             Send(s) \/ Connect(s) \/ Latest(s) \/ Subscribe(s) \/ Receive(s) \/ Disconnect(s)
      PROVE  UNCHANGED <<latest, seen>>
  BY <1>4 DEF Send, Connect, Latest, Subscribe, Receive, Disconnect
<1>5. CASE UNCHANGED monitorVars
  BY <1>5 DEF monitorVars
<1> QED BY <1>1, <1>2, <1>3, <1>4, <1>5 DEF MonitorNext, Serve

\* "it sends the latest sample immediately (if one exists yet) and then a fresh event
\* on every subsequent tick" (ServeStream): Monitor implements LossyFeed, so that no
\* browser is sent a sample twice or after a later one.
THEOREM MonitorIsAFeed == MonitorSpec => StreamsAdvance
<1>1. MonitorInit => Feed!Init
  BY DEF MonitorInit, Feed!Init
<1>2. FeedInv /\ [MonitorNext]_monitorVars => [Feed!Next]_<<latest, seen>>
  BY FeedSimulated
<1> QED BY <1>1, <1>2, FeedInvariant, PTL DEF MonitorSpec, StreamsAdvance, Feed!Spec
=============================================================================
