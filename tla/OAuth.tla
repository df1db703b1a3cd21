------------------------------- MODULE OAuth -------------------------------
(***************************************************************************)
(* The authorization-code flow of the OAuth provider (server/oauth.go,     *)
(* store/oauth.go, oidc): a signed-in account consents, gets a code, and a *)
(* registered project turns the code into tokens.                          *)
(*                                                                         *)
(* Consent and token requests are processes of several statements.         *)
(* ConsumeOAuthCode is the one transaction of the store: the pool has one  *)
(* connection and the transaction holds it, so reading and marking a code  *)
(* is a single step.  Everything it is followed by is not.                 *)
(***************************************************************************)
EXTENDS Naturals

CONSTANTS Accounts,  \* user ids
          Clients,   \* client ids: random, never given twice
          Codes,     \* authorization codes: random, never given twice
          NoCode,    \* a code not handed out yet
          Requests, NoReq,
          CodeTTL,   \* authCodeTTL
          MaxTime    \* bound on the clock

ASSUME TimesAreNumbers == CodeTTL \in Nat /\ MaxTime \in Nat

VARIABLES now,
          alive,    \* accounts with a row
          clients,  \* oauth_clients, and what ids were or will be
          codes,    \* oauth_codes
          req,      \* requests in flight
          issued,   \* history: access tokens issued for each code
          late      \* history: codes taken when their project or account was gone

vars == <<now, alive, clients, codes, req, issued, late>>

ClientTypes == {"confidential", "public", "service"}
Code == [client: Clients, user: Accounts, pkce: BOOLEAN, until: Nat, used: BOOLEAN]

\* A consent about to insert its code, or a token request that has, from
\* "client" on, consumed one.
InFlight ==
  [pc: {"insert"}, client: Clients, user: Accounts, pkce: BOOLEAN]
    \cup [pc: {"consume", "client", "user", "issue"}, client: Clients, code: Codes]
ASSUME NothingsDiffer == NoCode \notin Code /\ NoReq \notin InFlight

TypeOK ==
  /\ now \in Nat
  /\ alive \subseteq Accounts
  /\ clients \in [Clients -> ClientTypes \cup {"new", "deleted"}]
  /\ codes \in [Codes -> Code \cup {NoCode}]
  /\ req \in [Requests -> InFlight \cup {NoReq}]
  /\ issued \in [Codes -> Nat]
  /\ late \subseteq Codes

Init ==
  /\ now = 0
  /\ alive = Accounts
  /\ clients = [c \in Clients |-> "new"]
  /\ codes = [k \in Codes |-> NoCode]
  /\ req = [r \in Requests |-> NoReq]
  /\ issued = [k \in Codes |-> 0]
  /\ late = {}

Tick ==
  /\ now < MaxTime
  /\ now' = now + 1
  /\ UNCHANGED <<alive, clients, codes, req, issued, late>>

-----------------------------------------------------------------------------
(* What changes around the flow.                                           *)

RegisterClient(c) ==
  /\ clients[c] = "new"
  /\ \E type \in ClientTypes : clients' = [clients EXCEPT ![c] = type]
  /\ UNCHANGED <<now, alive, codes, req, issued, late>>

\* Codes of a deleted project stay in oauth_codes.
DeleteClient(c) ==
  /\ clients[c] \in ClientTypes
  /\ clients' = [clients EXCEPT ![c] = "deleted"]
  /\ UNCHANGED <<now, alive, codes, req, issued, late>>

\* Accounts.DeleteAccount: codes of the account stay too.
DeleteAccount(u) ==
  /\ u \in alive
  /\ alive' = alive \ {u}
  /\ UNCHANGED <<now, clients, codes, req, issued, late>>

-----------------------------------------------------------------------------
(* Requests.                                                               *)

At(r, pc) == req[r] # NoReq /\ req[r].pc = pc
Go(r, pc) == req' = [req EXCEPT ![r] = [@ EXCEPT !.pc = pc]]
Done(r)   == req' = [req EXCEPT ![r] = NoReq]

\* handleAuthorizePost up to GetOAuthClient.  The consent page made a public
\* client use PKCE; the form that comes back is not asked again.
Consent(r) ==
  /\ req[r] = NoReq
  /\ \E u \in alive, c \in Clients, pkce \in BOOLEAN :
       /\ clients[c] \in ClientTypes
       /\ req' = [req EXCEPT ![r] = [pc |-> "insert", client |-> c, user |-> u, pkce |-> pkce]]
  /\ UNCHANGED <<now, alive, clients, codes, issued, late>>

\* CreateOAuthCode.  (The fraction of a second that the stored expiry loses is
\* within a tick; how long exactly a code lives matters to no property here.)
CreateCode(r) ==
  /\ At(r, "insert")
  /\ \E k \in Codes :
       /\ codes[k] = NoCode
       /\ codes' = [codes EXCEPT ![k] =
            [client |-> req[r].client, user |-> req[r].user, pkce |-> req[r].pkce,
             until |-> now + CodeTTL, used |-> FALSE]]
  /\ Done(r)
  /\ UNCHANGED <<now, alive, clients, issued, late>>

\* tokenAuthCode: any caller, any code, any client id.
TokenRequest(r) ==
  /\ req[r] = NoReq
  /\ \E k \in Codes, c \in Clients :
       req' = [req EXCEPT ![r] = [pc |-> "consume", client |-> c, code |-> k]]
  /\ UNCHANGED <<now, alive, clients, codes, issued, late>>

\* Neither unknown, nor used, nor expired.
Redeemable(k) ==
  /\ codes[k] # NoCode
  /\ ~codes[k].used
  /\ now <= codes[k].until

Gone(k) == clients[codes[k].client] \notin ClientTypes \/ codes[k].user \notin alive

\* Mutants: the code is never marked; the client is not compared.
Consume_NoMark(r) ==
  /\ At(r, "consume")
  /\ IF Redeemable(req[r].code) /\ codes[req[r].code].client = req[r].client
     THEN Go(r, "client") ELSE Done(r)
  /\ UNCHANGED <<now, alive, clients, codes, issued, late>>
Consume_AnyClient(r) ==
  /\ At(r, "consume")
  /\ LET k == req[r].code IN
       IF Redeemable(k)
       THEN /\ codes' = [codes EXCEPT ![k].used = TRUE]
            /\ late' = IF Gone(k) THEN late \cup {k} ELSE late
            /\ Go(r, "client")
       ELSE UNCHANGED <<codes, late>> /\ Done(r)
  /\ UNCHANGED <<now, alive, clients, issued>>

\* ConsumeOAuthCode marks the code before anybody asks whose it is; only then
\* client id and redirect URI are compared.  (A redirect URI that does not match
\* ends the request like a client that does not.)
Consume(r) ==
  /\ At(r, "consume")
  /\ LET k == req[r].code IN
       IF Redeemable(k)
       THEN /\ codes' = [codes EXCEPT ![k].used = TRUE]
            /\ late' = IF Gone(k) THEN late \cup {k} ELSE late
            /\ IF codes[k].client = req[r].client THEN Go(r, "client") ELSE Done(r)
       ELSE UNCHANGED <<codes, late>> /\ Done(r)
  /\ UNCHANGED <<now, alive, clients, issued>>

\* GetOAuthClient, then VerifyPKCE or the client secret.  Whether the verifier
\* or the secret presented is the right one is the caller's doing.
CheckClient(r) ==
  /\ At(r, "client")
  /\ \/ clients[req[r].client] \in ClientTypes /\ Go(r, "user")
     \/ /\ \/ clients[req[r].client] \notin ClientTypes
           \/ clients[req[r].client] # "public"
           \/ codes[req[r].code].pkce
        /\ Done(r)
  /\ UNCHANGED <<now, alive, clients, codes, issued, late>>

LoadUser(r) ==
  /\ At(r, "user")
  /\ IF codes[req[r].code].user \in alive THEN Go(r, "issue") ELSE Done(r)
  /\ UNCHANGED <<now, alive, clients, codes, issued, late>>

\* IssueAccessToken (and IssueIDToken): stateless, signed, not stored.
IssueTokens(r) ==
  /\ At(r, "issue")
  /\ issued' = [issued EXCEPT ![req[r].code] = @ + 1]
  /\ Done(r)
  /\ UNCHANGED <<now, alive, clients, codes, late>>

\* Consent refused, an error, a crash: the request ends where it stands.
GiveUp(r) ==
  /\ req[r] # NoReq
  /\ Done(r)
  /\ UNCHANGED <<now, alive, clients, codes, issued, late>>

Handle(r) ==
  \/ CreateCode(r) \/ Consume(r) \/ CheckClient(r) \/ LoadUser(r) \/ IssueTokens(r) \/ GiveUp(r)

Next ==
  \/ Tick
  \/ \E c \in Clients : RegisterClient(c) \/ DeleteClient(c)
  \/ \E u \in Accounts : DeleteAccount(u)
  \/ \E r \in Requests : Consent(r) \/ TokenRequest(r) \/ Handle(r)

Spec == Init /\ [][Next]_vars

-----------------------------------------------------------------------------
(* Properties.                                                             *)

\* Request r has consumed its code and may still issue tokens for it.
Holds(r, k) == req[r] # NoReq /\ req[r].pc \in {"client", "user", "issue"} /\ req[r].code = k

\* "so a code can never be redeemed twice even under a race" (ConsumeOAuthCode):
\* seen from outside, a code is a one-shot token.
Once == INSTANCE AtMostOnce WITH Things <- Codes, times <- issued
RedeemedAtMostOnce == Once!Spec

\* Why: a code is in the hands of one request at most, that request has not
\* issued anything yet, and the code is burnt from the moment it is taken.
OneHolder ==
  \A k \in Codes :
    /\ \A r, s \in Requests : Holds(r, k) /\ Holds(s, k) => r = s
    /\ \A r \in Requests : Holds(r, k) => issued[k] = 0
    /\ issued[k] <= 1
    /\ (issued[k] > 0 \/ \E r \in Requests : Holds(r, k)) => codes[k] # NoCode /\ codes[k].used

\* A code outlives its project and its account (oauth_codes has no foreign keys),
\* and tokenAuthCode reads the code, the project and the account one after another
\* while each may be deleted.  Still nothing is issued that a look at all three at
\* the moment the code was taken would have refused, to whichever project.  (A
\* deletion after that moment may come too late, and the tokens do not expire
\* with the row.)
LateCodesAreWorthless == \A k \in late : issued[k] = 0
=============================================================================
