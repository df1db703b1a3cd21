--------------------------- MODULE Network_proofs ----------------------------
(***************************************************************************)
(* Theorems about the VPN and about port forwarding.                       *)
(***************************************************************************)
EXTENDS Vpn, Forwards, FiniteSetTheorems, TLAPS

(***************************************************************************)
(* Theorems about Vpn, for any number of peers, addresses and requests in  *)
(* flight, whatever fails: no address is ever given to two devices, and no *)
(* peer has two install links. And, while requests come one after another, *)
(* what the interface is brought to is the database.                       *)
(***************************************************************************)

-----------------------------------------------------------------------------
(* Requests.                                                               *)

PCs == {"insert", "flip", "settings", "list", "write", "reload", "undo", "unlink", "link"}
Ops == {"create", "toggle", "delete", "link"}

\* What a request can hold: a configuration it read and has yet to write gives
\* no address to two peers, whatever became of those peers meanwhile.
Held ==
  {q \in InFlight :
     /\ q.pc = "list" => q.snap \in Config
     /\ q.pc \in {"unlink", "link"} => q.peer \in Peers
     /\ OneRouteEach(q.snap)}
Requesting == [Requests -> Held \cup {NoReq}]

RouteInv ==
  /\ TypeOK
  /\ UniqueAddresses
  /\ req \in Requesting

LEMMA NoConfIsFine == OneRouteEach(NoConf)
BY DEF OneRouteEach

LEMMA RequestFields ==
  ASSUME NEW q \in Held
  PROVE  /\ q \in InFlight /\ q # NoReq
         /\ q.pc \in PCs /\ q.op \in Ops
         /\ q.peer \in Peers \cup {NoPeer}
         /\ q.ip \in Hosts \cup {0}
         /\ q.on \in BOOLEAN
         /\ q.snap \in Config \cup {NoConf}
         /\ OneRouteEach(q.snap)
         /\ q.pc = "list" => q.snap \in Config
         /\ q.pc \in {"unlink", "link"} => q.peer \in Peers
BY NothingsDiffer DEF Held, InFlight, PCs, Ops

\* What the handlers write into a request of theirs keeps it a request.
LEMMA RowWritten ==
  ASSUME NEW q \in Held, NEW p \in Peers \cup {NoPeer}
  PROVE  /\ [q EXCEPT !.pc = "settings", !.peer = p, !.ip = 0] \in Held
         /\ [q EXCEPT !.pc = "settings", !.peer = p, !.on = FALSE] \in Held
BY RequestFields DEF Held, InFlight

LEMMA SnapTaken ==
  ASSUME NEW q \in Held, NEW c \in Config, OneRouteEach(c),
         NEW pc \in {"list", "write"}
  PROVE  [q EXCEPT !.pc = pc, !.snap = c] \in Held
BY RequestFields DEF Held, InFlight

LEMMA SnapDropped ==
  ASSUME NEW q \in Held, NEW pc \in {"reload", "undo"}
  PROVE  [q EXCEPT !.pc = pc, !.snap = NoConf] \in Held
BY RequestFields, NoConfIsFine DEF Held, InFlight

\* The ways a step changes the requests.
LEMMA StartHeld ==
  ASSUME RouteInv, NEW r \in Requests, NEW pc \in PCs \ {"list"}, NEW op \in Ops,
         NEW p \in Peers \cup {NoPeer}, pc = "unlink" => p \in Peers, pc # "link",
         NEW ip \in Hosts \cup {0}, NEW on \in BOOLEAN, Start(r, pc, op, p, ip, on)
  PROVE  req' \in Requesting /\ overlapped' \in BOOLEAN
<1> DEFINE q == [pc |-> pc, op |-> op, peer |-> p, ip |-> ip, on |-> on, snap |-> NoConf]
<1>1. q \in InFlight
  BY DEF InFlight, PCs, Ops
<1>2. q \in Held
  BY <1>1, NoConfIsFine DEF Held, PCs
<1>3. req' = [req EXCEPT ![r] = q]
  BY DEF Start
<1>4. req' \in Requesting
  BY <1>2, <1>3 DEF RouteInv, Requesting
<1>5. overlapped' \in BOOLEAN
  BY DEF Start, RouteInv, TypeOK
<1> QED
  BY <1>4, <1>5

LEMMA DoneHeld ==
  ASSUME RouteInv, NEW r \in Requests, Done(r) PROVE req' \in Requesting
BY DEF RouteInv, Requesting, Done

LEMMA FailHeld ==
  ASSUME RouteInv, NEW r \in Requests, req[r] # NoReq, Fail(r) PROVE req' \in Requesting
<1>1. req[r] \in Held
  BY DEF RouteInv, Requesting
<1>2. [req[r] EXCEPT !.pc = "undo", !.snap = NoConf] \in Held
  BY <1>1, SnapDropped
<1> QED
  BY <1>2, DoneHeld DEF Fail, RouteInv, Requesting

LEMMA AtHeld ==
  ASSUME RouteInv, NEW r \in Requests, NEW pc, At(r, pc)
  PROVE  req[r] # NoReq /\ req[r] \in Held /\ req[r].pc = pc
BY DEF RouteInv, Requesting, At

-----------------------------------------------------------------------------
(* Rows and what is rendered from them.                                    *)

\* The table, rendered, gives no address to two peers.
LEMMA RenderIsFine ==
  ASSUME RouteInv
  PROVE  /\ Render \subseteq Peers \X Hosts
         /\ \A x, y \in Render : x[2] = y[2] => x[1] = y[1]
<1>1. \A p \in Rows : p \in Peers /\ peers[p].ip \in Hosts
  BY DEF RouteInv, TypeOK, Rows, Peer
<1>2. \A p, q \in Rows : peers[p].ip = peers[q].ip => p = q
  BY DEF RouteInv, UniqueAddresses
<1> QED
  BY <1>1, <1>2 DEF Render

\* A row changes so that addresses stay apart.
RowsKept ==
  /\ peers' \in [Peers -> Peer \cup {NoPeer}]
  /\ \A p, q \in Peers : peers'[p] # NoPeer /\ peers'[q] # NoPeer /\ peers'[p].ip = peers'[q].ip
                           => p = q

LEMMA RowRemoved ==
  ASSUME RouteInv, NEW p, peers' = [peers EXCEPT ![p] = NoPeer] PROVE RowsKept
BY DEF RouteInv, TypeOK, UniqueAddresses, Rows, RowsKept

LEMMA RowAdded ==
  ASSUME RouteInv, NEW p \in Peers, NEW h \in FreeHosts,
         peers' = [peers EXCEPT ![p] = [ip |-> h, on |-> TRUE]]
  PROVE  RowsKept
<1>1. [ip |-> h, on |-> TRUE] \in Peer
  BY DEF FreeHosts, Peer
<1>2. \A q \in Rows : peers[q].ip # h
  BY DEF FreeHosts
<1> QED
  BY <1>1, <1>2 DEF RouteInv, TypeOK, UniqueAddresses, Rows, RowsKept

LEMMA RowFlipped ==
  ASSUME RouteInv, NEW p \in Rows, NEW on \in BOOLEAN,
         peers' = [peers EXCEPT ![p].on = on]
  PROVE  RowsKept
<1>1. p \in Peers /\ peers[p] \in Peer
  BY DEF RouteInv, TypeOK, Rows
<1>2. [peers[p] EXCEPT !.on = on] \in Peer /\ [peers[p] EXCEPT !.on = on].ip = peers[p].ip
  BY <1>1 DEF Peer
<1>3. peers' = [peers EXCEPT ![p] = [peers[p] EXCEPT !.on = on]]
  OBVIOUS
<1> QED
  BY <1>1, <1>2, <1>3 DEF RouteInv, TypeOK, UniqueAddresses, Rows, RowsKept

LEMMA RowsUnchanged == ASSUME RouteInv, UNCHANGED peers PROVE RowsKept
BY DEF RouteInv, TypeOK, UniqueAddresses, Rows, RowsKept

\* A configuration, with no address given twice.
Fine(c) == c \in Config \cup {NoConf} /\ OneRouteEach(c)

LEMMA FilesAreFine == ASSUME RouteInv PROVE Fine(conf) /\ Fine(live) /\ Fine(NoConf)
BY NoConfIsFine DEF RouteInv, TypeOK, UniqueAddresses, Fine

\* What a step has to show.
LEMMA StepKeeps ==
  ASSUME RouteInv, RowsKept, req' \in Requesting, used' \subseteq Peers, port' \in Ports,
         links' \subseteq Peers \X Tokens, overlapped' \in BOOLEAN, Fine(conf'), Fine(live')
  PROVE  RouteInv'
<1>1. req' \in [Requests -> InFlight \cup {NoReq}]
  BY DEF Requesting, Held
<1>2. TypeOK'
  BY <1>1 DEF TypeOK, RowsKept, Fine
<1>3. UniqueAddresses'
  BY DEF UniqueAddresses, Rows, RowsKept, Fine
<1> QED
  BY <1>2, <1>3 DEF RouteInv, Requesting

-----------------------------------------------------------------------------
(* No address twice.                                                       *)

LEMMA RouteInit == Init => RouteInv
<1> SUFFICES ASSUME Init PROVE RouteInv
  OBVIOUS
<1>1. TypeOK
  BY DEF Init, TypeOK
<1>2. UniqueAddresses
  BY NoConfIsFine DEF Init, UniqueAddresses, Rows
<1> QED
  BY <1>1, <1>2 DEF Init, RouteInv, Requesting

LEMMA RouteNext == RouteInv /\ [Next]_vars => RouteInv'
<1> SUFFICES ASSUME RouteInv, [Next]_vars PROVE RouteInv'
  OBVIOUS
<1>t. /\ used \subseteq Peers /\ port \in Ports /\ links \subseteq Peers \X Tokens
      /\ overlapped \in BOOLEAN
  BY DEF RouteInv, TypeOK
<1>1. ASSUME NEW r \in Requests, PickAddress(r) PROVE RouteInv'
  <2>1. PICK h \in FreeHosts : Start(r, "insert", "create", NoPeer, h, TRUE)
    BY <1>1 DEF PickAddress
  <2>2. h \in Hosts
    BY DEF FreeHosts
  <2>3. req' \in Requesting /\ overlapped' \in BOOLEAN
    BY <2>1, <2>2, StartHeld DEF PCs, Ops
  <2> QED
    BY <1>1, <1>t, <2>3, RowsUnchanged, FilesAreFine, StepKeeps DEF PickAddress
<1>2. ASSUME NEW r \in Requests, InsertPeer(r) PROVE RouteInv'
  <2>1. req[r] \in Held
    BY <1>2, AtHeld DEF InsertPeer
  <2>2. CASE req[r].ip \in FreeHosts
    <3>1. PICK p \in Peers \ used :
            /\ peers' = [peers EXCEPT ![p] = [ip |-> req[r].ip, on |-> TRUE]]
            /\ used' = used \cup {p}
            /\ req' = [req EXCEPT ![r] = [@ EXCEPT !.pc = "settings", !.peer = p, !.ip = 0]]
      BY <1>2, <2>2 DEF InsertPeer
    <3>2. RowsKept
      BY <2>2, <3>1, RowAdded
    <3>3. req' \in Requesting
      BY <2>1, <3>1, RowWritten DEF RouteInv, Requesting
    <3> QED
      BY <1>2, <1>t, <3>1, <3>2, <3>3, FilesAreFine, StepKeeps DEF InsertPeer
  <2>3. CASE req[r].ip \notin FreeHosts
    BY <1>2, <1>t, <2>3, DoneHeld, RowsUnchanged, FilesAreFine, StepKeeps DEF InsertPeer
  <2> QED
    BY <2>2, <2>3
<1>3. ASSUME NEW r \in Requests, LoadPeer(r) PROVE RouteInv'
  <2>1. PICK p \in Rows : Start(r, "flip", "toggle", p, 0, peers[p].on)
    BY <1>3 DEF LoadPeer
  <2>2. p \in Peers /\ peers[p].on \in BOOLEAN
    BY DEF Rows, RouteInv, TypeOK, Peer
  <2>3. req' \in Requesting /\ overlapped' \in BOOLEAN
    BY <2>1, <2>2, StartHeld DEF PCs, Ops
  <2> QED
    BY <1>3, <1>t, <2>3, RowsUnchanged, FilesAreFine, StepKeeps DEF LoadPeer
<1>4. ASSUME NEW r \in Requests, FlipPeer(r) PROVE RouteInv'
  <2>1. req[r] \in Held /\ req[r].on \in BOOLEAN
    BY <1>4, AtHeld, RequestFields DEF FlipPeer
  <2>2. RowsKept
    BY <1>4, <2>1, RowFlipped, RowsUnchanged DEF FlipPeer
  <2>3. req' \in Requesting
    BY <1>4, <2>1, RowWritten DEF FlipPeer, RouteInv, Requesting
  <2> QED
    BY <1>4, <1>t, <2>2, <2>3, FilesAreFine, StepKeeps DEF FlipPeer
<1>5. ASSUME NEW r \in Requests, DeletePeer(r) PROVE RouteInv'
  <2>1. RowsKept
    BY <1>5, RowRemoved DEF DeletePeer
  <2>2. req' \in Requesting /\ overlapped' \in BOOLEAN
    BY <1>5, StartHeld DEF DeletePeer, PCs, Ops
  <2> QED
    BY <1>5, <1>t, <2>1, <2>2, FilesAreFine, StepKeeps DEF DeletePeer
<1>6. ASSUME NEW r \in Requests, ReadSettings(r) PROVE RouteInv'
  <2>1. req[r] # NoReq /\ req[r] \in Held
    BY <1>6, AtHeld DEF ReadSettings
  <2> DEFINE c == [port |-> port, routes |-> {}]
  <2>2. c \in Config /\ OneRouteEach(c)
    BY <1>t DEF Config, OneRouteEach
  <2>3. [req[r] EXCEPT !.pc = "list", !.snap = c] \in Held
    BY <2>1, <2>2, SnapTaken
  <2>4. req' \in Requesting
    BY <1>6, <2>1, <2>3, FailHeld DEF ReadSettings, RouteInv, Requesting
  <2> QED
    BY <1>6, <1>t, <2>4, RowsUnchanged, FilesAreFine, StepKeeps DEF ReadSettings
<1>7. ASSUME NEW r \in Requests, ListPeers(r) PROVE RouteInv'
  <2>1. req[r] # NoReq /\ req[r] \in Held /\ req[r].snap \in Config
    BY <1>7, AtHeld, RequestFields DEF ListPeers
  <2> DEFINE c == [req[r].snap EXCEPT !.routes = Render]
  <2>2. c \in Config /\ OneRouteEach(c)
    BY <2>1, RenderIsFine DEF Config, OneRouteEach
  <2>3. [req[r] EXCEPT !.pc = "write", !.snap = c] \in Held
    BY <2>1, <2>2, SnapTaken
  <2>4. [req[r] EXCEPT !.pc = "write", !.snap.routes = Render]
          = [req[r] EXCEPT !.pc = "write", !.snap = c]
    BY <2>1, RequestFields DEF InFlight
  <2>5. req' \in Requesting
    BY <1>7, <2>1, <2>3, <2>4, FailHeld DEF ListPeers, RouteInv, Requesting
  <2> QED
    BY <1>7, <1>t, <2>5, RowsUnchanged, FilesAreFine, StepKeeps DEF ListPeers
<1>8. ASSUME NEW r \in Requests, WriteConf(r) PROVE RouteInv'
  <2>1. req[r] # NoReq /\ req[r] \in Held /\ Fine(req[r].snap)
    BY <1>8, AtHeld, RequestFields DEF WriteConf, Fine
  <2>2. Fine(conf')
    BY <1>8, <2>1, FilesAreFine DEF WriteConf
  <2>3. req' \in Requesting
    BY <1>8, <2>1, SnapDropped, FailHeld DEF WriteConf, RouteInv, Requesting
  <2> QED
    BY <1>8, <1>t, <2>2, <2>3, RowsUnchanged, FilesAreFine, StepKeeps DEF WriteConf
<1>9. ASSUME NEW r \in Requests, Reload(r) PROVE RouteInv'
  <2>1. req[r] # NoReq
    BY <1>9, AtHeld DEF Reload
  <2>2. Fine(live')
    BY <1>9, FilesAreFine DEF Reload
  <2>3. req' \in Requesting
    BY <1>9, <2>1, DoneHeld, FailHeld DEF Reload
  <2> QED
    BY <1>9, <1>t, <2>2, <2>3, RowsUnchanged, FilesAreFine, StepKeeps DEF Reload
<1>10. ASSUME NEW r \in Requests, Undo(r) PROVE RouteInv'
  BY <1>10, <1>t, RowRemoved, DoneHeld, FilesAreFine, StepKeeps DEF Undo
<1>11. ASSUME NEW r \in Requests, LoadPeerForLink(r) PROVE RouteInv'
  <2>1. PICK p \in Rows : Start(r, "unlink", "link", p, 0, FALSE)
    BY <1>11 DEF LoadPeerForLink
  <2>2. p \in Peers
    BY DEF Rows
  <2>3. req' \in Requesting /\ overlapped' \in BOOLEAN
    BY <2>1, <2>2, StartHeld DEF PCs, Ops
  <2> QED
    BY <1>11, <1>t, <2>3, RowsUnchanged, FilesAreFine, StepKeeps DEF LoadPeerForLink
<1>12. ASSUME NEW r \in Requests, DropLink(r) PROVE RouteInv'
  <2>1. req[r] \in Held /\ req[r].peer \in Peers
    BY <1>12, AtHeld, RequestFields DEF DropLink
  <2>2. [req[r] EXCEPT !.pc = "link"] \in Held
    BY <2>1, RequestFields DEF Held, InFlight
  <2>3. req' \in Requesting
    BY <1>12, <2>2 DEF DropLink, Go, RouteInv, Requesting
  <2> QED
    BY <1>12, <1>t, <2>3, RowsUnchanged, FilesAreFine, StepKeeps DEF DropLink
<1>13. ASSUME NEW r \in Requests, InsertLink(r) PROVE RouteInv'
  <2>1. req[r].peer \in Peers
    BY <1>13, AtHeld, RequestFields DEF InsertLink
  <2>2. links' \subseteq Peers \X Tokens
    BY <1>13, <1>t, <2>1 DEF InsertLink
  <2> QED
    BY <1>13, <1>t, <2>2, DoneHeld, RowsUnchanged, FilesAreFine, StepKeeps DEF InsertLink
<1>14. ASSUME NEW r \in Requests, Lost(r) PROVE RouteInv'
  BY <1>14, <1>t, DoneHeld, RowsUnchanged, FilesAreFine, StepKeeps DEF Lost
<1>15. CASE \E p \in Peers : RevokeLink(p)
  BY <1>15, <1>t, RowsUnchanged, FilesAreFine, StepKeeps DEF RevokeLink, RouteInv
<1>16. CASE UpdateSettings
  <2>1. port' \in Ports /\ overlapped' \in BOOLEAN
    BY <1>16, <1>t DEF UpdateSettings
  <2> QED
    BY <1>16, <1>t, <2>1, RowsUnchanged, FilesAreFine, StepKeeps DEF UpdateSettings, RouteInv
<1>17. CASE UNCHANGED vars
  BY <1>17, <1>t, RowsUnchanged, FilesAreFine, StepKeeps DEF vars, RouteInv
<1> QED
  BY <1>1, <1>2, <1>3, <1>4, <1>5, <1>6, <1>7, <1>8, <1>9, <1>10, <1>11, <1>12, <1>13, <1>14,
     <1>15, <1>16, <1>17
  DEF Next, Handle

\* Type correctness.
THEOREM TypeCorrect == Spec => []TypeOK
BY RouteInit, RouteNext, PTL DEF Spec, RouteInv

\* No two devices share an address, in the table, in wg0.conf or on the interface.
THEOREM AddressesAreUnique == Spec => []UniqueAddresses
BY RouteInit, RouteNext, PTL DEF Spec, RouteInv

-----------------------------------------------------------------------------
(* Install links.                                                          *)

\* A peer has one install link at most, though making one is two statements.
THEOREM LinksAreUnique == Spec => []OneLinkPerPeer
<1>1. Init => OneLinkPerPeer
  BY DEF Init, OneLinkPerPeer
<1>2. OneLinkPerPeer /\ [Next]_vars => OneLinkPerPeer'
  <2> SUFFICES ASSUME OneLinkPerPeer, [Next]_vars PROVE OneLinkPerPeer'
    OBVIOUS
  <2>1. CASE links' \subseteq links
    BY <2>1 DEF OneLinkPerPeer
  <2>2. ASSUME NEW r \in Requests, NEW t \in Tokens, LinksOf(req[r].peer) = {},
               links' = links \cup {<<req[r].peer, t>>}
        PROVE  OneLinkPerPeer'
    BY <2>2 DEF OneLinkPerPeer, LinksOf
  <2>3. ASSUME NEW r \in Requests, InsertLink(r) PROVE OneLinkPerPeer'
    BY <2>1, <2>2, <2>3 DEF InsertLink
  <2> QED
    BY <2>1, <2>3
    DEF Next, Handle, PickAddress, InsertPeer, LoadPeer, FlipPeer, DeletePeer, ReadSettings,
        ListPeers, WriteConf, Reload, Undo, LoadPeerForLink, DropLink, Lost, RevokeLink,
        UpdateSettings, vars
<1> QED
  BY <1>1, <1>2, PTL DEF Spec

-----------------------------------------------------------------------------
(* What is applied, as long as handlers run one after another.             *)

\* The configuration of the database.
View == [port |-> port, routes |-> Render]

\* What a request has read, and then what it has written, is still the database.
InView(r) ==
  /\ At(r, "list") => req[r].snap \in Config /\ req[r].snap.port = port
  /\ At(r, "write") => req[r].snap = View
  /\ At(r, "reload") => conf = View

OthersIdle(r) == \A q \in Requests \ {r} : req[q] = NoReq

ViewInv ==
  /\ RouteInv
  /\ ~overlapped => \A r \in Requests : InView(r) /\ (req[r] # NoReq => OthersIdle(r))

\* A step of r touches the request of r only, and until requests overlap there is
\* no other.
LEMMA StepAlone ==
  ASSUME ViewInv, NEW r \in Requests, Handle(r), ~overlapped'
  PROVE  /\ ~overlapped
         /\ OthersIdle(r)
         /\ \A q \in Requests \ {r} : req'[q] = NoReq
<1>1. ~overlapped /\ OthersIdle(r)
  <2>1. \/ UNCHANGED overlapped /\ req[r] # NoReq
        \/ overlapped' = (overlapped \/ \E q \in Requests \ {r} : req[q] # NoReq)
    BY DEF Handle, PickAddress, InsertPeer, LoadPeer, FlipPeer, DeletePeer, ReadSettings, ListPeers,
           WriteConf, Reload, Undo, LoadPeerForLink, DropLink, InsertLink, Lost, Start, At
  <2>2. ~overlapped
    BY <2>1
  <2>3. CASE req[r] # NoReq
    BY <2>2, <2>3 DEF ViewInv
  <2>4. CASE overlapped' = (overlapped \/ \E q \in Requests \ {r} : req[q] # NoReq)
    BY <2>4 DEF OthersIdle
  <2> QED BY <2>1, <2>2, <2>3, <2>4
<1>2. \E x : req' = [req EXCEPT ![r] = x]
  <2>1. ASSUME NEW pc, NEW op, NEW p, NEW ip, NEW on, Start(r, pc, op, p, ip, on)
        PROVE  \E x : req' = [req EXCEPT ![r] = x]
    BY <2>1 DEF Start
  <2>2. CASE PickAddress(r) \/ LoadPeer(r) \/ DeletePeer(r) \/ LoadPeerForLink(r)
    BY <2>1, <2>2 DEF PickAddress, LoadPeer, DeletePeer, LoadPeerForLink
  <2>3. CASE InsertPeer(r)
    BY <2>3 DEF InsertPeer, Done
  <2>4. CASE FlipPeer(r) \/ ReadSettings(r) \/ ListPeers(r) \/ WriteConf(r) \/ Reload(r)
    BY <2>4 DEF FlipPeer, ReadSettings, ListPeers, WriteConf, Reload, Fail, Done
  <2>5. CASE Undo(r) \/ DropLink(r) \/ InsertLink(r) \/ Lost(r)
    BY <2>5 DEF Undo, DropLink, InsertLink, Lost, Done, Go
  <2> QED BY <2>2, <2>3, <2>4, <2>5 DEF Handle
<1> QED
  BY <1>1, <1>2 DEF ViewInv, RouteInv, TypeOK, OthersIdle

\* What r has read and written stays the view while r works alone.
LEMMA StepInView ==
  ASSUME ViewInv, NEW r \in Requests, Handle(r), ~overlapped'
  PROVE  InView(r)'
<1>1. /\ InView(r)
      /\ req \in [Requests -> InFlight \cup {NoReq}]
      /\ Render \subseteq Peers \X Hosts
      /\ port \in Ports
  BY StepAlone, RenderIsFine DEF ViewInv, RouteInv, TypeOK
<1>2. ASSUME NEW pc \in {"insert", "flip", "settings", "unlink", "undo", "link"},
             req'[r] # NoReq => req'[r].pc = pc
      PROVE  InView(r)'
  BY <1>2 DEF InView, At
<1>3. CASE PickAddress(r)
  BY <1>1, <1>2, <1>3 DEF PickAddress, Start
<1>4. CASE LoadPeer(r)
  BY <1>1, <1>2, <1>4 DEF LoadPeer, Start
<1>5. CASE DeletePeer(r)
  BY <1>1, <1>2, <1>5 DEF DeletePeer, Start
<1>6. CASE LoadPeerForLink(r)
  BY <1>1, <1>2, <1>6 DEF LoadPeerForLink, Start
<1>7. CASE InsertPeer(r)
  <2>1. req[r] \in InFlight
    BY <1>1, <1>7 DEF InsertPeer, At
  <2>2. ASSUME NEW p \in Peers,
               req' = [req EXCEPT ![r] = [@ EXCEPT !.pc = "settings", !.peer = p, !.ip = 0]]
        PROVE  req'[r].pc = "settings"
    BY <1>1, <2>1, <2>2 DEF InFlight
  <2>3. req'[r] # NoReq => req'[r].pc = "settings"
    BY <1>1, <1>7, <2>2 DEF InsertPeer, Done
  <2>4. InView(r)'
    BY <2>3 DEF InView, At
  <2> QED BY <2>4
<1>8. CASE FlipPeer(r)
  <2>1. req[r] \in InFlight
    BY <1>1, <1>8 DEF FlipPeer, At
  <2> QED BY <1>1, <1>2, <1>8, <2>1 DEF FlipPeer, InFlight
<1>9. ASSUME Fail(r), req[r] \in InFlight PROVE InView(r)'
  BY <1>1, <1>2, <1>9 DEF Fail, Done, InFlight
<1>10. CASE ReadSettings(r)
  <2>1. req[r] \in InFlight
    BY <1>1, <1>10 DEF ReadSettings, At
  <2>2. CASE req' = [req EXCEPT ![r] = [@ EXCEPT !.pc = "list",
                                                !.snap = [port |-> port, routes |-> {}]]]
    <3>1. /\ req'[r].pc = "list" /\ req'[r].snap = [port |-> port, routes |-> {}]
          /\ port' = port
      BY <1>1, <1>10, <2>1, <2>2 DEF ReadSettings, InFlight
    <3>2. [port |-> port, routes |-> {}] \in Config
      BY <1>1 DEF Config
    <3> QED BY <3>1, <3>2 DEF InView, At
  <2> QED BY <1>9, <1>10, <2>1, <2>2 DEF ReadSettings
<1>11. CASE ListPeers(r)
  <2>1. req[r] \in InFlight /\ At(r, "list")
    BY <1>1, <1>11 DEF ListPeers, At
  <2>2. CASE req' = [req EXCEPT ![r] = [@ EXCEPT !.pc = "write", !.snap.routes = Render]]
    <3>1. req[r].snap \in Config /\ req[r].snap.port = port
      BY <1>1, <2>1 DEF InView
    <3>2. [req[r].snap EXCEPT !.routes = Render] = View
      BY <3>1 DEF Config, View
    <3>3. req'[r].pc = "write" /\ req'[r].snap = View
      BY <1>1, <2>1, <2>2, <3>2 DEF InFlight
    <3>4. View' = View
      BY <1>11 DEF ListPeers, View, Render, Rows
    <3> QED BY <3>3, <3>4 DEF InView, At
  <2> QED BY <1>9, <1>11, <2>1, <2>2 DEF ListPeers
<1>12. CASE WriteConf(r)
  <2>1. req[r] \in InFlight /\ At(r, "write")
    BY <1>1, <1>12 DEF WriteConf, At
  <2>2. CASE /\ conf' = req[r].snap
             /\ req' = [req EXCEPT ![r] = [@ EXCEPT !.pc = "reload", !.snap = NoConf]]
    <3>1. conf' = View
      BY <1>1, <2>1, <2>2 DEF InView
    <3>2. req'[r].pc = "reload"
      BY <1>1, <2>1, <2>2 DEF InFlight
    <3>3. View' = View
      BY <1>12 DEF WriteConf, View, Render, Rows
    <3> QED BY <3>1, <3>2, <3>3 DEF InView, At
  <2> QED BY <1>9, <1>12, <2>1, <2>2 DEF WriteConf
<1>13. CASE Reload(r)
  <2>1. req[r] \in InFlight
    BY <1>1, <1>13 DEF Reload, At
  <2> QED BY <1>1, <1>2, <1>9, <1>13, <2>1 DEF Reload, Done
<1>14. CASE Undo(r) \/ InsertLink(r) \/ Lost(r)
  BY <1>1, <1>2, <1>14 DEF Undo, InsertLink, Lost, Done
<1>15. CASE DropLink(r)
  <2>1. req[r] \in InFlight
    BY <1>1, <1>15 DEF DropLink, At
  <2> QED BY <1>1, <1>2, <1>15, <2>1 DEF DropLink, Go, InFlight
<1> QED
  BY <1>3, <1>4, <1>5, <1>6, <1>7, <1>8, <1>10, <1>11, <1>12, <1>13, <1>14, <1>15 DEF Handle

LEMMA ViewInit == Init => ViewInv
BY RouteInit DEF Init, ViewInv, InView, At

LEMMA ViewNext == ViewInv /\ [Next]_vars => ViewInv'
<1> SUFFICES ASSUME ViewInv, [Next]_vars, ~overlapped', NEW r \in Requests
             PROVE  InView(r)' /\ (req'[r] # NoReq => OthersIdle(r)')
  BY RouteNext DEF ViewInv
<1>1. ASSUME NEW q \in Requests, Handle(q) PROVE InView(r)' /\ (req'[r] # NoReq => OthersIdle(r)')
  <2>1. InView(q)' /\ \A p \in Requests \ {q} : req'[p] = NoReq
    BY <1>1, StepAlone, StepInView
  <2> QED BY <2>1 DEF InView, At, OthersIdle
<1>2. CASE UpdateSettings
  BY <1>2 DEF UpdateSettings, ViewInv, InView, At, OthersIdle
<1>3. CASE (\E p \in Peers : RevokeLink(p)) \/ UNCHANGED vars
  BY <1>3 DEF RevokeLink, vars, ViewInv, InView, At, OthersIdle, View, Render, Rows
<1> QED BY <1>1, <1>2, <1>3 DEF Next

\* Who touches the file and the interface.
LEMMA WhoApplies ==
  ASSUME [Next]_vars
  PROVE  /\ live' # live => \E r \in Requests : Reload(r)
         /\ conf' # conf => \E r \in Requests : WriteConf(r)
BY DEF Next, Handle, PickAddress, InsertPeer, LoadPeer, FlipPeer, DeletePeer, ReadSettings,
       ListPeers, WriteConf, Reload, Undo, LoadPeerForLink, DropLink, InsertLink, Lost, RevokeLink,
       UpdateSettings, vars

\* Handlers one after another: every configuration the interface is brought to is
\* exactly the database, whatever failed, was undone or crashed before.
THEOREM AppliedIsTheDatabase == Spec => AppliedIsView
<1>1. ViewInv /\ [Next]_vars =>
        [~overlapped => \A r \in Requests : At(r, "reload") /\ live' # live /\ live' # NoConf
           => live' = [port |-> port, routes |-> Render]]_vars
  <2> SUFFICES ASSUME ViewInv, [Next]_vars, ~overlapped, live' # live, live' # NoConf
               PROVE  live' = View
    BY DEF View
  <2>1. PICK r \in Requests : Reload(r)
    BY WhoApplies
  <2>2. conf = View
    BY <2>1 DEF Reload, ViewInv, InView
  <2> QED BY <2>1, <2>2 DEF Reload
<1> QED
  BY <1>1, ViewInit, ViewNext, PTL DEF Spec, AppliedIsView

\* Handlers one after another: no disabled peer is written to wg0.conf.
THEOREM OnlyEnabledAreWritten == Spec => OnlyEnabledWritten
<1>1. ViewInv /\ [Next]_vars =>
        [~overlapped /\ conf' # conf =>
           \A x \in conf'.routes : x[1] \in Rows /\ peers[x[1]].on]_vars
  <2> SUFFICES ASSUME ViewInv, [Next]_vars, ~overlapped, conf' # conf
               PROVE  \A x \in conf'.routes : x[1] \in Rows /\ peers[x[1]].on
    OBVIOUS
  <2>1. PICK r \in Requests : WriteConf(r)
    BY WhoApplies
  <2>2. conf' = View
    BY <2>1 DEF WriteConf, ViewInv, InView
  <2> QED BY <2>2 DEF View, Render
<1> QED
  BY <1>1, ViewInit, ViewNext, PTL DEF Spec, OnlyEnabledWritten

(***************************************************************************)
(* Port forwarding, for any number of forwards and of requests in flight,  *)
(* whatever fails and whichever firewall is in charge when: a row has its  *)
(* rule in one of them, and a rule without a row was passed by.            *)
(*                                                                         *)
(* RowsHaveRules speaks of rows and rules at rest. KnownInv says what a    *)
(* request goes by while it is at work; RulesInv counts, for every rule,   *)
(* those who need it.                                                      *)
(***************************************************************************)

-----------------------------------------------------------------------------
(* Slots.                                                                  *)

AskPcs == {"lookup", "detect", "sysctl", "policy", "read", "write", "reload", "command", "row"}

LEMMA AskFields ==
  ASSUME ForwardsTypeOK, NEW a \in Askers, ask[a] # NoAsk
  PROVE  /\ ask[a] \in Asked /\ ask[a].pc \in AskPcs
         /\ ask[a].id \in ForwardIds \cup {NoTarget} /\ ask[a].target \in Targets \cup {NoTarget}
         /\ ask[a].adding \in BOOLEAN /\ ask[a].via \in Backends /\ ask[a].list \subseteq Targets
BY DEF ForwardsTypeOK, Asked, AskPcs

\* A request goes on: what its step makes of its slot, and leaves of the others'.
Turned(a, pc, target, via, list) ==
  /\ ask' \in [Askers -> Asked \cup {NoAsk}]
  /\ ask[a] # NoAsk /\ ask'[a] # NoAsk
  /\ ask'[a].pc = pc /\ ask'[a].target = target /\ ask'[a].via = via /\ ask'[a].list = list
  /\ ask'[a].id = ask[a].id /\ ask'[a].adding = ask[a].adding
  /\ \A b \in Askers \ {a} : ask'[b] = ask[b]

LEMMA RecordTurned ==
  ASSUME ForwardsTypeOK, NEW a \in Askers, ask[a] # NoAsk, NEW n \in Asked,
         ask' = [ask EXCEPT ![a] = n], n.id = ask[a].id, n.adding = ask[a].adding
  PROVE  Turned(a, n.pc, n.target, n.via, n.list)
BY NoAskIsNone DEF ForwardsTypeOK, Turned

LEMMA AdvanceTurned ==
  ASSUME ForwardsTypeOK, NEW a \in Askers, ask[a] # NoAsk, NEW pc \in AskPcs, Advance(a, pc)
  PROVE  Turned(a, pc, ask[a].target, ask[a].via, ask[a].list)
<1> DEFINE n == [ask[a] EXCEPT !.pc = pc]
<1>1. /\ n \in Asked /\ n.id = ask[a].id /\ n.adding = ask[a].adding /\ n.pc = pc
      /\ n.target = ask[a].target /\ n.via = ask[a].via /\ n.list = ask[a].list
  BY AskFields DEF Asked, AskPcs
<1>2. ask' = [ask EXCEPT ![a] = n]
  BY DEF Advance, ForwardsTypeOK
<1> HIDE DEF n
<1>3. Turned(a, n.pc, n.target, n.via, n.list)
  BY <1>1, <1>2, RecordTurned
<1> QED BY <1>1, <1>3

LEMMA SettleTurned ==
  ASSUME ForwardsTypeOK, NEW a \in Askers, ask[a] # NoAsk, NEW pc \in AskPcs, Settle(a, pc)
  PROVE  Turned(a, pc, ask[a].target, "none", {})
<1> DEFINE n == [ask[a] EXCEPT !.pc = pc, !.via = "none", !.list = {}]
<1>1. /\ n \in Asked /\ n.id = ask[a].id /\ n.adding = ask[a].adding /\ n.pc = pc
      /\ n.target = ask[a].target /\ n.via = "none" /\ n.list = {}
  BY AskFields DEF Asked, AskPcs, Backends
<1>2. ask' = [ask EXCEPT ![a] = n]
  BY DEF Settle, ForwardsTypeOK
<1> HIDE DEF n
<1>3. Turned(a, n.pc, n.target, n.via, n.list)
  BY <1>1, <1>2, RecordTurned
<1> QED BY <1>1, <1>3

LEMMA RemoveTurned ==
  ASSUME ForwardsTypeOK, NEW a \in Askers, ask[a] # NoAsk, Remove(a)
  PROVE  Turned(a, "row", NoTarget, "none", {})
<1> DEFINE n == [ask[a] EXCEPT !.pc = "row", !.target = NoTarget, !.via = "none", !.list = {}]
<1>1. /\ n \in Asked /\ n.id = ask[a].id /\ n.adding = ask[a].adding /\ n.pc = "row"
      /\ n.target = NoTarget /\ n.via = "none" /\ n.list = {}
  BY AskFields DEF Asked, Backends
<1>2. ask' = [ask EXCEPT ![a] = n]
  BY DEF Remove, ForwardsTypeOK
<1> HIDE DEF n
<1>3. Turned(a, n.pc, n.target, n.via, n.list)
  BY <1>1, <1>2, RecordTurned
<1> QED BY <1>1, <1>3

LEMMA LookUpTurned ==
  ASSUME ForwardsTypeOK, NEW a \in Askers, ask[a] # NoAsk, NEW t \in Targets,
         ask' = [ask EXCEPT ![a] = [@ EXCEPT !.pc = "detect", !.target = t]]
  PROVE  Turned(a, "detect", t, ask[a].via, ask[a].list)
<1> DEFINE n == [ask[a] EXCEPT !.pc = "detect", !.target = t]
<1>1. /\ n \in Asked /\ n.id = ask[a].id /\ n.adding = ask[a].adding /\ n.pc = "detect"
      /\ n.target = t /\ n.via = ask[a].via /\ n.list = ask[a].list
  BY AskFields DEF Asked
<1>2. ask' = [ask EXCEPT ![a] = n]
  BY DEF ForwardsTypeOK
<1> HIDE DEF n
<1>3. Turned(a, n.pc, n.target, n.via, n.list)
  BY <1>1, <1>2, RecordTurned
<1> QED BY <1>1, <1>3

LEMMA DetectTurned ==
  ASSUME ForwardsTypeOK, NEW a \in Askers, ask[a] # NoAsk, NEW v \in Backends, NEW pc \in AskPcs,
         ask' = [ask EXCEPT ![a] = [@ EXCEPT !.via = v, !.pc = pc]]
  PROVE  Turned(a, pc, ask[a].target, v, ask[a].list)
<1> DEFINE n == [ask[a] EXCEPT !.via = v, !.pc = pc]
<1>1. /\ n \in Asked /\ n.id = ask[a].id /\ n.adding = ask[a].adding /\ n.pc = pc
      /\ n.target = ask[a].target /\ n.via = v /\ n.list = ask[a].list
  BY AskFields DEF Asked, AskPcs
<1>2. ask' = [ask EXCEPT ![a] = n]
  BY DEF ForwardsTypeOK
<1> HIDE DEF n
<1>3. Turned(a, n.pc, n.target, n.via, n.list)
  BY <1>1, <1>2, RecordTurned
<1> QED BY <1>1, <1>3

LEMMA ReadTurned ==
  ASSUME ForwardsTypeOK, NEW a \in Askers, ask[a] # NoAsk, NEW l \in SUBSET Targets,
         ask' = [ask EXCEPT ![a] = [@ EXCEPT !.pc = "write", !.list = l]]
  PROVE  Turned(a, "write", ask[a].target, ask[a].via, l)
<1> DEFINE n == [ask[a] EXCEPT !.pc = "write", !.list = l]
<1>1. /\ n \in Asked /\ n.id = ask[a].id /\ n.adding = ask[a].adding /\ n.pc = "write"
      /\ n.target = ask[a].target /\ n.via = ask[a].via /\ n.list = l
  BY AskFields DEF Asked
<1>2. ask' = [ask EXCEPT ![a] = n]
  BY DEF ForwardsTypeOK
<1> HIDE DEF n
<1>3. Turned(a, n.pc, n.target, n.via, n.list)
  BY <1>1, <1>2, RecordTurned
<1> QED BY <1>1, <1>3

\* The request is answered.
Answered(a) ==
  /\ ask' \in [Askers -> Asked \cup {NoAsk}] /\ ask'[a] = NoAsk
  /\ \A b \in Askers \ {a} : ask'[b] = ask[b]

LEMMA AnswerEmpties == ASSUME ForwardsTypeOK, NEW a \in Askers, Answer(a) PROVE Answered(a)
BY DEF ForwardsTypeOK, Answer, Answered

\* A new request, n, stands in a slot that was empty.
Started(a, n) ==
  /\ ask' \in [Askers -> Asked \cup {NoAsk}]
  /\ ask[a] = NoAsk /\ ask'[a] = n /\ n # NoAsk
  /\ \A b \in Askers \ {a} : ask'[b] = ask[b]

LEMMA ForwardStarted ==
  ASSUME ForwardsTypeOK, NEW a \in Askers, AskForForward(a)
  PROVE  \E t \in Targets :
           Started(a, [pc |-> "detect", id |-> NoTarget, target |-> t,
                       adding |-> TRUE, via |-> "none", list |-> {}])
<1>1. PICK t \in Targets :
        ask' = [ask EXCEPT ![a] = [pc |-> "detect", id |-> NoTarget, target |-> t,
                                   adding |-> TRUE, via |-> "none", list |-> {}]]
  BY DEF AskForForward
<1>2. [pc |-> "detect", id |-> NoTarget, target |-> t, adding |-> TRUE, via |-> "none",
       list |-> {}] \in Asked
  BY DEF Asked, Backends
<1> QED BY <1>1, <1>2, NoAskIsNone DEF AskForForward, ForwardsTypeOK, Started

LEMMA RemovalStarted ==
  ASSUME ForwardsTypeOK, NEW a \in Askers, AskForRemoval(a)
  PROVE  \E i \in Listed :
           Started(a, [pc |-> "lookup", id |-> i, target |-> NoTarget, adding |-> FALSE,
                       via |-> "none", list |-> {}])
<1>1. PICK i \in Listed :
        ask' = [ask EXCEPT ![a] = [pc |-> "lookup", id |-> i, target |-> NoTarget,
                                   adding |-> FALSE, via |-> "none", list |-> {}]]
  BY DEF AskForRemoval
<1>2. [pc |-> "lookup", id |-> i, target |-> NoTarget, adding |-> FALSE, via |-> "none",
       list |-> {}] \in Asked
  BY DEF Asked, Listed, Backends
<1> QED BY <1>1, <1>2, NoAskIsNone DEF AskForRemoval, ForwardsTypeOK, Started

\* Trouble ends a creation and sends a removal to its row.
Troubled(a) ==
  /\ harm' \in {"broken", "disturbed"} /\ (harm' = "disturbed" <=> harm = "disturbed")
  /\ stranded' = stranded
  /\ IF ask[a].adding THEN Answered(a) ELSE Turned(a, "row", NoTarget, "none", {})

LEMMA TroubleTurned ==
  ASSUME ForwardsTypeOK, NEW a \in Askers, ask[a] # NoAsk, Trouble(a)
  PROVE  Troubled(a)
<1>1. /\ harm' \in {"broken", "disturbed"} /\ (harm' = "disturbed" <=> harm = "disturbed")
      /\ stranded' = stranded
  BY DEF Trouble, Break, ForwardsTypeOK
<1> QED BY <1>1, AnswerEmpties, RemoveTurned DEF Trouble, Troubled

-----------------------------------------------------------------------------
(* What each step does.                                                    *)

Removing(a) == ask[a] # NoAsk /\ ~ask[a].adding
Adding(a)   == ask[a] # NoAsk /\ ask[a].adding

LEMMA LookUpDoes ==
  ASSUME ForwardsTypeOK, NEW a \in Askers, LookUp(a)
  PROVE  /\ ask[a] # NoAsk /\ ask[a].pc = "lookup"
         /\ \/ /\ port_forwards[ask[a].id] \in Targets
               /\ Turned(a, "detect", port_forwards[ask[a].id], ask[a].via, ask[a].list)
            \/ Answered(a)
<1>1. ask[a] # NoAsk /\ ask[a].pc = "lookup"
  BY DEF LookUp, Asking
<1>2. CASE ask[a].id \in Listed
  <2>1. port_forwards[ask[a].id] \in Targets
    BY <1>2 DEF Listed, ForwardsTypeOK
  <2>2. ask' = [ask EXCEPT ![a] = [@ EXCEPT !.pc = "detect",
                                            !.target = port_forwards[ask[a].id]]]
    BY <1>2 DEF LookUp
  <2> QED BY <1>1, <2>1, <2>2, LookUpTurned
<1> QED BY <1>1, <1>2, AnswerEmpties DEF LookUp

\* Where Detect sends a request.
After(a) ==
  IF ask[a].adding /\ backend # "firewalld" THEN "sysctl"
  ELSE IF backend = "ufw" THEN "read" ELSE "command"

LEMMA DetectDoes ==
  ASSUME ForwardsTypeOK, NEW a \in Askers, DetectForwarder(a)
  PROVE  /\ ask[a] # NoAsk /\ ask[a].pc = "detect"
         /\ Turned(a, After(a), ask[a].target, backend, ask[a].list)
<1>1. ask[a] # NoAsk /\ ask[a].pc = "detect"
  BY DEF DetectForwarder, Asking
<1>2. After(a) \in AskPcs /\ backend \in Backends
  BY DEF After, AskPcs, ForwardsTypeOK
<1>3. ask' = [ask EXCEPT ![a] = [@ EXCEPT !.via = backend, !.pc = After(a)]]
  BY DEF DetectForwarder, After
<1> QED BY <1>1, <1>2, <1>3, DetectTurned

LEMMA NoneDoes ==
  ASSUME ForwardsTypeOK, NEW a \in Askers, DetectNone(a)
  PROVE  /\ ask[a] # NoAsk /\ ask[a].pc = "detect"
         /\ IF ask[a].adding THEN Answered(a) ELSE Turned(a, "row", NoTarget, "none", {})
BY AnswerEmpties, RemoveTurned DEF DetectNone, Asking

LEMMA KernelDoes ==
  ASSUME ForwardsTypeOK, NEW a \in Askers, EnableIPForwarding(a)
  PROVE  /\ ask[a] # NoAsk /\ ask[a].pc = "sysctl"
         /\ \/ /\ harm' = harm /\ stranded' = stranded /\ forwarding' = forwarding \cup {"kernel"}
               /\ Turned(a, IF ask[a].via = "ufw" THEN "policy" ELSE "command", ask[a].target,
                         ask[a].via, ask[a].list)
            \/ Troubled(a) /\ forwarding' = forwarding
<1>1. ask[a] # NoAsk /\ ask[a].pc = "sysctl"
  BY DEF EnableIPForwarding, Asking
<1>2. (IF ask[a].via = "ufw" THEN "policy" ELSE "command") \in AskPcs
  BY DEF AskPcs
<1> QED BY <1>1, <1>2, AdvanceTurned, TroubleTurned DEF EnableIPForwarding

LEMMA PolicyDoes ==
  ASSUME ForwardsTypeOK, NEW a \in Askers, SetUFWForwardPolicy(a)
  PROVE  /\ ask[a] # NoAsk /\ ask[a].pc = "policy"
         /\ \/ /\ harm' = harm /\ stranded' = stranded /\ forwarding' = forwarding \cup {"policy"}
               /\ Turned(a, "read", ask[a].target, ask[a].via, ask[a].list)
            \/ Troubled(a) /\ forwarding' = forwarding
<1>1. ask[a] # NoAsk /\ ask[a].pc = "policy"
  BY DEF SetUFWForwardPolicy, Asking
<1>2. "read" \in AskPcs
  BY DEF AskPcs
<1> QED BY <1>1, <1>2, AdvanceTurned, TroubleTurned DEF SetUFWForwardPolicy

LEMMA ReadDoes ==
  ASSUME ForwardsTypeOK, NEW a \in Askers, ReadUFWForwards(a)
  PROVE  /\ ask[a] # NoAsk /\ ask[a].pc = "read"
         /\ \/ /\ harm' = harm /\ stranded' = stranded
               /\ Turned(a, "write", ask[a].target, ask[a].via, block \cap V4)
            \/ Troubled(a)
<1>1. ask[a] # NoAsk /\ ask[a].pc = "read"
  BY DEF ReadUFWForwards, Asking
<1>2. block \cap V4 \in SUBSET Targets
  BY DEF ForwardsTypeOK
<1> QED BY <1>1, <1>2, ReadTurned, TroubleTurned DEF ReadUFWForwards

\* What a request writes.
Written(a) ==
  IF ask[a].adding THEN ask[a].list \cup {ask[a].target} ELSE ask[a].list \ {ask[a].target}

LEMMA WriteDoes ==
  ASSUME ForwardsTypeOK, NEW a \in Askers, WriteUFWForwards(a)
  PROVE  /\ ask[a] # NoAsk /\ ask[a].pc = "write"
         /\ \/ /\ block' = Written(a) /\ Strand(a, "ufw")
               /\ Disturb(Overwritten(a) \/ (~ask[a].adding /\ Twin(a)))
               /\ Turned(a, "reload", ask[a].target, "none", {})
            \/ Troubled(a) /\ block' = block
<1>1. ask[a] # NoAsk /\ ask[a].pc = "write" /\ "reload" \in AskPcs
  BY DEF WriteUFWForwards, Asking, AskPcs
<1> QED BY <1>1, SettleTurned, TroubleTurned DEF WriteUFWForwards, Written

LEMMA ReloadDoes ==
  ASSUME ForwardsTypeOK, NEW a \in Askers, ReloadUFW(a)
  PROVE  /\ ask[a] # NoAsk /\ ask[a].pc = "reload"
         /\ \/ /\ harm' = harm /\ stranded' = stranded
               /\ Turned(a, "row", IF ask[a].adding THEN ask[a].target ELSE NoTarget, "none", {})
            \/ Troubled(a)
<1>1. ask[a] # NoAsk /\ ask[a].pc = "reload" /\ "row" \in AskPcs
  BY DEF ReloadUFW, Asking, AskPcs
<1>2. CASE Trouble(a)
  BY <1>1, <1>2, TroubleTurned
<1>3. CASE UNCHANGED <<stranded, harm>> /\ ask[a].adding /\ Settle(a, "row")
  BY <1>1, <1>3, SettleTurned
<1>4. CASE UNCHANGED <<stranded, harm>> /\ ~ask[a].adding /\ Remove(a)
  BY <1>1, <1>4, RemoveTurned
<1> QED BY <1>1, <1>2, <1>3, <1>4 DEF ReloadUFW

LEMMA AddPortDoes ==
  ASSUME ForwardsTypeOK, NEW a \in Askers, AddForwardPort(a)
  PROVE  /\ ask[a] # NoAsk /\ ask[a].pc = "command" /\ ask[a].adding
         /\ forwarding \subseteq forwarding' /\ forwarding' \subseteq forwarding \cup {"kernel"}
         /\ \/ /\ harm' = harm /\ stranded' = stranded /\ "kernel" \in forwarding'
               /\ zone' = zone \cup {ask[a].target}
               /\ Turned(a, "row", ask[a].target, "none", {})
            \/ Troubled(a) /\ zone' \in {zone, zone \cup {ask[a].target}}
<1>1. ask[a] # NoAsk /\ ask[a].pc = "command" /\ ask[a].adding /\ "row" \in AskPcs
  BY DEF AddForwardPort, Commanding, Asking, AskPcs
<1> QED BY <1>1, SettleTurned, TroubleTurned DEF AddForwardPort

LEMMA RemovePortDoes ==
  ASSUME ForwardsTypeOK, NEW a \in Askers, RemoveForwardPort(a)
  PROVE  /\ ask[a] # NoAsk /\ ask[a].pc = "command" /\ ~ask[a].adding
         /\ \/ /\ zone' = zone \ {ask[a].target} /\ Strand(a, "firewalld")
               /\ Disturb(Twin(a))
               /\ Turned(a, "row", NoTarget, "none", {})
            \/ Troubled(a) /\ zone' = zone
<1>1. ask[a] # NoAsk /\ ask[a].pc = "command" /\ ~ask[a].adding
  BY DEF RemoveForwardPort, Commanding, Asking
<1> QED BY <1>1, RemoveTurned, TroubleTurned DEF RemoveForwardPort

\* The copies there are with one more of t, and with one less.
OneMore(t) == [copies EXCEPT ![t] = @ + 1]
OneLess(t) == [copies EXCEPT ![t] = IF @ = 0 THEN 0 ELSE @ - 1]

LEMMA AppendDoes ==
  ASSUME ForwardsTypeOK, NEW a \in Askers, AppendRule(a)
  PROVE  /\ ask[a] # NoAsk /\ ask[a].pc = "command" /\ ask[a].via = "iptables"
         /\ ask[a].adding /\ copies[ask[a].target] < MaxCopies
         /\ \/ /\ harm' = harm /\ stranded' = stranded /\ copies' = OneMore(ask[a].target)
               /\ Turned(a, "row", ask[a].target, "none", {})
            \/ Troubled(a) /\ copies' \in {copies, OneMore(ask[a].target)}
<1>1. /\ ask[a] # NoAsk /\ ask[a].pc = "command" /\ ask[a].via = "iptables"
      /\ ask[a].adding /\ "row" \in AskPcs
  BY DEF AppendRule, Commanding, Asking, AskPcs
<1> QED BY <1>1, SettleTurned, TroubleTurned DEF AppendRule, OneMore

LEMMA DropDoes ==
  ASSUME ForwardsTypeOK, NEW a \in Askers, DropRule(a)
  PROVE  /\ ask[a] # NoAsk /\ ask[a].pc = "command" /\ ~ask[a].adding
         /\ \/ /\ copies' = OneLess(ask[a].target) /\ Strand(a, "iptables")
               /\ Disturb(TwiceRemoved(a))
               /\ Turned(a, "row", NoTarget, "none", {})
            \/ Troubled(a) /\ copies' = copies
<1>1. ask[a] # NoAsk /\ ask[a].pc = "command" /\ ~ask[a].adding
  BY DEF DropRule, Commanding, Asking
<1> QED BY <1>1, RemoveTurned, TroubleTurned DEF DropRule, OneLess

-----------------------------------------------------------------------------
(* Types, and what a request knows.                                        *)

\* A removal knows what its row says, or said; a forward is entered where forwarding
\* has been allowed, and in ufw's block where ufw lets it pass.
Knows(a) ==
  /\ Removing(a) =>
       /\ ask[a].id \in ForwardIds
       /\ ask[a].pc \in {"lookup", "detect", "read", "write", "command", "reload", "row"}
       /\ ask[a].pc \in {"detect", "read", "write", "command"} =>
            /\ ask[a].target \in Targets
            /\ port_forwards[ask[a].id] \in {ask[a].target, NoTarget}
  /\ Adding(a) =>
       /\ ask[a].target \in Targets /\ ask[a].pc # "lookup"
       /\ ask[a].pc \in {"policy", "read", "write", "reload", "row"} => "kernel" \in forwarding
       /\ ask[a].pc = "command" /\ ask[a].via = "iptables" => "kernel" \in forwarding
       /\ ask[a].pc \in {"read", "write"} => "policy" \in forwarding
  /\ ask[a] # NoAsk /\ ask[a].list # {} => "policy" \in forwarding

Places ==
  /\ block # {} => "policy" \in forwarding
  /\ Listed # {} => "kernel" \in forwarding

KnownInv == ForwardsTypeOK /\ Places /\ \A a \in Askers : Knows(a)

LEMMA ForwardsTypeInit == ForwardsInit => ForwardsTypeOK
BY BoundsAreNat DEF ForwardsInit, ForwardsTypeOK

LEMMA OneMoreType ==
  ASSUME ForwardsTypeOK, NEW t \in Targets, copies[t] < MaxCopies
  PROVE  /\ OneMore(t) \in [Targets -> 0 .. MaxCopies]
         /\ copies[t] \in Nat /\ OneMore(t)[t] = copies[t] + 1
         /\ \A u \in Targets \ {t} : OneMore(t)[u] = copies[u]
<1>1. copies \in [Targets -> 0 .. MaxCopies] /\ copies[t] \in Nat
  BY DEF ForwardsTypeOK
<1>2. copies[t] + 1 \in 0 .. MaxCopies
  BY <1>1, BoundsAreNat
<1> QED BY <1>1, <1>2 DEF OneMore

LEMMA OneLessType ==
  ASSUME ForwardsTypeOK, NEW t \in Targets
  PROVE  /\ OneLess(t) \in [Targets -> 0 .. MaxCopies]
         /\ copies[t] \in Nat /\ OneLess(t)[t] = IF copies[t] = 0 THEN 0 ELSE copies[t] - 1
         /\ \A u \in Targets \ {t} : OneLess(t)[u] = copies[u]
<1>1. copies \in [Targets -> 0 .. MaxCopies] /\ copies[t] \in 0 .. MaxCopies
  BY DEF ForwardsTypeOK
<1>2. (IF copies[t] = 0 THEN 0 ELSE copies[t] - 1) \in 0 .. MaxCopies
  BY <1>1, BoundsAreNat
<1> QED BY <1>1, <1>2 DEF OneLess

LEMMA StrandType ==
  ASSUME ForwardsTypeOK, NEW a, NEW v, Strand(a, v)
  PROVE  stranded \subseteq stranded' /\ stranded' \subseteq Targets
BY DEF ForwardsTypeOK, Strand, Elsewhere

\* A step of one request leaves what another knows.
LEMMA OthersKnow ==
  ASSUME NEW b \in Askers, Knows(b), ask'[b] = ask[b], forwarding \subseteq forwarding',
         Removing(b) => port_forwards'[ask[b].id] \in {port_forwards[ask[b].id], NoTarget}
  PROVE  Knows(b)'
BY DEF Knows, Removing, Adding

\* The types and knowledge of everybody, from what the step of a leaves.
LEMMA StepKnown ==
  ASSUME KnownInv, NEW a \in Askers, Knows(a)', Places',
         ask' \in [Askers -> Asked \cup {NoAsk}],
         \A b \in Askers \ {a} : ask'[b] = ask[b],
         UNCHANGED host, forwarding \subseteq forwarding',
         forwarding' \subseteq {"kernel", "policy"},
         block' \subseteq Targets, zone' \subseteq Targets, stranded' \subseteq Targets,
         copies' \in [Targets -> 0 .. MaxCopies],
         port_forwards' \in [ForwardIds -> Targets \cup {NoTarget}],
         \A b \in Askers \ {a} :
           Removing(b) => port_forwards'[ask[b].id] \in {port_forwards[ask[b].id], NoTarget},
         harm' \in {"none", "broken", "disturbed"}
  PROVE  KnownInv'
<1>1. \A b \in Askers \ {a} : Knows(b)'
  BY OthersKnow DEF KnownInv
<1>2. ForwardsTypeOK'
  BY DEF KnownInv, ForwardsTypeOK, host
<1> QED BY <1>1, <1>2 DEF KnownInv

\* So it is as long as the rows stay, and ufw's block with them.
LEMMA RowlessKnown ==
  ASSUME KnownInv, NEW a \in Askers, Knows(a)',
         ask' \in [Askers -> Asked \cup {NoAsk}],
         \A b \in Askers \ {a} : ask'[b] = ask[b],
         UNCHANGED <<host, port_forwards>>, forwarding \subseteq forwarding',
         forwarding' \subseteq {"kernel", "policy"},
         block' \subseteq Targets, zone' \subseteq Targets, stranded' \subseteq Targets,
         block' # {} => "policy" \in forwarding',
         copies' \in [Targets -> 0 .. MaxCopies],
         harm' \in {"none", "broken", "disturbed"}
  PROVE  KnownInv'
<1>1. Places'
  BY DEF KnownInv, Places, Listed
<1>2. \A b \in Askers \ {a} :
        Removing(b) => port_forwards'[ask[b].id] \in {port_forwards[ask[b].id], NoTarget}
  OBVIOUS
<1>3. port_forwards' \in [ForwardIds -> Targets \cup {NoTarget}]
  BY DEF KnownInv, ForwardsTypeOK
<1> QED BY <1>1, <1>2, <1>3, StepKnown

\* And when nothing else changes.
LEMMA SlotKnown ==
  ASSUME KnownInv, NEW a \in Askers, Knows(a)',
         ask' \in [Askers -> Asked \cup {NoAsk}],
         \A b \in Askers \ {a} : ask'[b] = ask[b],
         UNCHANGED <<host, port_forwards, rules>>, stranded' \subseteq Targets,
         forwarding \subseteq forwarding', forwarding' \subseteq {"kernel", "policy"},
         harm' \in {"none", "broken", "disturbed"}
  PROVE  KnownInv'
BY RowlessKnown DEF KnownInv, ForwardsTypeOK, Places, rules

LEMMA KnownInit == ForwardsInit => KnownInv
<1> SUFFICES ASSUME ForwardsInit PROVE KnownInv
  OBVIOUS
<1>1. \A a \in Askers : Knows(a)
  BY DEF ForwardsInit, Knows, Removing, Adding
<1>2. Listed = {}
  BY DEF ForwardsInit, Listed
<1> QED BY <1>1, <1>2, ForwardsTypeInit DEF ForwardsInit, KnownInv, Places

\* A removal at its row, and a request answered, know enough.
LEMMA RowKnows ==
  ASSUME KnownInv, NEW a \in Askers, Removing(a), Turned(a, "row", NoTarget, "none", {})
  PROVE  Knows(a)'
BY DEF KnownInv, Turned, Knows, Removing, Adding

LEMMA AnsweredKnows ==
  ASSUME NEW a \in Askers, Answered(a)
  PROVE  Knows(a)'
BY DEF Answered, Knows, Removing, Adding

LEMMA TroubledKnown ==
  ASSUME KnownInv, NEW a \in Askers, ask[a] # NoAsk, Troubled(a),
         UNCHANGED <<host, port_forwards, block>>,
         zone' \subseteq Targets, copies' \in [Targets -> 0 .. MaxCopies],
         forwarding \subseteq forwarding', forwarding' \subseteq {"kernel", "policy"}
  PROVE  KnownInv'
<1>1. /\ Knows(a)' /\ ask' \in [Askers -> Asked \cup {NoAsk}]
      /\ \A b \in Askers \ {a} : ask'[b] = ask[b]
  BY RowKnows, AnsweredKnows DEF Troubled, Removing, Answered, Turned
<1>2. /\ harm' \in {"none", "broken", "disturbed"} /\ stranded' \subseteq Targets
      /\ block' \subseteq Targets /\ (block' # {} => "policy" \in forwarding')
  BY DEF Troubled, KnownInv, ForwardsTypeOK, Places
<1> QED BY <1>1, <1>2, RowlessKnown

LEMMA StartKnown ==
  ASSUME KnownInv, NEW a \in Askers, AskForForward(a) \/ AskForRemoval(a)
  PROVE  KnownInv'
<1>1. /\ ForwardsTypeOK /\ harm \in {"none", "broken", "disturbed"}
      /\ stranded \subseteq Targets /\ forwarding \subseteq {"kernel", "policy"}
  BY DEF KnownInv, ForwardsTypeOK
<1>2. UNCHANGED <<host, port_forwards, rules, forwarding, stranded, harm>>
  BY DEF AskForForward, AskForRemoval
<1>3. CASE AskForForward(a)
  <2>1. PICK t \in Targets :
          Started(a, [pc |-> "detect", id |-> NoTarget, target |-> t,
                      adding |-> TRUE, via |-> "none", list |-> {}])
    BY <1>1, <1>3, ForwardStarted
  <2>2. Knows(a)'
    BY <2>1 DEF Started, Knows, Removing, Adding
  <2> QED BY <1>1, <1>2, <2>1, <2>2, SlotKnown DEF Started
<1>4. CASE AskForRemoval(a)
  <2>1. PICK i \in Listed :
          Started(a, [pc |-> "lookup", id |-> i, target |-> NoTarget, adding |-> FALSE,
                      via |-> "none", list |-> {}])
    BY <1>1, <1>4, RemovalStarted
  <2>2. Knows(a)'
    BY <2>1 DEF Started, Knows, Removing, Adding, Listed
  <2> QED BY <1>1, <1>2, <2>1, <2>2, SlotKnown DEF Started
<1> QED BY <1>3, <1>4

LEMMA FindKnown ==
  ASSUME KnownInv, NEW a \in Askers, LookUp(a) \/ DetectForwarder(a) \/ DetectNone(a)
  PROVE  KnownInv'
<1>1. /\ ForwardsTypeOK /\ Knows(a) /\ harm \in {"none", "broken", "disturbed"}
      /\ stranded \subseteq Targets /\ forwarding \subseteq {"kernel", "policy"}
  BY DEF KnownInv, ForwardsTypeOK
<1>2. UNCHANGED <<host, port_forwards, rules, forwarding, harm>>
  BY DEF LookUp, DetectForwarder, DetectNone
<1>3. stranded' \subseteq Targets
  BY <1>1, StrandType DEF LookUp, DetectForwarder, DetectNone
<1>4. SUFFICES /\ Knows(a)' /\ ask' \in [Askers -> Asked \cup {NoAsk}]
               /\ \A b \in Askers \ {a} : ask'[b] = ask[b]
  BY <1>1, <1>2, <1>3, SlotKnown
<1>5. CASE LookUp(a)
  <2>1. /\ ask[a] # NoAsk /\ ask[a].pc = "lookup"
        /\ \/ /\ port_forwards[ask[a].id] \in Targets
              /\ Turned(a, "detect", port_forwards[ask[a].id], ask[a].via, ask[a].list)
           \/ Answered(a)
    BY <1>1, <1>5, LookUpDoes
  <2>2. CASE Answered(a)
    BY <2>2, AnsweredKnows DEF Answered
  <2>3. CASE /\ port_forwards[ask[a].id] \in Targets
             /\ Turned(a, "detect", port_forwards[ask[a].id], ask[a].via, ask[a].list)
    <3>1. Knows(a)'
      BY <1>1, <1>2, <2>1, <2>3 DEF Turned, Knows, Removing, Adding
    <3> QED BY <2>3, <3>1 DEF Turned
  <2> QED BY <2>1, <2>2, <2>3
<1>6. CASE DetectForwarder(a)
  <2>1. /\ ask[a] # NoAsk /\ ask[a].pc = "detect"
        /\ Turned(a, After(a), ask[a].target, backend, ask[a].list)
    BY <1>1, <1>6, DetectDoes
  <2>2. CASE ask[a].adding
    <3>1. Knows(a)'
      BY <1>1, <1>2, <2>1, <2>2 DEF Turned, After, Knows, Removing, Adding
    <3> QED BY <2>1, <3>1 DEF Turned
  <2>3. CASE ~ask[a].adding
    <3>1. Knows(a)'
      BY <1>1, <1>2, <2>1, <2>3 DEF Turned, After, Knows, Removing, Adding
    <3> QED BY <2>1, <3>1 DEF Turned
  <2> QED BY <2>2, <2>3
<1>7. CASE DetectNone(a)
  BY <1>1, <1>7, NoneDoes, RowKnows, AnsweredKnows DEF Removing, Answered, Turned
<1> QED BY <1>5, <1>6, <1>7

LEMMA UFWKnown ==
  ASSUME KnownInv, NEW a \in Askers,
         \/ EnableIPForwarding(a) \/ SetUFWForwardPolicy(a)
         \/ ReadUFWForwards(a) \/ ReloadUFW(a)
  PROVE  KnownInv'
<1>1. /\ ForwardsTypeOK /\ Places /\ Knows(a) /\ harm \in {"none", "broken", "disturbed"}
      /\ stranded \subseteq Targets /\ zone \subseteq Targets
      /\ forwarding \subseteq {"kernel", "policy"} /\ copies \in [Targets -> 0 .. MaxCopies]
  BY DEF KnownInv, ForwardsTypeOK
<1>2. UNCHANGED <<host, port_forwards, rules>>
  BY DEF EnableIPForwarding, SetUFWForwardPolicy, ReadUFWForwards, ReloadUFW
<1>3. ask[a] # NoAsk
  BY DEF EnableIPForwarding, SetUFWForwardPolicy, ReadUFWForwards, ReloadUFW, Asking
<1>4. forwarding \subseteq forwarding' /\ forwarding' \subseteq {"kernel", "policy"}
  BY <1>1 DEF EnableIPForwarding, SetUFWForwardPolicy, ReadUFWForwards, ReloadUFW
<1>5. CASE Troubled(a)
  BY <1>1, <1>2, <1>3, <1>4, <1>5, TroubledKnown DEF rules
<1>6. SUFFICES ASSUME ~Troubled(a)
               PROVE  /\ Knows(a)' /\ harm' = harm /\ stranded' = stranded
                      /\ ask' \in [Askers -> Asked \cup {NoAsk}]
                      /\ \A b \in Askers \ {a} : ask'[b] = ask[b]
  BY <1>1, <1>2, <1>4, <1>5, SlotKnown
<1>7. CASE EnableIPForwarding(a)
  <2>1. /\ ask[a].pc = "sysctl" /\ harm' = harm /\ stranded' = stranded
        /\ forwarding' = forwarding \cup {"kernel"}
        /\ Turned(a, IF ask[a].via = "ufw" THEN "policy" ELSE "command", ask[a].target,
                  ask[a].via, ask[a].list)
    BY <1>1, <1>6, <1>7, KernelDoes
  <2>2. ask[a].adding
    BY <1>1, <1>3, <2>1 DEF Knows, Removing
  <2>3. Knows(a)'
    BY <1>1, <1>2, <2>1, <2>2 DEF Turned, Knows, Removing, Adding
  <2> QED BY <2>1, <2>3 DEF Turned
<1>8. CASE SetUFWForwardPolicy(a)
  <2>1. /\ ask[a].pc = "policy" /\ harm' = harm /\ stranded' = stranded
        /\ forwarding' = forwarding \cup {"policy"}
        /\ Turned(a, "read", ask[a].target, ask[a].via, ask[a].list)
    BY <1>1, <1>6, <1>8, PolicyDoes
  <2>2. ask[a].adding
    BY <1>1, <1>3, <2>1 DEF Knows, Removing
  <2>3. Knows(a)'
    BY <1>1, <1>2, <2>1, <2>2 DEF Turned, Knows, Removing, Adding
  <2> QED BY <2>1, <2>3 DEF Turned
<1>9. CASE ReadUFWForwards(a)
  <2>1. /\ ask[a].pc = "read" /\ harm' = harm /\ stranded' = stranded
        /\ forwarding' = forwarding
        /\ Turned(a, "write", ask[a].target, ask[a].via, block \cap V4)
    BY <1>1, <1>6, <1>9, ReadDoes DEF ReadUFWForwards
  <2>2. Knows(a)'
    BY <1>1, <1>2, <2>1 DEF Turned, Knows, Removing, Adding, Places
  <2> QED BY <2>1, <2>2 DEF Turned
<1>10. CASE ReloadUFW(a)
  <2>1. /\ ask[a].pc = "reload" /\ harm' = harm /\ stranded' = stranded
        /\ forwarding' = forwarding
        /\ Turned(a, "row", IF ask[a].adding THEN ask[a].target ELSE NoTarget, "none", {})
    BY <1>1, <1>6, <1>10, ReloadDoes DEF ReloadUFW
  <2>2. Knows(a)'
    BY <1>1, <1>2, <2>1 DEF Turned, Knows, Removing, Adding
  <2> QED BY <2>1, <2>2 DEF Turned
<1> QED BY <1>7, <1>8, <1>9, <1>10

LEMMA WriteKnown ==
  ASSUME KnownInv, NEW a \in Askers, WriteUFWForwards(a)
  PROVE  KnownInv'
<1>1. /\ ForwardsTypeOK /\ Knows(a) /\ harm \in {"none", "broken", "disturbed"}
      /\ zone \subseteq Targets /\ forwarding \subseteq {"kernel", "policy"}
      /\ copies \in [Targets -> 0 .. MaxCopies]
  BY DEF KnownInv, ForwardsTypeOK
<1>2. UNCHANGED <<host, port_forwards, zone, copies, forwarding>>
  BY DEF WriteUFWForwards
<1>3. /\ ask[a] # NoAsk /\ ask[a].pc = "write"
      /\ \/ /\ block' = Written(a) /\ Strand(a, "ufw")
            /\ Disturb(Overwritten(a) \/ (~ask[a].adding /\ Twin(a)))
            /\ Turned(a, "reload", ask[a].target, "none", {})
         \/ Troubled(a) /\ block' = block
  BY <1>1, WriteDoes
<1>4. CASE Troubled(a) /\ block' = block
  BY <1>1, <1>2, <1>3, <1>4, TroubledKnown
<1>5. CASE /\ block' = Written(a) /\ Strand(a, "ufw")
           /\ Disturb(Overwritten(a) \/ (~ask[a].adding /\ Twin(a)))
           /\ Turned(a, "reload", ask[a].target, "none", {})
  <2>1. Knows(a)'
    BY <1>1, <1>2, <1>3, <1>5 DEF Turned, Knows, Removing, Adding
  <2>2. /\ harm' \in {"none", "broken", "disturbed"} /\ stranded' \subseteq Targets
    BY <1>1, <1>5, StrandType DEF Disturb
  <2>3. block' \subseteq Targets /\ (block' # {} => "policy" \in forwarding)
    BY <1>1, <1>3, <1>5, AskFields DEF Written, Knows, Removing, Adding
  <2> QED BY <1>1, <1>2, <1>5, <2>1, <2>2, <2>3, RowlessKnown DEF Turned
<1> QED BY <1>3, <1>4, <1>5

LEMMA CommandKnown ==
  ASSUME KnownInv, NEW a \in Askers,
         AddForwardPort(a) \/ RemoveForwardPort(a) \/ AppendRule(a) \/ DropRule(a)
  PROVE  KnownInv'
<1>1. /\ ForwardsTypeOK /\ Places /\ Knows(a) /\ harm \in {"none", "broken", "disturbed"}
      /\ zone \subseteq Targets /\ forwarding \subseteq {"kernel", "policy"}
      /\ block \subseteq Targets /\ stranded \subseteq Targets
      /\ copies \in [Targets -> 0 .. MaxCopies]
  BY DEF KnownInv, ForwardsTypeOK
<1>2. UNCHANGED <<host, port_forwards, block>>
  BY DEF AddForwardPort, RemoveForwardPort, AppendRule, DropRule
<1>3. ask[a] # NoAsk /\ ask[a].pc = "command" /\ ask[a].target \in Targets
  BY <1>1 DEF AddForwardPort, RemoveForwardPort, AppendRule, DropRule, Commanding, Asking,
              Knows, Removing, Adding
<1>4. forwarding \subseteq forwarding' /\ forwarding' \subseteq {"kernel", "policy"}
  BY <1>1 DEF AddForwardPort, RemoveForwardPort, AppendRule, DropRule
<1>5. zone' \subseteq Targets
  BY <1>1, <1>3 DEF AddForwardPort, RemoveForwardPort, AppendRule, DropRule
<1>6. copies' \in [Targets -> 0 .. MaxCopies]
  <2>1. CASE copies' = copies
    BY <1>1, <2>1
  <2>2. CASE AppendRule(a)
    BY <1>1, <1>3, <2>2, AppendDoes, OneMoreType
  <2>3. CASE DropRule(a)
    BY <1>1, <1>3, <2>3, DropDoes, OneLessType
  <2> QED BY <2>1, <2>2, <2>3 DEF AddForwardPort, RemoveForwardPort
<1>7. CASE Troubled(a)
  BY <1>2, <1>3, <1>4, <1>5, <1>6, <1>7, TroubledKnown
<1>8. SUFFICES ASSUME ~Troubled(a)
               PROVE  /\ Knows(a)' /\ harm' \in {"none", "broken", "disturbed"}
                      /\ stranded' \subseteq Targets
                      /\ ask' \in [Askers -> Asked \cup {NoAsk}]
                      /\ \A b \in Askers \ {a} : ask'[b] = ask[b]
  BY <1>1, <1>2, <1>4, <1>5, <1>6, <1>7, RowlessKnown DEF Places
<1>9. CASE AddForwardPort(a)
  <2>1. /\ ask[a].adding /\ harm' = harm /\ stranded' = stranded /\ "kernel" \in forwarding'
        /\ Turned(a, "row", ask[a].target, "none", {})
    BY <1>1, <1>8, <1>9, AddPortDoes
  <2>2. Knows(a)'
    BY <1>3, <2>1 DEF Turned, Knows, Removing, Adding
  <2> QED BY <1>1, <2>1, <2>2 DEF Turned
<1>10. CASE AppendRule(a)
  <2>1. /\ ask[a].via = "iptables" /\ ask[a].adding /\ harm' = harm /\ stranded' = stranded
        /\ Turned(a, "row", ask[a].target, "none", {})
    BY <1>1, <1>8, <1>10, AppendDoes
  <2>2. Knows(a)'
    BY <1>1, <1>3, <1>4, <2>1 DEF Turned, Knows, Removing, Adding
  <2> QED BY <1>1, <2>1, <2>2 DEF Turned
<1>11. CASE RemoveForwardPort(a) \/ DropRule(a)
  <2>1. /\ ~ask[a].adding /\ Turned(a, "row", NoTarget, "none", {})
        /\ harm' \in {harm, "disturbed"}
        /\ Strand(a, "firewalld") \/ Strand(a, "iptables")
    BY <1>1, <1>8, <1>11, RemovePortDoes, DropDoes DEF Disturb
  <2>2. Knows(a)' /\ stranded' \subseteq Targets
    BY <1>1, <1>3, <2>1, RowKnows, StrandType DEF Removing
  <2> QED BY <1>1, <2>1, <2>2 DEF Turned
<1> QED BY <1>9, <1>10, <1>11

LEMMA CreateKnown ==
  ASSUME KnownInv, NEW a \in Askers, CreatePortForward(a)
  PROVE  KnownInv'
<1>1. ForwardsTypeOK /\ Places /\ \A b \in Askers : Knows(b)
  BY DEF KnownInv
<1>2. /\ UNCHANGED <<host, rules, forwarding, stranded>> /\ Answer(a)
      /\ ask[a] # NoAsk /\ ask[a].pc = "row" /\ ask[a].adding
      /\ harm' \in {harm, "broken"}
  BY DEF CreatePortForward, Asking, Break
<1>3. Answered(a) /\ Knows(a)'
  BY <1>1, <1>2, AnswerEmpties, AnsweredKnows
<1>4. "kernel" \in forwarding /\ ask[a].target \in Targets
  BY <1>1, <1>2 DEF Knows, Adding
<1>5. /\ port_forwards' \in [ForwardIds -> Targets \cup {NoTarget}]
      /\ \A b \in Askers \ {a} :
           Removing(b) => port_forwards'[ask[b].id] \in {port_forwards[ask[b].id], NoTarget}
  BY <1>1, <1>4 DEF CreatePortForward, Removing, Listed, Knows, ForwardsTypeOK
<1>6. Places'
  BY <1>1, <1>2, <1>4 DEF Places, rules
<1>7. /\ harm' \in {"none", "broken", "disturbed"} /\ forwarding' \subseteq {"kernel", "policy"}
      /\ block' \subseteq Targets /\ zone' \subseteq Targets /\ stranded' \subseteq Targets
      /\ copies' \in [Targets -> 0 .. MaxCopies] /\ forwarding \subseteq forwarding'
  BY <1>1, <1>2 DEF ForwardsTypeOK, rules
<1> QED BY <1>2, <1>3, <1>5, <1>6, <1>7, StepKnown DEF Answered

LEMMA DeleteKnown ==
  ASSUME KnownInv, NEW a \in Askers, DeletePortForward(a)
  PROVE  KnownInv'
<1>1. ForwardsTypeOK /\ Places /\ \A b \in Askers : Knows(b)
  BY DEF KnownInv
<1>2. /\ UNCHANGED <<host, rules, forwarding, stranded>> /\ Answer(a)
      /\ harm' \in {harm, "disturbed"}
      /\ \/ port_forwards' = port_forwards
         \/ port_forwards' = [port_forwards EXCEPT ![ask[a].id] = NoTarget]
  BY DEF DeletePortForward, Disturb
<1>3. Answered(a) /\ Knows(a)'
  BY <1>1, <1>2, AnswerEmpties, AnsweredKnows
<1>4. /\ port_forwards' \in [ForwardIds -> Targets \cup {NoTarget}]
      /\ \A i \in ForwardIds : port_forwards'[i] \in {port_forwards[i], NoTarget}
  BY <1>1, <1>2 DEF ForwardsTypeOK
<1>5. \A b \in Askers \ {a} :
        Removing(b) => port_forwards'[ask[b].id] \in {port_forwards[ask[b].id], NoTarget}
  BY <1>1, <1>4 DEF Knows, Removing
<1>6. Places'
  BY <1>1, <1>2, <1>4 DEF Places, Listed, rules
<1>7. /\ harm' \in {"none", "broken", "disturbed"} /\ forwarding' \subseteq {"kernel", "policy"}
      /\ block' \subseteq Targets /\ zone' \subseteq Targets /\ stranded' \subseteq Targets
      /\ copies' \in [Targets -> 0 .. MaxCopies] /\ forwarding \subseteq forwarding'
  BY <1>1, <1>2 DEF ForwardsTypeOK, rules
<1> QED BY <1>2, <1>3, <1>4, <1>5, <1>6, <1>7, StepKnown DEF Answered

\* Which firewall is in charge is nothing a request under way goes by.
LEMMA HostKnown ==
  ASSUME KnownInv, UFWComesUp \/ FirewallsChange
  PROVE  KnownInv'
<1>1. UNCHANGED <<port_forwards, block, zone, copies, forwarding, ask, stranded, harm>>
  BY DEF UFWComesUp, FirewallsChange, rules
<1>2. backend' \in Backends /\ changes' \in 0 .. MaxChanges
  BY BoundsAreNat DEF UFWComesUp, FirewallsChange, KnownInv, ForwardsTypeOK, Backends
<1>3. ForwardsTypeOK' /\ Places'
  BY <1>1, <1>2 DEF KnownInv, ForwardsTypeOK, Places, Listed
<1>4. \A b \in Askers : Knows(b)'
  BY <1>1, OthersKnow DEF KnownInv
<1> QED BY <1>3, <1>4 DEF KnownInv

LEMMA DeathKnown ==
  ASSUME KnownInv, ForwarderDies
  PROVE  KnownInv'
<1>1. /\ ask' = [a \in Askers |-> NoAsk] /\ harm' \in {harm, "broken", "disturbed"}
      /\ UNCHANGED <<backend, changes, port_forwards, block, zone, copies, forwarding, stranded>>
  BY DEF ForwarderDies, Disturb, Break, host, rules
<1> QED BY <1>1 DEF KnownInv, ForwardsTypeOK, Places, Listed, Knows, Removing, Adding

LEMMA KnownNext == KnownInv /\ [ForwardsNext]_forwardVars => KnownInv'
<1> SUFFICES ASSUME KnownInv, [ForwardsNext]_forwardVars PROVE KnownInv'
  OBVIOUS
<1>1. CASE UNCHANGED forwardVars
  <2>1. ForwardsTypeOK' /\ Places'
    BY <1>1 DEF forwardVars, KnownInv, ForwardsTypeOK, Places, Listed
  <2>2. \A b \in Askers : Knows(b)'
    BY <1>1, OthersKnow DEF forwardVars, KnownInv
  <2> QED BY <2>1, <2>2 DEF KnownInv
<1>2. ASSUME NEW a \in Askers, HandleForward(a) PROVE KnownInv'
  BY <1>2, FindKnown, UFWKnown, WriteKnown, CommandKnown, CreateKnown, DeleteKnown
  DEF HandleForward
<1> QED BY <1>1, <1>2, StartKnown, HostKnown, DeathKnown DEF ForwardsNext

\* Type correctness, and what requests go by stays true while they do.
THEOREM ForwardsTypeCorrect == ForwardsSpec => []ForwardsTypeOK
<1>1. KnownInv => ForwardsTypeOK
  BY DEF KnownInv
<1> QED BY <1>1, KnownInit, KnownNext, PTL DEF ForwardsSpec

-----------------------------------------------------------------------------
(* Rows and rules.                                                         *)
(*                                                                         *)
(* iptables keeps a copy for every row that says the same, so RowsHaveRules *)
(* is a matter of counting: a rule has its holders, the rows whose removal  *)
(* has not got past it and the requests about to enter theirs.  Kept says   *)
(* that there are rules enough for them, wherever; Only that there are no   *)
(* others, but those a removal passed by.                                   *)

\* Requests past their rule: a removal drops it, a creation gives it a row.
Drops(a, i) == Removing(a) /\ ask[a].pc \in {"reload", "row"} /\ ask[a].id = i
Gives(a, t) == Adding(a) /\ ask[a].pc \in {"reload", "row"} /\ ask[a].target = t

HoldingRows(t) == {i \in ForwardIds : port_forwards[i] = t /\ ~\E a \in Askers : Drops(a, i)}
HoldingAsks(t) == {a \in Askers : Gives(a, t)}
Holders(t)     == ({"row"} \X HoldingRows(t)) \cup ({"ask"} \X HoldingAsks(t))

\* ufw and firewalld have one rule for them all, iptables one for each.
Enough(t)  == t \in block \cup zone \/ Cardinality(Holders(t)) <= copies[t]
NoMore(t)  == /\ t \in block \cup zone => Holders(t) # {}
              /\ copies[t] <= Cardinality(Holders(t))

Kept == harm # "disturbed" => \A t \in Targets : Enough(t)
Only == harm = "none" => \A t \in Targets \ stranded : NoMore(t)

RulesInv == KnownInv /\ Kept /\ Only

LEMMA HoldersFinite ==
  ASSUME NEW S, S \subseteq ({"row"} \X ForwardIds) \cup ({"ask"} \X Askers)
  PROVE  IsFiniteSet(S) /\ Cardinality(S) \in Nat /\ (Cardinality(S) = 0 <=> S = {})
<1>1. IsFiniteSet({"row"}) /\ IsFiniteSet({"ask"})
  BY FS_Singleton
<1>2. IsFiniteSet({"row"} \X ForwardIds) /\ IsFiniteSet({"ask"} \X Askers)
  BY <1>1, RowsAreFinite, FS_Product
<1>3. IsFiniteSet(({"row"} \X ForwardIds) \cup ({"ask"} \X Askers))
  BY <1>2, FS_Union
<1>4. IsFiniteSet(S)
  BY <1>3, FS_Subset
<1> QED BY <1>4, FS_CardinalityType, FS_EmptySet

LEMMA HoldersAre ==
  \A t : /\ Holders(t) \subseteq ({"row"} \X ForwardIds) \cup ({"ask"} \X Askers)
         /\ Holders(t)' \subseteq ({"row"} \X ForwardIds) \cup ({"ask"} \X Askers)
BY DEF Holders, HoldingRows, HoldingAsks

\* A step that changes the rules, and their holders, of t alone.
OnlyAbout(t) ==
  \A u \in Targets \ {t} :
    /\ Holders(u)' = Holders(u) /\ copies'[u] = copies[u]
    /\ (u \in block' <=> u \in block) /\ (u \in zone' <=> u \in zone)
    /\ u \in stranded => u \in stranded'

LEMMA RulesAbout ==
  ASSUME RulesInv, KnownInv', NEW t \in Targets, OnlyAbout(t),
         harm # "disturbed", harm' = "none" => harm = "none",
         Enough(t)', harm' = "none" /\ t \notin stranded' => NoMore(t)'
  PROVE  RulesInv'
<1>1. \A u \in Targets : Enough(u)'
  <2> SUFFICES ASSUME NEW u \in Targets \ {t} PROVE Enough(u)'
    OBVIOUS
  <2>1. Enough(u)
    BY DEF RulesInv, Kept
  <2> QED BY <2>1 DEF Enough, OnlyAbout
<1>2. ASSUME harm' = "none", NEW u \in Targets \ stranded' PROVE NoMore(u)'
  <2>1. CASE u = t
    BY <1>2, <2>1
  <2>2. CASE u # t
    <3>1. NoMore(u)
      BY <1>2, <2>2 DEF RulesInv, Only, OnlyAbout
    <3> QED BY <1>2, <2>2, <3>1 DEF NoMore, OnlyAbout
  <2> QED BY <2>1, <2>2
<1> QED BY <1>1, <1>2 DEF RulesInv, Kept, Only

\* Who holds a rule once a request has moved.
LEMMA FewerHolders ==
  ASSUME port_forwards' = port_forwards,
         \A b \in Askers, i \in ForwardIds : Drops(b, i) => Drops(b, i)',
         \A b \in Askers, t \in Targets : Gives(b, t)' => Gives(b, t)
  PROVE  \A t \in Targets : Holders(t)' \subseteq Holders(t)
<1> SUFFICES ASSUME NEW t \in Targets
             PROVE  HoldingRows(t)' \subseteq HoldingRows(t) /\ HoldingAsks(t)' \subseteq HoldingAsks(t)
  BY DEF Holders
<1> QED BY DEF HoldingRows, HoldingAsks

LEMMA SameHolders ==
  ASSUME port_forwards' = port_forwards,
         \A b \in Askers, i \in ForwardIds : Drops(b, i)' <=> Drops(b, i),
         \A b \in Askers, t \in Targets : Gives(b, t)' <=> Gives(b, t)
  PROVE  \A t \in Targets : Holders(t)' = Holders(t)
<1> SUFFICES ASSUME NEW t \in Targets
             PROVE  HoldingRows(t)' = HoldingRows(t) /\ HoldingAsks(t)' = HoldingAsks(t)
  BY DEF Holders
<1> QED BY DEF HoldingRows, HoldingAsks

\* A creation has made its rule: it is one more to hold it.
LEMMA GiverHolds ==
  ASSUME NEW a \in Askers, Adding(a), ask[a].pc \notin {"reload", "row"},
         NEW t \in Targets, NEW pc \in {"reload", "row"},
         Turned(a, pc, t, "none", {}), port_forwards' = port_forwards
  PROVE  /\ \A u \in Targets \ {t} : Holders(u)' = Holders(u)
         /\ Cardinality(Holders(t)') = Cardinality(Holders(t)) + 1
         /\ Cardinality(Holders(t)) \in Nat /\ Holders(t)' # {}
<1>1. \A b \in Askers, i \in ForwardIds : Drops(b, i)' <=> Drops(b, i)
  BY DEF Drops, Removing, Adding, Turned
<1>2. /\ \A b \in Askers, u \in Targets : Gives(b, u)' <=> Gives(b, u) \/ (b = a /\ u = t)
      /\ ~Gives(a, t)
  BY DEF Gives, Adding, Turned
<1>3. \A u \in Targets : HoldingRows(u)' = HoldingRows(u)
  BY <1>1 DEF HoldingRows
<1>4. /\ \A u \in Targets \ {t} : HoldingAsks(u)' = HoldingAsks(u)
      /\ HoldingAsks(t)' = HoldingAsks(t) \cup {a} /\ a \notin HoldingAsks(t)
  BY <1>2 DEF HoldingAsks
<1>5. Holders(t)' = Holders(t) \cup {<<"ask", a>>} /\ <<"ask", a>> \notin Holders(t)
  BY <1>3, <1>4 DEF Holders
<1>6. Cardinality(Holders(t)') = Cardinality(Holders(t)) + 1 /\ Cardinality(Holders(t)) \in Nat
  BY <1>5, HoldersAre, HoldersFinite, FS_AddElement
<1> QED BY <1>3, <1>4, <1>5, <1>6 DEF Holders

\* A removal is past its rule: its row holds it no more.
LEMMA DropperLetsGo ==
  ASSUME KnownInv, NEW a \in Askers, Removing(a), ask[a].pc \in {"detect", "write", "command"},
         NEW t \in Targets, t = ask[a].target,
         NEW pc \in {"reload", "row"}, NEW n, Turned(a, pc, n, "none", {}),
         port_forwards' = port_forwards
  PROVE  /\ \A u \in Targets \ {t} : Holders(u)' = Holders(u)
         /\ HoldingRows(t)' = HoldingRows(t) \ {ask[a].id}
         /\ HoldingAsks(t)' = HoldingAsks(t)
<1>0. PICK r : r = ask[a].id
  OBVIOUS
<1>1. r \in ForwardIds /\ port_forwards[r] \in {t, NoTarget} /\ NoTarget \notin Targets
  BY <1>0, V4AreTargets DEF KnownInv, Knows
<1>2. \A b \in Askers, i \in ForwardIds : Drops(b, i)' <=> Drops(b, i) \/ (b = a /\ i = r)
  BY <1>0 DEF Drops, Removing, Turned
<1>3. \A b \in Askers, u \in Targets : Gives(b, u)' <=> Gives(b, u)
  BY DEF Gives, Removing, Adding, Turned
<1>4. \A u \in Targets : HoldingAsks(u)' = HoldingAsks(u)
  BY <1>3 DEF HoldingAsks
<1>5. \A u \in Targets \ {t} : HoldingRows(u)' = HoldingRows(u)
  BY <1>1, <1>2 DEF HoldingRows
<1>6. HoldingRows(t)' = HoldingRows(t) \ {r}
  BY <1>2 DEF HoldingRows
<1> QED BY <1>0, <1>4, <1>5, <1>6 DEF Holders

\* With no twin, nobody is left to hold the rule.
LEMMA NoTwinNoHolder ==
  ASSUME KnownInv, NEW a \in Askers, Removing(a), ask[a].pc \in {"detect", "write", "command"},
         NEW t \in Targets, t = ask[a].target, ~Twin(a),
         NEW pc \in {"reload", "row"}, NEW n, Turned(a, pc, n, "none", {}),
         port_forwards' = port_forwards
  PROVE  Holders(t)' = {} /\ Cardinality(Holders(t)') = 0
<1>1. /\ HoldingRows(t)' = HoldingRows(t) \ {ask[a].id}
      /\ HoldingAsks(t)' = HoldingAsks(t)
  BY DropperLetsGo
<1>2. \A i \in ForwardIds : i # ask[a].id => port_forwards[i] # t
  BY V4AreTargets DEF Twin, Listed
<1>3. HoldingRows(t)' = {}
  BY <1>1, <1>2 DEF HoldingRows
<1>4. HoldingAsks(t) = {}
  BY DEF HoldingAsks, Gives, Adding, Twin, Asking
<1>5. Holders(t)' = {}
  BY <1>1, <1>3, <1>4 DEF Holders
<1> QED BY <1>5, FS_EmptySet

\* What a removal that spoke to v leaves behind: nothing it has not been seen to.
LEMMA NotStranded ==
  ASSUME ForwardsTypeOK, NEW a \in Askers, Removing(a), NEW v, Strand(a, v),
         NEW t \in Targets, t = ask[a].target, t \notin stranded'
  PROVE  /\ v # "ufw" => t \notin block
         /\ v # "firewalld" => t \notin zone
         /\ v # "iptables" => copies[t] = 0
<1>1. t \notin Elsewhere(v)
  BY DEF Strand, Removing
<1>2. copies[t] \in Nat
  BY DEF ForwardsTypeOK
<1> QED BY <1>1, <1>2 DEF Elsewhere

\* Rules are kept as long as none goes and none is claimed.
LEMMA StillKept ==
  ASSUME KnownInv, KnownInv', Kept, \A t \in Targets : Holders(t)' \subseteq Holders(t),
         block \subseteq block', zone \subseteq zone', \A t \in Targets : copies[t] <= copies'[t],
         harm' # "disturbed" => harm # "disturbed"
  PROVE  Kept'
<1> SUFFICES ASSUME harm' # "disturbed", NEW t \in Targets PROVE Enough(t)'
  BY DEF Kept
<1>1. Enough(t)
  BY DEF Kept
<1>2. Cardinality(Holders(t)') <= Cardinality(Holders(t))
  BY HoldersAre, HoldersFinite, FS_Subset
<1>3. Cardinality(Holders(t)') \in Nat /\ Cardinality(Holders(t)) \in Nat
  BY HoldersAre, HoldersFinite
<1>4. copies[t] \in Nat /\ copies'[t] \in Nat /\ copies[t] <= copies'[t]
  BY DEF KnownInv, ForwardsTypeOK
<1> QED BY <1>1, <1>2, <1>3, <1>4 DEF Enough

\* The request neither takes a rule, nor claims or leaves one.
Quiet(a) ==
  /\ \A i \in ForwardIds : Drops(a, i)' <=> Drops(a, i)
  /\ \A t \in Targets : Gives(a, t)' <=> Gives(a, t)

LEMMA QuietRules ==
  ASSUME RulesInv, KnownInv', NEW a \in Askers,
         UNCHANGED <<port_forwards, rules, stranded, harm>>,
         \A b \in Askers \ {a} : ask'[b] = ask[b],
         Quiet(a)
  PROVE  RulesInv'
<1>1. \A b \in Askers \ {a} : /\ \A i \in ForwardIds : Drops(b, i)' <=> Drops(b, i)
                              /\ \A t \in Targets : Gives(b, t)' <=> Gives(b, t)
  BY DEF Drops, Gives, Removing, Adding
<1>2. \A b \in Askers, i \in ForwardIds : Drops(b, i)' <=> Drops(b, i)
  BY <1>1 DEF Quiet
<1>3. \A b \in Askers, t \in Targets : Gives(b, t)' <=> Gives(b, t)
  BY <1>1 DEF Quiet
<1>4. \A t \in Targets : Holders(t)' = Holders(t)
  BY <1>2, <1>3, SameHolders
<1> QED BY <1>4 DEF RulesInv, Kept, Only, Enough, NoMore, rules

\* A step that fails: a creation leaves, a removal goes for its row.
LEMMA TroubledRules ==
  ASSUME RulesInv, KnownInv', NEW a \in Askers, ask[a] # NoAsk, Troubled(a),
         port_forwards' = port_forwards, block \subseteq block', zone \subseteq zone',
         \A t \in Targets : copies[t] <= copies'[t]
  PROVE  RulesInv'
<1>1. \A b \in Askers, i \in ForwardIds : Drops(b, i) => Drops(b, i)'
  BY DEF Drops, Removing, Troubled, Turned, Answered
<1>2. \A b \in Askers, t \in Targets : Gives(b, t)' => Gives(b, t)
  BY DEF Gives, Adding, Troubled, Turned, Answered
<1>3. Kept'
  BY <1>1, <1>2, FewerHolders, StillKept DEF RulesInv, Troubled
<1>4. Only'
  BY DEF Only, Troubled
<1> QED BY <1>3, <1>4 DEF RulesInv

LEMMA CopiesNat == ForwardsTypeOK => \A t \in Targets : copies[t] \in Nat /\ copies[t] <= copies[t]
BY DEF ForwardsTypeOK

\* A line for t comes or goes: no other line changes, and none goes that somebody needs.
LEMMA WriteRules ==
  ASSUME RulesInv, KnownInv', NEW a \in Askers, WriteUFWForwards(a)
  PROVE  RulesInv'
<1>0. PICK t : t = ask[a].target
  OBVIOUS
<1>1. ForwardsTypeOK /\ Knows(a) /\ KnownInv
  BY DEF RulesInv, KnownInv
<1>2. /\ ask[a] # NoAsk /\ ask[a].pc = "write"
      /\ UNCHANGED <<port_forwards, zone, copies>>
  BY DEF WriteUFWForwards, Asking
<1>3. CASE Troubled(a) /\ block' = block
  BY <1>1, <1>2, <1>3, CopiesNat, TroubledRules
<1>4. SUFFICES ASSUME ~(Troubled(a) /\ block' = block), harm' # "disturbed"
               PROVE  RulesInv'
  BY <1>3 DEF RulesInv, Kept, Only
<1>5. /\ block' = Written(a) /\ Strand(a, "ufw") /\ Turned(a, "reload", t, "none", {})
      /\ harm' = harm /\ ~Overwritten(a) /\ (~ask[a].adding => ~Twin(a))
  BY <1>0, <1>1, <1>4, WriteDoes DEF Disturb
<1>6. t \in Targets
  BY <1>0, <1>1, <1>2 DEF Knows, Removing, Adding
<1>7. /\ \A u : u # t => (u \in block' <=> u \in block)
      /\ t \in block' <=> ask[a].adding
  BY <1>0, <1>5 DEF Overwritten, Written
<1>8. stranded \subseteq stranded'
  BY <1>1, <1>5, StrandType
<1>9. copies[t] \in Nat
  BY <1>1, <1>6 DEF ForwardsTypeOK
<1>10. CASE ask[a].adding
  <2>1. /\ \A u \in Targets \ {t} : Holders(u)' = Holders(u)
        /\ Cardinality(Holders(t)') = Cardinality(Holders(t)) + 1
        /\ Cardinality(Holders(t)) \in Nat /\ Holders(t)' # {}
    BY <1>2, <1>5, <1>6, <1>10, GiverHolds DEF Adding
  <2>2. OnlyAbout(t) /\ Enough(t)'
    BY <1>2, <1>7, <1>8, <1>10, <2>1 DEF OnlyAbout, Enough
  <2>3. harm = "none" /\ t \notin stranded => NoMore(t)
    BY <1>6 DEF RulesInv, Only
  <2>4. harm' = "none" /\ t \notin stranded' => NoMore(t)'
    BY <1>2, <1>5, <1>8, <1>9, <2>1, <2>3 DEF NoMore
  <2> QED BY <1>4, <1>5, <1>6, <2>2, <2>4, RulesAbout
<1>11. CASE ~ask[a].adding
  <2>1. \A u \in Targets \ {t} : Holders(u)' = Holders(u)
    BY <1>0, <1>1, <1>2, <1>5, <1>6, <1>11, DropperLetsGo DEF Removing
  <2>2. Holders(t)' = {} /\ Cardinality(Holders(t)') = 0
    BY <1>0, <1>1, <1>2, <1>5, <1>6, <1>11, NoTwinNoHolder DEF Removing
  <2>3. OnlyAbout(t) /\ Enough(t)'
    BY <1>2, <1>7, <1>8, <1>9, <2>1, <2>2 DEF OnlyAbout, Enough
  <2>4. t \notin stranded' => t \notin zone /\ copies[t] = 0
    BY <1>0, <1>1, <1>2, <1>5, <1>6, <1>11, NotStranded DEF Removing
  <2>5. t \notin stranded' => NoMore(t)'
    BY <1>2, <1>7, <1>11, <2>2, <2>4 DEF NoMore
  <2> QED BY <1>4, <1>5, <1>6, <2>3, <2>5, RulesAbout
<1> QED BY <1>10, <1>11

\* firewalld has a port for t, for the row to come.
LEMMA AddPortRules ==
  ASSUME RulesInv, KnownInv', NEW a \in Askers, AddForwardPort(a)
  PROVE  RulesInv'
<1>0. PICK t : t = ask[a].target
  OBVIOUS
<1>1. ForwardsTypeOK /\ Knows(a) /\ KnownInv
  BY DEF RulesInv, KnownInv
<1>2. /\ ask[a] # NoAsk /\ ask[a].pc = "command" /\ ask[a].adding
      /\ UNCHANGED <<port_forwards, block, copies>>
  BY DEF AddForwardPort, Commanding, Asking
<1>3. CASE Troubled(a)
  <2>1. zone \subseteq zone'
    BY DEF AddForwardPort
  <2> QED BY <1>1, <1>2, <1>3, <2>1, CopiesNat, TroubledRules
<1>4. SUFFICES ASSUME ~Troubled(a), harm' # "disturbed" PROVE RulesInv'
  BY <1>3 DEF RulesInv, Kept, Only
<1>5. /\ zone' = zone \cup {t} /\ stranded' = stranded /\ harm' = harm
      /\ Turned(a, "row", t, "none", {})
  BY <1>0, <1>1, <1>4, AddPortDoes
<1>6. t \in Targets
  BY <1>0, <1>1, <1>2 DEF Knows, Adding
<1>7. /\ \A u \in Targets \ {t} : Holders(u)' = Holders(u)
      /\ Cardinality(Holders(t)') = Cardinality(Holders(t)) + 1
      /\ Cardinality(Holders(t)) \in Nat /\ Holders(t)' # {}
  BY <1>2, <1>5, <1>6, GiverHolds DEF Adding
<1>8. OnlyAbout(t) /\ Enough(t)'
  BY <1>2, <1>5, <1>7 DEF OnlyAbout, Enough
<1>9. harm = "none" /\ t \notin stranded => NoMore(t)
  BY <1>6 DEF RulesInv, Only
<1>10. copies[t] \in Nat
  BY <1>1, <1>6 DEF ForwardsTypeOK
<1>11. harm' = "none" /\ t \notin stranded' => NoMore(t)'
  BY <1>2, <1>5, <1>7, <1>9, <1>10 DEF NoMore
<1> QED BY <1>4, <1>5, <1>6, <1>8, <1>11, RulesAbout

\* It goes, and no twin needed it.
LEMMA RemovePortRules ==
  ASSUME RulesInv, KnownInv', NEW a \in Askers, RemoveForwardPort(a)
  PROVE  RulesInv'
<1>0. PICK t : t = ask[a].target
  OBVIOUS
<1>1. ForwardsTypeOK /\ Knows(a) /\ KnownInv
  BY DEF RulesInv, KnownInv
<1>2. /\ Removing(a) /\ ask[a].pc = "command"
      /\ UNCHANGED <<port_forwards, block, copies>>
  BY DEF RemoveForwardPort, Commanding, Asking, Removing
<1>3. CASE Troubled(a) /\ zone' = zone
  BY <1>1, <1>2, <1>3, CopiesNat, TroubledRules DEF Removing
<1>4. SUFFICES ASSUME ~(Troubled(a) /\ zone' = zone), harm' # "disturbed" PROVE RulesInv'
  BY <1>3 DEF RulesInv, Kept, Only
<1>5. /\ zone' = zone \ {t} /\ Strand(a, "firewalld") /\ harm' = harm /\ ~Twin(a)
      /\ Turned(a, "row", NoTarget, "none", {})
  BY <1>0, <1>1, <1>4, RemovePortDoes DEF Disturb
<1>6. t \in Targets
  BY <1>0, <1>1, <1>2 DEF Knows
<1>7. stranded \subseteq stranded' /\ copies[t] \in Nat
  BY <1>1, <1>5, <1>6, StrandType DEF ForwardsTypeOK
<1>8. \A u \in Targets \ {t} : Holders(u)' = Holders(u)
  BY <1>0, <1>1, <1>2, <1>5, <1>6, DropperLetsGo
<1>9. Holders(t)' = {} /\ Cardinality(Holders(t)') = 0
  BY <1>0, <1>1, <1>2, <1>5, <1>6, NoTwinNoHolder
<1>10. OnlyAbout(t) /\ Enough(t)'
  BY <1>2, <1>5, <1>7, <1>8, <1>9 DEF OnlyAbout, Enough
<1>11. t \notin stranded' => t \notin block /\ copies[t] = 0
  BY <1>0, <1>1, <1>2, <1>5, <1>6, NotStranded
<1>12. t \notin stranded' => NoMore(t)'
  BY <1>2, <1>5, <1>9, <1>11 DEF NoMore
<1> QED BY <1>4, <1>5, <1>6, <1>10, <1>12, RulesAbout

\* iptables has a copy more, for the row to come.
LEMMA AppendRules ==
  ASSUME RulesInv, KnownInv', NEW a \in Askers, AppendRule(a)
  PROVE  RulesInv'
<1>0. PICK t : t = ask[a].target
  OBVIOUS
<1>1. ForwardsTypeOK /\ Knows(a) /\ KnownInv
  BY DEF RulesInv, KnownInv
<1>2. /\ ask[a] # NoAsk /\ ask[a].pc = "command" /\ ask[a].adding /\ copies[t] < MaxCopies
      /\ UNCHANGED <<port_forwards, block, zone>>
  BY <1>0, <1>1, AppendDoes DEF AppendRule
<1>3. t \in Targets
  BY <1>0, <1>1, <1>2 DEF Knows, Adding
<1>4. /\ copies[t] \in Nat /\ OneMore(t)[t] = copies[t] + 1
      /\ \A u \in Targets \ {t} : OneMore(t)[u] = copies[u]
  BY <1>1, <1>2, <1>3, OneMoreType
<1>5. CASE Troubled(a)
  <2>1. copies' \in {copies, OneMore(t)}
    BY <1>0 DEF AppendRule, OneMore
  <2>2. \A u \in Targets : copies[u] <= copies'[u]
    BY <1>1, <1>4, <2>1, CopiesNat
  <2> QED BY <1>1, <1>2, <1>5, <2>2, TroubledRules
<1>6. SUFFICES ASSUME ~Troubled(a), harm' # "disturbed" PROVE RulesInv'
  BY <1>5 DEF RulesInv, Kept, Only
<1>7. /\ copies' = OneMore(t) /\ stranded' = stranded /\ harm' = harm
      /\ Turned(a, "row", t, "none", {})
  BY <1>0, <1>1, <1>6, AppendDoes
<1>8. /\ \A u \in Targets \ {t} : Holders(u)' = Holders(u)
      /\ Cardinality(Holders(t)') = Cardinality(Holders(t)) + 1
      /\ Cardinality(Holders(t)) \in Nat /\ Holders(t)' # {}
  BY <1>2, <1>3, <1>7, GiverHolds DEF Adding
<1>9. Enough(t) /\ (harm = "none" /\ t \notin stranded => NoMore(t))
  BY <1>3, <1>6, <1>7 DEF RulesInv, Kept, Only
<1>10. OnlyAbout(t) /\ Enough(t)'
  BY <1>2, <1>4, <1>7, <1>8, <1>9 DEF OnlyAbout, Enough
<1>11. harm' = "none" /\ t \notin stranded' => NoMore(t)'
  BY <1>2, <1>4, <1>7, <1>8, <1>9 DEF NoMore
<1> QED BY <1>3, <1>6, <1>7, <1>10, <1>11, RulesAbout

\* A copy is dropped with the row it was for.
LEMMA DropRules ==
  ASSUME RulesInv, KnownInv', NEW a \in Askers, DropRule(a)
  PROVE  RulesInv'
<1>0. PICK t, r : t = ask[a].target /\ r = ask[a].id
  OBVIOUS
<1>1. ForwardsTypeOK /\ Knows(a) /\ KnownInv
  BY DEF RulesInv, KnownInv
<1>2. /\ Removing(a) /\ ask[a].pc = "command"
      /\ UNCHANGED <<port_forwards, block, zone>>
  BY DEF DropRule, Commanding, Asking, Removing
<1>3. CASE Troubled(a) /\ copies' = copies
  BY <1>1, <1>2, <1>3, CopiesNat, TroubledRules DEF Removing
<1>4. SUFFICES ASSUME ~(Troubled(a) /\ copies' = copies), harm' # "disturbed" PROVE RulesInv'
  BY <1>3 DEF RulesInv, Kept, Only
<1>5. /\ copies' = OneLess(t) /\ Strand(a, "iptables") /\ harm' = harm /\ ~TwiceRemoved(a)
      /\ Turned(a, "row", NoTarget, "none", {})
  BY <1>0, <1>1, <1>4, DropDoes DEF Disturb
<1>6. t \in Targets /\ r \in ForwardIds /\ port_forwards[r] \in {t, NoTarget}
  BY <1>0, <1>1, <1>2 DEF Knows
<1>7. /\ copies[t] \in Nat /\ OneLess(t)[t] = IF copies[t] = 0 THEN 0 ELSE copies[t] - 1
      /\ \A u \in Targets \ {t} : OneLess(t)[u] = copies[u]
  BY <1>1, <1>6, OneLessType
<1>8. stranded \subseteq stranded'
  BY <1>1, <1>5, StrandType
<1>9. /\ \A u \in Targets \ {t} : Holders(u)' = Holders(u)
      /\ HoldingRows(t)' = HoldingRows(t) \ {r} /\ HoldingAsks(t)' = HoldingAsks(t)
  BY <1>0, <1>1, <1>2, <1>5, <1>6, DropperLetsGo
<1>10. r \in HoldingRows(t)
  <2>1. port_forwards[r] = t /\ \A b \in Askers \ {a} : Removing(b) => ask[b].id # r
    BY <1>0, <1>5, <1>6 DEF TwiceRemoved, Listed, Removing
  <2>2. \A b \in Askers : ~Drops(b, r)
    BY <1>2, <2>1 DEF Drops
  <2> QED BY <1>6, <2>1, <2>2 DEF HoldingRows
<1>11. Holders(t)' = Holders(t) \ {<<"row", r>>} /\ <<"row", r>> \in Holders(t)
  BY <1>9, <1>10 DEF Holders
<1>12. /\ Cardinality(Holders(t)') = Cardinality(Holders(t)) - 1
       /\ Cardinality(Holders(t)) \in Nat /\ Cardinality(Holders(t)) # 0
  BY <1>11, HoldersAre, HoldersFinite, FS_RemoveElement
<1>13. Enough(t) /\ (harm = "none" /\ t \notin stranded => NoMore(t))
  BY <1>4, <1>5, <1>6 DEF RulesInv, Kept, Only
<1>14. OnlyAbout(t) /\ Enough(t)'
  BY <1>2, <1>5, <1>7, <1>8, <1>9, <1>12, <1>13 DEF OnlyAbout, Enough
<1>15. t \notin stranded' => t \notin block /\ t \notin zone
  BY <1>0, <1>1, <1>2, <1>5, <1>6, NotStranded
<1>16. harm' = "none" /\ t \notin stranded' => NoMore(t)'
  BY <1>2, <1>5, <1>7, <1>8, <1>12, <1>13, <1>15 DEF NoMore
<1> QED BY <1>4, <1>5, <1>6, <1>14, <1>16, RulesAbout

\* With no firewall in charge a removal lets its row go; a creation only leaves.
LEMMA NoneRules ==
  ASSUME RulesInv, KnownInv', NEW a \in Askers, DetectNone(a)
  PROVE  RulesInv'
<1>0. PICK t : t = ask[a].target
  OBVIOUS
<1>1. ForwardsTypeOK /\ Knows(a) /\ KnownInv
  BY DEF RulesInv, KnownInv
<1>2. /\ UNCHANGED <<port_forwards, rules, harm>> /\ Strand(a, "none")
      /\ ask[a] # NoAsk /\ ask[a].pc = "detect"
      /\ IF ask[a].adding THEN Answered(a) ELSE Turned(a, "row", NoTarget, "none", {})
  BY <1>1, NoneDoes DEF DetectNone
<1>3. CASE ask[a].adding
  <2>1. Quiet(a) /\ stranded' = stranded
    BY <1>2, <1>3 DEF Quiet, Drops, Gives, Removing, Adding, Answered, Strand
  <2> QED BY <1>2, <1>3, <2>1, QuietRules DEF Answered
<1>4. SUFFICES ASSUME Removing(a), harm' # "disturbed" PROVE RulesInv'
  BY <1>2, <1>3 DEF RulesInv, Kept, Only, Removing
<1>5. t \in Targets /\ Turned(a, "row", NoTarget, "none", {})
  BY <1>0, <1>1, <1>2, <1>4 DEF Knows, Removing
<1>6. stranded \subseteq stranded'
  BY <1>1, <1>2, StrandType
<1>7. /\ \A u \in Targets \ {t} : Holders(u)' = Holders(u)
      /\ HoldingRows(t)' \subseteq HoldingRows(t) /\ HoldingAsks(t)' = HoldingAsks(t)
  BY <1>0, <1>1, <1>2, <1>4, <1>5, DropperLetsGo
<1>8. Holders(t)' \subseteq Holders(t)
  BY <1>7 DEF Holders
<1>9. /\ Cardinality(Holders(t)') <= Cardinality(Holders(t))
      /\ Cardinality(Holders(t)') \in Nat /\ Cardinality(Holders(t)) \in Nat
  BY <1>8, HoldersAre, HoldersFinite, FS_Subset
<1>10. Enough(t) /\ copies[t] \in Nat
  BY <1>1, <1>2, <1>4, <1>5 DEF RulesInv, Kept, ForwardsTypeOK
<1>11. OnlyAbout(t) /\ Enough(t)'
  BY <1>2, <1>6, <1>7, <1>9, <1>10 DEF OnlyAbout, Enough, rules
<1>12. t \notin stranded' => t \notin block /\ t \notin zone /\ copies[t] = 0
  BY <1>0, <1>1, <1>2, <1>4, <1>5, NotStranded
<1>13. t \notin stranded' => NoMore(t)'
  BY <1>2, <1>9, <1>12 DEF NoMore, rules
<1> QED BY <1>2, <1>4, <1>5, <1>11, <1>13, RulesAbout

\* A row is entered for a rule in place: the row holds it now, and not the request.
LEMMA CreateRules ==
  ASSUME RulesInv, KnownInv', NEW a \in Askers, CreatePortForward(a)
  PROVE  RulesInv'
<1>0. PICK t : t = ask[a].target
  OBVIOUS
<1>1. ForwardsTypeOK /\ Knows(a) /\ KnownInv /\ Kept /\ Only
  BY DEF RulesInv, KnownInv
<1>2. /\ ask[a] # NoAsk /\ ask[a].pc = "row" /\ ask[a].adding /\ ask[a].target = t
      /\ ask'[a] = NoAsk /\ (\A b \in Askers \ {a} : ask'[b] = ask[b])
      /\ UNCHANGED <<block, zone, copies, stranded>>
  BY <1>0, <1>1, AnswerEmpties DEF CreatePortForward, Asking, Answered, rules
<1>3. t \in Targets
  BY <1>1, <1>2 DEF Knows, Adding
<1>4. \A b \in Askers, i \in ForwardIds : Drops(b, i)' <=> Drops(b, i)
  BY <1>2 DEF Drops, Removing
<1>5. /\ \A b \in Askers, u \in Targets : Gives(b, u)' <=> Gives(b, u) /\ b # a
      /\ \A u \in Targets : Gives(a, u) <=> u = t
  BY <1>2 DEF Gives, Adding
<1>6. CASE port_forwards' = port_forwards /\ Break
  <2>1. harm' \in {"broken", "disturbed"} /\ (harm' # "disturbed" => harm # "disturbed")
    BY <1>1, <1>6 DEF Break, ForwardsTypeOK
  <2>2. \A u \in Targets : Holders(u)' \subseteq Holders(u)
    BY <1>4, <1>5, <1>6, FewerHolders
  <2>3. Kept'
    BY <1>1, <1>2, <2>1, <2>2, CopiesNat, StillKept
  <2>4. Only'
    BY <2>1 DEF Only
  <2> QED BY <2>3, <2>4 DEF RulesInv
<1>7. ASSUME NEW r \in ForwardIds \ Listed, harm' = harm,
             \A b \in Askers : ask[b] # NoAsk /\ ~ask[b].adding => ask[b].id # r,
             port_forwards' = [port_forwards EXCEPT ![r] = t]
      PROVE  RulesInv'
  <2>1. /\ port_forwards[r] = NoTarget /\ NoTarget \notin Targets /\ port_forwards'[r] = t
        /\ \A i \in ForwardIds \ {r} : port_forwards'[i] = port_forwards[i]
    BY <1>1, <1>7, V4AreTargets DEF Listed, ForwardsTypeOK
  <2>2. \A b \in Askers : ~Drops(b, r)
    BY <1>7 DEF Drops, Removing
  <2>3. \A u \in Targets \ {t} : Holders(u)' = Holders(u)
    <3> SUFFICES ASSUME NEW u \in Targets \ {t}
                 PROVE  HoldingRows(u)' = HoldingRows(u) /\ HoldingAsks(u)' = HoldingAsks(u)
      BY DEF Holders
    <3> QED BY <1>4, <1>5, <2>1 DEF HoldingRows, HoldingAsks
  <2>4. /\ HoldingRows(t)' = HoldingRows(t) \cup {r} /\ r \notin HoldingRows(t)
        /\ HoldingAsks(t)' = HoldingAsks(t) \ {a} /\ a \in HoldingAsks(t)
    BY <1>3, <1>4, <1>5, <2>1, <2>2 DEF HoldingRows, HoldingAsks
  <2>5. /\ Holders(t)' = (Holders(t) \ {<<"ask", a>>}) \cup {<<"row", r>>}
        /\ <<"ask", a>> \in Holders(t) /\ <<"row", r>> \notin Holders(t)
    BY <2>4 DEF Holders
  <2>6. Cardinality(Holders(t)') = Cardinality(Holders(t))
    <3>1. PICK S : S = Holders(t) \ {<<"ask", a>>}
      OBVIOUS
    <3>2. IsFiniteSet(S) /\ Cardinality(S) = Cardinality(Holders(t)) - 1
      BY <2>5, <3>1, HoldersAre, HoldersFinite, FS_RemoveElement
    <3>3. Holders(t)' = S \cup {<<"row", r>>} /\ <<"row", r>> \notin S
      BY <2>5, <3>1
    <3>4. Cardinality(Holders(t)') = Cardinality(S) + 1
      BY <3>2, <3>3, FS_AddElement
    <3>5. Cardinality(Holders(t)) \in Nat
      BY HoldersAre, HoldersFinite
    <3> QED BY <3>2, <3>4, <3>5
  <2>7. \A u \in Targets : /\ Cardinality(Holders(u)') = Cardinality(Holders(u))
                           /\ Holders(u) # {} => Holders(u)' # {}
    BY <2>3, <2>5, <2>6
  <2>8. Kept'
    BY <1>1, <1>2, <1>7, <2>7 DEF Kept, Enough
  <2>9. Only'
    BY <1>1, <1>2, <1>7, <2>7 DEF Only, NoMore
  <2> QED BY <2>8, <2>9 DEF RulesInv
<1> QED BY <1>0, <1>6, <1>7 DEF CreatePortForward

\* The row of a rule that has gone, or was passed by, is deleted: nobody held by it.
LEMMA DeleteRules ==
  ASSUME RulesInv, KnownInv', NEW a \in Askers, DeletePortForward(a)
  PROVE  RulesInv'
<1>0. PICK r : r = ask[a].id
  OBVIOUS
<1>1. ForwardsTypeOK /\ Knows(a) /\ KnownInv /\ Kept /\ Only
  BY DEF RulesInv, KnownInv
<1>2. /\ ask[a] # NoAsk /\ ask[a].pc = "row" /\ ~ask[a].adding /\ ask[a].id = r
      /\ ask'[a] = NoAsk /\ (\A b \in Askers \ {a} : ask'[b] = ask[b])
      /\ UNCHANGED <<block, zone, copies, stranded>> /\ r \in ForwardIds
  BY <1>0, <1>1, AnswerEmpties DEF DeletePortForward, Asking, Answered, Knows, Removing, rules
<1>3. SUFFICES ASSUME harm' # "disturbed" PROVE Kept' /\ Only'
  BY DEF Kept, Only, RulesInv
<1>4. harm' = harm /\ port_forwards' = [port_forwards EXCEPT ![r] = NoTarget]
  BY <1>0, <1>3 DEF DeletePortForward, Disturb
<1>5. /\ port_forwards'[r] = NoTarget /\ NoTarget \notin Targets
      /\ \A i \in ForwardIds \ {r} : port_forwards'[i] = port_forwards[i]
  BY <1>1, <1>2, <1>4, V4AreTargets DEF ForwardsTypeOK
<1>6. /\ \A b \in Askers, i \in ForwardIds \ {r} : Drops(b, i)' <=> Drops(b, i)
      /\ \A b \in Askers, u \in Targets : Gives(b, u)' <=> Gives(b, u)
      /\ Drops(a, r)
  BY <1>2 DEF Drops, Gives, Removing, Adding
<1>7. \A u \in Targets : Holders(u)' = Holders(u)
  <2> SUFFICES ASSUME NEW u \in Targets
               PROVE  HoldingRows(u)' = HoldingRows(u) /\ HoldingAsks(u)' = HoldingAsks(u)
    BY DEF Holders
  <2>1. \A i \in ForwardIds : i \in HoldingRows(u)' <=> i \in HoldingRows(u)
    <3> SUFFICES ASSUME NEW i \in ForwardIds
                 PROVE  i \in HoldingRows(u)' <=> i \in HoldingRows(u)
      OBVIOUS
    <3>1. CASE i = r
      BY <1>5, <1>6, <3>1 DEF HoldingRows
    <3>2. CASE i # r
      BY <1>5, <1>6, <3>2 DEF HoldingRows
    <3> QED BY <3>1, <3>2
  <2> QED BY <1>6, <2>1 DEF HoldingRows, HoldingAsks
<1> QED BY <1>1, <1>2, <1>4, <1>7 DEF Kept, Only, Enough, NoMore

\* kursord dies in the middle of no removal past its rule: what requests held goes.
LEMMA DeathRules ==
  ASSUME RulesInv, KnownInv', ForwarderDies
  PROVE  RulesInv'
<1>1. ForwardsTypeOK /\ KnownInv /\ Kept
  BY DEF RulesInv, KnownInv
<1>2. /\ \A b \in Askers : ask'[b] = NoAsk
      /\ UNCHANGED <<port_forwards, block, zone, copies>>
      /\ harm' \in {"broken", "disturbed"} /\ (harm' # "disturbed" => harm # "disturbed")
  BY <1>1 DEF ForwarderDies, Disturb, Break, ForwardsTypeOK, rules
<1>3. Only'
  BY <1>2 DEF Only
<1>4. SUFFICES ASSUME harm' # "disturbed" PROVE Kept'
  BY <1>3 DEF Kept, RulesInv
<1>5. \A b \in Askers, i \in ForwardIds : Drops(b, i) => Drops(b, i)'
  BY <1>4 DEF ForwarderDies, Disturb, Drops, Removing, Asking
<1>6. \A b \in Askers, t \in Targets : Gives(b, t)' => Gives(b, t)
  BY <1>2 DEF Gives, Adding
<1> QED BY <1>1, <1>2, <1>5, <1>6, CopiesNat, FewerHolders, StillKept

\* Another firewall takes charge: the rules of each are where they were.
LEMMA HostRules ==
  ASSUME RulesInv, KnownInv', UFWComesUp \/ FirewallsChange
  PROVE  RulesInv'
<1>1. UNCHANGED <<port_forwards, block, zone, copies, ask, stranded, harm>>
  BY DEF UFWComesUp, FirewallsChange, rules
<1>2. /\ \A b \in Askers, i \in ForwardIds : Drops(b, i)' <=> Drops(b, i)
      /\ \A b \in Askers, t \in Targets : Gives(b, t)' <=> Gives(b, t)
  BY <1>1 DEF Drops, Gives, Removing, Adding
<1>3. \A t \in Targets : Holders(t)' = Holders(t)
  BY <1>1, <1>2, SameHolders
<1> QED BY <1>1, <1>3 DEF RulesInv, Kept, Only, Enough, NoMore

\* A request that has only begun claims nothing.
LEMMA StartRules ==
  ASSUME RulesInv, KnownInv', NEW a \in Askers, AskForForward(a) \/ AskForRemoval(a)
  PROVE  RulesInv'
<1>1. ForwardsTypeOK /\ UNCHANGED <<port_forwards, rules, stranded, harm>>
  BY DEF RulesInv, KnownInv, AskForForward, AskForRemoval
<1>2. /\ ask[a] = NoAsk /\ ask'[a].pc \in {"detect", "lookup"}
      /\ \A b \in Askers \ {a} : ask'[b] = ask[b]
  <2>1. CASE AskForForward(a)
    <3>1. PICK t \in Targets :
            Started(a, [pc |-> "detect", id |-> NoTarget, target |-> t,
                        adding |-> TRUE, via |-> "none", list |-> {}])
      BY <1>1, <2>1, ForwardStarted
    <3> QED BY <3>1 DEF Started
  <2>2. CASE AskForRemoval(a)
    <3>1. PICK i \in Listed :
            Started(a, [pc |-> "lookup", id |-> i, target |-> NoTarget,
                        adding |-> FALSE, via |-> "none", list |-> {}])
      BY <1>1, <2>2, RemovalStarted
    <3> QED BY <3>1 DEF Started
  <2> QED BY <2>1, <2>2
<1>3. Quiet(a)
  BY <1>2 DEF Quiet, Drops, Gives, Removing, Adding
<1> QED BY <1>1, <1>2, <1>3, QuietRules

LEMMA FindRules ==
  ASSUME RulesInv, KnownInv', NEW a \in Askers, LookUp(a) \/ DetectForwarder(a)
  PROVE  RulesInv'
<1>1. ForwardsTypeOK /\ UNCHANGED <<port_forwards, rules, stranded, harm>>
  BY DEF RulesInv, KnownInv, LookUp, DetectForwarder
<1>2. /\ ask[a] # NoAsk /\ ask[a].pc \in {"lookup", "detect"}
      /\ ask'[a] = NoAsk \/ ask'[a].pc \in {"detect", "sysctl", "read", "command"}
      /\ \A b \in Askers \ {a} : ask'[b] = ask[b]
  BY <1>1, LookUpDoes, DetectDoes DEF Answered, Turned, After
<1>3. Quiet(a)
  BY <1>2 DEF Quiet, Drops, Gives, Removing, Adding
<1> QED BY <1>1, <1>2, <1>3, QuietRules

\* Nor does one that prepares its rule, or has had it loaded.
LEMMA UFWRules ==
  ASSUME RulesInv, KnownInv', NEW a \in Askers,
         \/ EnableIPForwarding(a) \/ SetUFWForwardPolicy(a)
         \/ ReadUFWForwards(a) \/ ReloadUFW(a)
  PROVE  RulesInv'
<1>1. ForwardsTypeOK /\ Knows(a) /\ UNCHANGED <<port_forwards, rules>>
  BY DEF RulesInv, KnownInv, EnableIPForwarding, SetUFWForwardPolicy, ReadUFWForwards, ReloadUFW
<1>2. ask[a] # NoAsk
  BY DEF EnableIPForwarding, SetUFWForwardPolicy, ReadUFWForwards, ReloadUFW, Asking
<1>3. CASE Troubled(a)
  BY <1>1, <1>2, <1>3, CopiesNat, TroubledRules DEF rules
<1>4. SUFFICES ASSUME ~Troubled(a)
               PROVE  /\ harm' = harm /\ stranded' = stranded /\ Quiet(a)
                      /\ \A b \in Askers \ {a} : ask'[b] = ask[b]
  BY <1>1, <1>3, QuietRules
<1>5. CASE EnableIPForwarding(a) \/ SetUFWForwardPolicy(a) \/ ReadUFWForwards(a)
  <2>1. /\ harm' = harm /\ stranded' = stranded /\ ask'[a] # NoAsk
        /\ ask[a].pc \in {"sysctl", "policy", "read"}
        /\ ask'[a].pc \in {"policy", "command", "read", "write"}
        /\ \A b \in Askers \ {a} : ask'[b] = ask[b]
    BY <1>1, <1>4, <1>5, KernelDoes, PolicyDoes, ReadDoes DEF Turned
  <2> QED BY <2>1 DEF Quiet, Drops, Gives, Removing, Adding
<1>6. CASE ReloadUFW(a)
  <2>1. /\ ask[a].pc = "reload" /\ harm' = harm /\ stranded' = stranded
        /\ Turned(a, "row", IF ask[a].adding THEN ask[a].target ELSE NoTarget, "none", {})
    BY <1>1, <1>4, <1>6, ReloadDoes
  <2> QED BY <1>2, <2>1 DEF Turned, Quiet, Drops, Gives, Removing, Adding
<1> QED BY <1>5, <1>6

LEMMA RulesInit == ForwardsInit => RulesInv
<1> SUFFICES ASSUME ForwardsInit PROVE Kept /\ Only
  BY KnownInit DEF RulesInv
<1>1. /\ block = {} /\ zone = {} /\ \A t \in Targets : copies[t] = 0
      /\ \A i \in ForwardIds : port_forwards[i] = NoTarget
      /\ \A a \in Askers : ask[a] = NoAsk
  BY DEF ForwardsInit
<1>2. \A t \in Targets : Holders(t) = {}
  <2> SUFFICES ASSUME NEW t \in Targets PROVE HoldingRows(t) = {} /\ HoldingAsks(t) = {}
    BY DEF Holders
  <2> QED BY <1>1, V4AreTargets DEF HoldingRows, HoldingAsks, Gives, Adding
<1>3. \A t \in Targets : Cardinality(Holders(t)) = 0
  BY <1>2, FS_EmptySet
<1> QED BY <1>1, <1>2, <1>3 DEF Kept, Only, Enough, NoMore

LEMMA RulesNext == RulesInv /\ [ForwardsNext]_forwardVars => RulesInv'
<1> SUFFICES ASSUME RulesInv, [ForwardsNext]_forwardVars PROVE RulesInv'
  OBVIOUS
<1>1. KnownInv'
  BY KnownNext DEF RulesInv
<1>2. ASSUME NEW a \in Askers, HandleForward(a) PROVE RulesInv'
  <2>1. CASE LookUp(a) \/ DetectForwarder(a) \/ DetectNone(a)
    BY <1>1, <2>1, FindRules, NoneRules
  <2>2. CASE \/ EnableIPForwarding(a) \/ SetUFWForwardPolicy(a)
             \/ ReadUFWForwards(a) \/ ReloadUFW(a)
    BY <1>1, <2>2, UFWRules
  <2>3. CASE WriteUFWForwards(a) \/ AddForwardPort(a) \/ RemoveForwardPort(a)
    BY <1>1, <2>3, WriteRules, AddPortRules, RemovePortRules
  <2>4. CASE AppendRule(a) \/ DropRule(a)
    BY <1>1, <2>4, AppendRules, DropRules
  <2>5. CASE CreatePortForward(a) \/ DeletePortForward(a)
    BY <1>1, <2>5, CreateRules, DeleteRules
  <2> QED BY <1>2, <2>1, <2>2, <2>3, <2>4, <2>5 DEF HandleForward
<1>3. CASE UNCHANGED forwardVars
  <2>1. /\ UNCHANGED <<port_forwards, block, zone, copies, stranded, harm>>
        /\ \A b \in Askers, i \in ForwardIds : Drops(b, i)' <=> Drops(b, i)
        /\ \A b \in Askers, t \in Targets : Gives(b, t)' <=> Gives(b, t)
    BY <1>3 DEF forwardVars, Drops, Gives, Removing, Adding
  <2>2. \A t \in Targets : Holders(t)' = Holders(t)
    BY <2>1, SameHolders
  <2> QED BY <1>1, <2>1, <2>2 DEF RulesInv, Kept, Only, Enough, NoMore
<1> QED BY <1>1, <1>2, <1>3, StartRules, HostRules, DeathRules DEF ForwardsNext

LEMMA RulesSuffice == RulesInv => RowsHaveRules
<1> SUFFICES ASSUME RulesInv, harm # "disturbed"
             PROVE  /\ \A i \in Listed \ BeingRemoved :
                         /\ port_forwards[i] \in Rules
                         /\ "kernel" \in forwarding
                         /\ port_forwards[i] \in block => "policy" \in forwarding
                    /\ harm = "none" /\ Resting =>
                         Rules \ stranded \subseteq {port_forwards[i] : i \in Listed}
  BY DEF RowsHaveRules
<1>1. ForwardsTypeOK /\ Places /\ Kept /\ Only
  BY DEF RulesInv, KnownInv
<1>2. ASSUME NEW i \in Listed \ BeingRemoved
      PROVE  /\ port_forwards[i] \in Rules
             /\ "kernel" \in forwarding
             /\ port_forwards[i] \in block => "policy" \in forwarding
  <2>1. PICK t \in Targets : t = port_forwards[i]
    BY <1>1 DEF Listed, ForwardsTypeOK
  <2>2. i \in HoldingRows(t)
    BY <2>1 DEF HoldingRows, Drops, Removing, BeingRemoved, Listed
  <2>3. <<"row", i>> \in Holders(t)
    BY <2>2 DEF Holders
  <2>4. Cardinality(Holders(t)) \in Nat /\ Cardinality(Holders(t)) # 0
    BY <2>3, HoldersAre, HoldersFinite
  <2>5. Enough(t) /\ copies[t] \in Nat
    BY <1>1 DEF Kept, ForwardsTypeOK
  <2>6. t \in Rules
    BY <2>4, <2>5 DEF Enough, Rules
  <2> QED BY <1>1, <2>1, <2>6 DEF Places, Listed
<1>3. ASSUME harm = "none", Resting, NEW t \in Rules \ stranded
      PROVE  \E i \in Listed : port_forwards[i] = t
  <2>1. t \in Targets /\ NoMore(t)
    BY <1>1, <1>3 DEF Rules, Only, ForwardsTypeOK
  <2>2. Holders(t) # {}
    <3>1. CASE t \in block \cup zone
      BY <2>1, <3>1 DEF NoMore
    <3>2. CASE copies[t] > 0
      <4>1. copies[t] \in Nat /\ copies[t] <= Cardinality(Holders(t))
        BY <1>1, <2>1 DEF NoMore, ForwardsTypeOK
      <4>2. Cardinality(Holders(t)) \in Nat /\ (Cardinality(Holders(t)) = 0 <=> Holders(t) = {})
        BY HoldersAre, HoldersFinite
      <4> QED BY <3>2, <4>1, <4>2
    <3> QED BY <1>3, <3>1, <3>2 DEF Rules
  <2>3. HoldingAsks(t) = {}
    BY <1>3 DEF HoldingAsks, Gives, Adding, Resting
  <2>4. HoldingRows(t) # {}
    BY <2>2, <2>3 DEF Holders
  <2> QED BY <2>1, <2>4, V4AreTargets DEF HoldingRows, Listed
<1> QED BY <1>2, <1>3

\* handlePortForwardCreate "applies a DNAT rule and records it": whichever firewall is
\* in charge when, a row not being removed has its rule in one of them, and forwarding
\* allowed; and no rule of any is left without a row unless a step failed or its
\* removal passed it by.
THEOREM RowsAlwaysHaveRules == ForwardsSpec => []RowsHaveRules
BY RulesInit, RulesNext, RulesSuffice, PTL DEF ForwardsSpec
=============================================================================
