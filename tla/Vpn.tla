-------------------------------- MODULE Vpn --------------------------------
(***************************************************************************)
(* WireGuard peers (server/vpn.go, store/vpn.go, vpn/wireguard.go): the    *)
(* rows of vpn_peers, the file wg0.conf generated from them, the interface *)
(* that was last told to read the file, and the install links.             *)
(*                                                                         *)
(* A handler changes a row and then re-applies: it reads the settings,     *)
(* lists the peers, writes the whole file and reloads.  No lock covers     *)
(* that; each of these is a step.  A request starts with its first         *)
(* statement: before it, it has read and changed nothing.                  *)
(***************************************************************************)
EXTENDS Integers, FiniteSets

CONSTANTS Peers,    \* ids vpn_peers can hand out
          Hosts,    \* host parts of the subnet's addresses: 2 .. 254 in the code
          Ports,    \* listen ports
          Tokens,   \* install tokens
          Requests, NoReq,
          NoPeer,   \* an id without a row
          NoConf    \* no file, or an interface that is down

ASSUME HostsAreNumbers == Hosts \subseteq Nat

VARIABLES peers,   \* the rows of vpn_peers
          used,    \* ids handed out, for ever
          port,    \* vpn_settings.port
          links,   \* vpn_install_links: (peer, token)
          conf,    \* wg0.conf
          live,    \* what the interface runs
          req,     \* requests in flight
          overlapped \* history: two requests have been in flight at once

vars == <<peers, used, port, links, conf, live, req, overlapped>>

Peer   == [ip: Hosts, on: BOOLEAN]
Config == [port: Ports, routes: SUBSET (Peers \X Hosts)]

\* What a request holds: the peer it is about, the address picked or the flag
\* loaded, and, once it applies, the settings and the peers it read; what it will
\* not look at again is blanked.
InFlight ==
  [pc: {"insert", "flip", "settings", "list", "write", "reload", "undo", "unlink", "link"},
   op: {"create", "toggle", "delete", "link"}, peer: Peers \cup {NoPeer},
   ip: Hosts \cup {0}, on: BOOLEAN, snap: Config \cup {NoConf}]
ASSUME NothingsDiffer == NoPeer \notin Peer /\ NoConf \notin Config /\ NoReq \notin InFlight

TypeOK ==
  /\ peers \in [Peers -> Peer \cup {NoPeer}]
  /\ used \subseteq Peers
  /\ port \in Ports
  /\ links \subseteq Peers \X Tokens
  /\ conf \in Config \cup {NoConf}
  /\ live \in Config \cup {NoConf}
  /\ req \in [Requests -> InFlight \cup {NoReq}]
  /\ overlapped \in BOOLEAN

Init ==
  /\ peers = [p \in Peers |-> NoPeer]
  /\ used = {}
  /\ port \in Ports
  /\ links = {}
  /\ conf = NoConf
  /\ live = NoConf
  /\ req = [r \in Requests |-> NoReq]
  /\ overlapped = FALSE

Rows == {p \in Peers : peers[p] # NoPeer}

\* Mutant: disabled peers are rendered too.
Render_All == {<<p, peers[p].ip>> : p \in Rows}

\* The [Peer] blocks of RenderConfig: enabled peers only.
Render == {<<p, peers[p].ip>> : p \in {q \in Rows : peers[q].on}}

At(r, pc) == req[r] # NoReq /\ req[r].pc = pc
Go(r, pc) == req' = [req EXCEPT ![r] = [@ EXCEPT !.pc = pc]]
Done(r)   == req' = [req EXCEPT ![r] = NoReq]
Start(r, pc, op, p, ip, on) ==
  /\ req' = [req EXCEPT ![r] =
       [pc |-> pc, op |-> op, peer |-> p, ip |-> ip, on |-> on,
        snap |-> NoConf]]
  /\ overlapped' = (overlapped \/ \E q \in Requests \ {r} : req[q] # NoReq)

-----------------------------------------------------------------------------
(* handleVPNPeerCreate, -Toggle, -Delete: changing the row.                *)

FreeHosts == Hosts \ {peers[p].ip : p \in Rows}

\* NextVPNIP: the smallest free address; none free ends the request.
PickAddress(r) ==
  /\ req[r] = NoReq
  /\ \E h \in FreeHosts :
       /\ \A g \in FreeHosts : h <= g
       /\ Start(r, "insert", "create", NoPeer, h, TRUE)
  /\ UNCHANGED <<peers, used, port, links, conf, live>>

\* Mutant: allowed_ip without UNIQUE.
InsertPeer_NotUnique(r) ==
  /\ At(r, "insert")
  /\ \E p \in Peers \ used :
       /\ peers' = [peers EXCEPT ![p] = [ip |-> req[r].ip, on |-> TRUE]]
       /\ used' = used \cup {p}
       /\ req' = [req EXCEPT ![r] = [@ EXCEPT !.pc = "settings", !.peer = p, !.ip = 0]]
  /\ UNCHANGED <<port, links, conf, live, overlapped>>

\* CreateVPNPeer: allowed_ip is UNIQUE, a taken one is an error.
InsertPeer(r) ==
  /\ At(r, "insert")
  /\ IF req[r].ip \in FreeHosts
     THEN \E p \in Peers \ used :
            /\ peers' = [peers EXCEPT ![p] = [ip |-> req[r].ip, on |-> TRUE]]
            /\ used' = used \cup {p}
            /\ req' = [req EXCEPT ![r] = [@ EXCEPT !.pc = "settings", !.peer = p, !.ip = 0]]
     ELSE UNCHANGED <<peers, used>> /\ Done(r)
  /\ UNCHANGED <<port, links, conf, live, overlapped>>

LoadPeer(r) ==
  /\ req[r] = NoReq
  /\ \E p \in Rows : Start(r, "flip", "toggle", p, 0, peers[p].on)
  /\ UNCHANGED <<peers, used, port, links, conf, live>>

\* SetVPNPeerEnabled to the opposite of what was LOADED.
FlipPeer(r) ==
  /\ At(r, "flip")
  /\ LET p == req[r].peer IN
       peers' = IF p \in Rows THEN [peers EXCEPT ![p].on = ~req[r].on] ELSE peers
  /\ req' = [req EXCEPT ![r] = [@ EXCEPT !.pc = "settings", !.peer = NoPeer, !.on = FALSE]]
  /\ UNCHANGED <<used, port, links, conf, live, overlapped>>

\* DeleteVPNPeer asks nothing first.  Install links of the peer stay.
DeletePeer(r) ==
  /\ req[r] = NoReq
  /\ \E p \in Peers :
       /\ peers' = [peers EXCEPT ![p] = NoPeer]
       /\ Start(r, "settings", "delete", NoPeer, 0, FALSE)
  /\ UNCHANGED <<used, port, links, conf, live>>

-----------------------------------------------------------------------------
(* applyVPNConfig and Apply.                                               *)

\* An error while applying: only a creation undoes its row.
Fail(r) ==
  IF req[r].op = "create"
  THEN req' = [req EXCEPT ![r] = [@ EXCEPT !.pc = "undo", !.snap = NoConf]]
  ELSE Done(r)

ReadSettings(r) ==
  /\ At(r, "settings")
  /\ \/ req' = [req EXCEPT ![r] = [@ EXCEPT !.pc = "list",
                                            !.snap = [port |-> port, routes |-> {}]]]
     \/ Fail(r)
  /\ UNCHANGED <<peers, used, port, links, conf, live, overlapped>>

ListPeers(r) ==
  /\ At(r, "list")
  /\ \/ req' = [req EXCEPT ![r] = [@ EXCEPT !.pc = "write", !.snap.routes = Render]]
     \/ Fail(r)
  /\ UNCHANGED <<peers, used, port, links, conf, live, overlapped>>

\* Mutant: the new [Peer] blocks are appended to the old file.
WriteConf_Appends(r) ==
  /\ At(r, "write")
  /\ conf' = [req[r].snap EXCEPT !.routes = @ \cup (IF conf = NoConf THEN {} ELSE conf.routes)]
  /\ req' = [req EXCEPT ![r] = [@ EXCEPT !.pc = "reload", !.snap = NoConf]]
  /\ UNCHANGED <<peers, used, port, links, live, overlapped>>

\* os.WriteFile of the whole file, or an error that leaves it as it was
\* (wireguard-tools missing, no directory, not writable).
WriteConf(r) ==
  /\ At(r, "write")
  /\ \/ /\ conf' = req[r].snap
        /\ req' = [req EXCEPT ![r] = [@ EXCEPT !.pc = "reload", !.snap = NoConf]]
     \/ UNCHANGED conf /\ Fail(r)
  /\ UNCHANGED <<peers, used, port, links, live, overlapped>>

\* reload: wg syncconf or wg-quick up read the file that is on disk by then.
\* Reading it and loading it count as one step.  When nothing works the
\* interface keeps running what it ran, or, after the last resort (down, then
\* up), is down.
Reload(r) ==
  /\ At(r, "reload")
  /\ \/ live' = conf /\ Done(r)
     \/ live' \in {live, NoConf} /\ Fail(r)
  /\ UNCHANGED <<peers, used, port, links, conf, overlapped>>

Undo(r) ==
  /\ At(r, "undo")
  /\ peers' = [peers EXCEPT ![req[r].peer] = NoPeer]
  /\ Done(r)
  /\ UNCHANGED <<used, port, links, conf, live, overlapped>>

-----------------------------------------------------------------------------
(* Install links: handleVPNInstallLinkCreate, handleVPNInstallLinkRevoke.  *)

LoadPeerForLink(r) ==
  /\ req[r] = NoReq
  /\ \E p \in Rows : Start(r, "unlink", "link", p, 0, FALSE)
  /\ UNCHANGED <<peers, used, port, links, conf, live>>

LinksOf(p) == {l \in links : l[1] = p}

\* CreateVPNInstallLink, the DELETE ...
DropLink(r) ==
  /\ At(r, "unlink")
  /\ links' = links \ LinksOf(req[r].peer)
  /\ Go(r, "link")
  /\ UNCHANGED <<peers, used, port, conf, live, overlapped>>

\* ... and the INSERT, which the primary key peer_id may refuse.  Nothing refers
\* to vpn_peers: the peer may be gone by now.
InsertLink(r) ==
  /\ At(r, "link")
  /\ \E t \in Tokens \ {l[2] : l \in links} :
       links' = IF LinksOf(req[r].peer) = {} THEN links \cup {<<req[r].peer, t>>} ELSE links
  /\ Done(r)
  /\ UNCHANGED <<peers, used, port, conf, live, overlapped>>

RevokeLink(p) ==
  /\ LinksOf(p) # {}
  /\ links' = links \ LinksOf(p)
  /\ UNCHANGED <<peers, used, port, conf, live, req, overlapped>>

-----------------------------------------------------------------------------
(* The settings, and the end of a request.                                 *)

\* handleVPNSettingsUpdate: no re-apply.
UpdateSettings ==
  /\ \E n \in Ports \ {port} : port' = n
  /\ overlapped' = (overlapped \/ \E q \in Requests : req[q] # NoReq)
  /\ UNCHANGED <<peers, used, links, conf, live, req>>

\* The daemon dies under the request.
Lost(r) ==
  /\ req[r] # NoReq
  /\ Done(r)
  /\ UNCHANGED <<peers, used, port, links, conf, live, overlapped>>

Handle(r) ==
  \/ PickAddress(r)  \/ InsertPeer(r) \/ LoadPeer(r)  \/ FlipPeer(r)  \/ DeletePeer(r)
  \/ ReadSettings(r) \/ ListPeers(r)  \/ WriteConf(r) \/ Reload(r)    \/ Undo(r)
  \/ LoadPeerForLink(r) \/ DropLink(r) \/ InsertLink(r) \/ Lost(r)

Next ==
  \/ \E r \in Requests : Handle(r)
  \/ \E p \in Peers : RevokeLink(p)
  \/ UpdateSettings

Spec == Init /\ [][Next]_vars

-----------------------------------------------------------------------------
(* Properties.                                                             *)

\* A configuration gives no address to two peers.
OneRouteEach(c) == c # NoConf => \A x, y \in c.routes : x[2] = y[2] => x[1] = y[1]

\* Two devices never share an address: not in the table, though NextVPNIP and
\* the insert race; not in the file or on the interface, though addresses of
\* deleted peers are given out again and stale configurations get written.
UniqueAddresses ==
  /\ \A p, q \in Rows : peers[p].ip = peers[q].ip => p = q
  /\ OneRouteEach(conf) /\ OneRouteEach(live)

\* "at most one active link per peer" (CreateVPNInstallLink), also when two
\* admins make one at once.
OneLinkPerPeer == \A k, l \in links : k[1] = l[1] => k = l

\* Applying repairs: when handlers run one after another, every configuration the
\* interface is brought to is exactly the enabled peers and the port of the
\* database, whatever failed, was undone or crashed before ("always regenerates
\* the whole file").
AppliedIsView ==
  [][~overlapped => \A r \in Requests : At(r, "reload") /\ live' # live /\ live' # NoConf
       => live' = [port |-> port, routes |-> Render]]_vars

\* "Only Enabled peers are ever written to disk; disabling one removes it from
\* the live config" (Peer): what is written was not disabled meanwhile.  (The
\* list an overlapping request has read may be older than that.)
OnlyEnabledWritten ==
  [][~overlapped /\ conf' # conf =>
       \A x \in conf'.routes : x[1] \in Rows /\ peers[x[1]].on]_vars

\* "never leave a broken half-applied change behind" (handleVPNPeerCreate): a
\* peer whose creation was rolled back is not in the file either.
RollbackIsWhole ==
  [][\A r \in Requests :
       At(r, "undo") /\ peers' # peers /\ conf # NoConf
         => \A x \in conf.routes : x[1] # req[r].peer]_vars
=============================================================================
