--------------------------- MODULE Services_proofs ---------------------------
(***************************************************************************)
(* Theorems about what the panel keeps of other programs: nginx's sites    *)
(* and the files of cron, dnsmasq and the mail daemons.                    *)
(***************************************************************************)
EXTENDS Sites, GeneratedFiles, TLAPS

(***************************************************************************)
(* Sites, for any domains and any number of requests, one after another:   *)
(* rows match vhosts as long as nothing but certbot fails, and nginx       *)
(* accepts what the panel has left, whatever fails.                        *)
(*                                                                         *)
(* SitesInv says of every host that nobody works on that it is Settled,    *)
(* and of the request at work which of its changes are made and can still  *)
(* be taken back (Turn). That certificates are there first (CertInv) holds *)
(* in every interleaving.                                                  *)
(***************************************************************************)

Pcs   == {"write", "link", "unlink", "remove", "test", "reload", "row", "cert", "upgrade", "restore"}
Slots == [Requests -> InFlight \cup {NoReq}]

OthersIdle(r) == \A s \in Requests \ {r} : req[s] = NoReq

\* What a host is between requests: its link has a file, its file a row, and as long
\* as nothing but certbot failed the link follows the row's status.
Settled(h) ==
  /\ h \in enabled => avail[h] # "none"
  /\ h \in Domains => (avail[h] # "none" <=> HasRow(h))
  /\ ~failed => IF h = Panel THEN proxy = avail[Panel]
                ELSE h \in enabled <=>
                       \E i \in Rows : sites[i].domain = h /\ sites[i].status = "enabled"

\* How far a request on its own has brought its host, handler by handler.
Creating(q) ==
  LET h == q.host IN
    /\ h \in Domains /\ q.id \in Ids \ used /\ ~HasRow(h)
    /\ q.pc \in {"write", "link", "test", "reload", "row", "unlink", "remove"}
    /\ q.pc = "write" => avail[h] = "none"
    /\ q.pc \in {"write", "link", "remove"} => h \notin enabled
    /\ q.pc \in {"link", "test", "reload", "row", "unlink"} => avail[h] # "none"
    /\ q.pc \in {"test", "reload", "row", "unlink"} => h \in enabled

OnRow(q) == q.id \in Rows /\ sites[q.id].domain = q.host

Toggling(q) ==
  LET h == q.host IN
    /\ OnRow(q) /\ avail[h] # "none"
    /\ q.on <=> sites[q.id].status = "disabled"
    /\ q.pc \in {"link", "unlink", "test", "reload", "row"}
    /\ q.pc = "link" => q.on
    /\ q.pc = "unlink" /\ q.on => failed
    /\ q.pc \in {"test", "reload", "row"} => (q.on <=> h \in enabled)

Deleting(q) ==
  LET h == q.host IN
    /\ OnRow(q)
    /\ q.pc \in {"unlink", "remove", "test", "reload", "row"}
    /\ q.pc # "unlink" => h \notin enabled
    /\ q.pc \in {"test", "reload", "row"} => avail[h] = "none"

Securing(q) ==
  LET h == q.host IN
    /\ OnRow(q) /\ avail[h] # "none"
    /\ q.pc \in {"cert", "upgrade", "test", "reload", "restore"}
    /\ ~failed => (h \in enabled <=> sites[q.id].status = "enabled")
    /\ q.pc \in {"test", "restore"} => q.old # "none"

Fronting(q) ==
  /\ q.host = Panel
  /\ q.pc # "remove" /\ Panel \in enabled => avail[Panel] # "none"
  /\ q.pc \in {"link", "test", "reload", "row", "unlink"} =>
       avail[Panel] = IF q.on THEN "ssl" ELSE "http"
  /\ q.pc \in {"unlink", "remove", "restore"} => failed
  /\ q.pc = "remove" => Panel \notin enabled
  /\ q.pc \in {"cert", "upgrade"} => avail[Panel] # "none" /\ (~failed => proxy = avail[Panel])
  /\ q.pc \in {"write", "unlink"} => ~q.on
  /\ q.pc = "restore" => avail[Panel] # "none"
  /\ q.on => q.old # "none"

Turn(q) ==
  /\ q.op = "create" => Creating(q)
  /\ q.op = "toggle" => Toggling(q)
  /\ q.op = "delete" => Deleting(q)
  /\ q.op = "ssl" => Securing(q)
  /\ q.op = "panel" => Fronting(q)

\* What a request is about.
Formed(q) == IF q.op = "panel" THEN q.host = Panel ELSE q.host \in Domains /\ q.id \in Ids

TypeInv == TypeOK /\ \A r \in Requests : req[r] # NoReq => Formed(req[r])

\* Whatever interleaves, nobody is given HTTPS without a certificate.
CertInv ==
  /\ TypeInv
  /\ \A h \in Hosts : avail[h] = "ssl" => h \in certs
  /\ \A r \in Requests : req[r] # NoReq =>
       /\ req[r].pc = "upgrade" => req[r].host \in certs
       /\ req[r].old = "ssl" => req[r].host \in certs

Tidy ==
  /\ Rows \subseteq used
  /\ \A i, j \in Rows : sites[i].domain = sites[j].domain => i = j
  /\ \A h \in Hosts : (\A r \in Requests : req[r] # NoReq => req[r].host # h) => Settled(h)
  /\ \A r \in Requests : req[r] # NoReq => OthersIdle(r) /\ Turn(req[r])

SitesInv ==
  /\ CertInv
  /\ ~failed => sound
  /\ ~torn => Tidy

-----------------------------------------------------------------------------
(* Slots.                                                                  *)

LEMMA SlotFields ==
  ASSUME TypeOK, NEW r \in Requests, req[r] # NoReq
  PROVE  /\ req[r] \in InFlight /\ req[r].host \in Hosts /\ req[r].id \in Ids \cup {NoRow}
         /\ req[r].on \in BOOLEAN /\ req[r].old \in Vhosts /\ req[r].pc \in Pcs
         /\ req[r].op \in {"create", "toggle", "delete", "ssl", "panel"}
BY DEF TypeOK, InFlight, Pcs

LEMMA GoFields ==
  ASSUME TypeOK, NEW r \in Requests, req[r] # NoReq, NEW pc \in Pcs, Go(r, pc)
  PROVE  /\ req' \in Slots /\ \A s \in Requests \ {r} : req'[s] = req[s]
         /\ req'[r] # NoReq /\ req'[r].pc = pc /\ req'[r].op = req[r].op
         /\ req'[r].host = req[r].host /\ req'[r].id = req[r].id
         /\ req'[r].on = req[r].on /\ req'[r].old = req[r].old
<1> DEFINE q == [req[r] EXCEPT !.pc = pc]
<1>1. /\ q \in InFlight /\ q.pc = pc /\ q.op = req[r].op /\ q.host = req[r].host
      /\ q.id = req[r].id /\ q.on = req[r].on /\ q.old = req[r].old
  BY SlotFields DEF InFlight, Pcs
<1>2. req' = [req EXCEPT ![r] = q]
  BY DEF Go
<1> HIDE DEF q
<1> QED BY <1>1, <1>2, NothingsDiffer DEF TypeOK, Slots

LEMMA DoneFields ==
  ASSUME TypeOK, NEW r \in Requests, Done(r)
  PROVE  /\ req' \in Slots /\ \A s \in Requests \ {r} : req'[s] = req[s]
         /\ req'[r] = NoReq
BY DEF Done, TypeOK, Slots

LEMMA UpgradeFields ==
  ASSUME TypeOK, NEW r \in Requests, req[r] # NoReq, Upgrade(r)
  PROVE  /\ req' \in Slots /\ \A s \in Requests \ {r} : req'[s] = req[s]
         /\ req'[r] # NoReq /\ req'[r].pc = "test" /\ req'[r].op = req[r].op
         /\ req'[r].host = req[r].host /\ req'[r].id = req[r].id
         /\ req'[r].on = TRUE /\ req'[r].old = avail[req[r].host]
<1> DEFINE old == avail[req[r].host]
           q   == [req[r] EXCEPT !.pc = "test", !.on = TRUE, !.old = old]
<1>1. old \in Vhosts /\ req[r] \in InFlight
  BY SlotFields DEF TypeOK
<1>2. req' = [req EXCEPT ![r] = q] /\ old = avail[req[r].host]
  BY DEF Upgrade
<1> HIDE DEF old
<1>3. /\ q \in InFlight /\ q.pc = "test" /\ q.op = req[r].op /\ q.host = req[r].host
      /\ q.id = req[r].id /\ q.on = TRUE /\ q.old = old
  BY <1>1 DEF InFlight
<1> HIDE DEF q
<1> QED BY <1>2, <1>3, NothingsDiffer DEF TypeOK, Slots

LEMMA StartFields ==
  ASSUME TypeOK, NEW r \in Requests, NEW pc \in Pcs,
         NEW op \in {"create", "toggle", "delete", "ssl", "panel"}, NEW h \in Hosts,
         NEW i \in Ids \cup {NoRow}, NEW on \in BOOLEAN, Start(r, pc, op, h, i, on)
  PROVE  /\ req[r] = NoReq /\ req' \in Slots /\ \A s \in Requests \ {r} : req'[s] = req[s]
         /\ req'[r] # NoReq /\ req'[r].pc = pc /\ req'[r].op = op
         /\ req'[r].host = h /\ req'[r].id = i /\ req'[r].on = on /\ req'[r].old = "none"
<1> DEFINE q == [pc |-> pc, op |-> op, host |-> h, id |-> i, on |-> on, old |-> "none"]
<1>1. /\ q \in InFlight /\ q.pc = pc /\ q.op = op /\ q.host = h /\ q.id = i /\ q.on = on
      /\ q.old = "none"
  BY DEF InFlight, Pcs, Vhosts
<1>2. req[r] = NoReq /\ req' = [req EXCEPT ![r] = q]
  BY DEF Start
<1> HIDE DEF q
<1> QED BY <1>1, <1>2, NothingsDiffer DEF TypeOK, Slots

\* A step of a handler moves its own slot.
LEMMA OneSlot ==
  ASSUME TypeOK, NEW r \in Requests, Handle(r)
  PROVE  /\ req[r] # NoReq /\ req' \in Slots
         /\ \A s \in Requests \ {r} : req'[s] = req[s]
         /\ req'[r] # NoReq =>
              /\ req'[r].op = req[r].op /\ req'[r].host = req[r].host /\ req'[r].id = req[r].id
              /\ req'[r].pc = "upgrade" => IssueCertificate(r) /\ certs' = certs \cup {req[r].host}
              /\ Upgrade(r) \/ (req'[r].on = req[r].on /\ req'[r].old = req[r].old)
<1>1. req[r] # NoReq
  BY DEF Handle, WriteVhost, Link, Unlink, RemoveConf, TestConfig, Reload, IssueCertificate, Upgrade,
         Restore, InsertSite, SetSiteStatus, DeleteSite, SetPanelProxyConfigured, At
<1>2. CASE Upgrade(r)
  BY <1>1, <1>2, UpgradeFields
<1>3. CASE IssueCertificate(r)
  BY <1>1, <1>3, GoFields, DoneFields DEF IssueCertificate, Pcs
<1>4. CASE ~Upgrade(r) /\ ~IssueCertificate(r)
  <2>1. Done(r) \/ \E pc \in Pcs \ {"upgrade"} : Go(r, pc)
    BY <1>1, <1>4
    DEF Handle, WriteVhost, Link, Unlink, RemoveConf, TestConfig, Reload, Restore, InsertSite,
        SetSiteStatus, DeleteSite, SetPanelProxyConfigured, Pcs
  <2> QED
    BY <1>1, <2>1, GoFields, DoneFields
<1> QED BY <1>2, <1>3, <1>4

-----------------------------------------------------------------------------
(* Types and certificates, whatever interleaves.                           *)

\* Every request starts well formed.
LEMMA Started ==
  ASSUME TypeOK, NEW r \in Requests, Receive(r)
  PROVE  /\ req[r] = NoReq /\ req' \in Slots /\ \A s \in Requests \ {r} : req'[s] = req[s]
         /\ req'[r] # NoReq /\ Formed(req'[r]) /\ req'[r].old = "none"
         /\ req'[r].pc # "upgrade"
<1>1. \A i \in Rows : sites[i].domain \in Domains /\ i \in Ids /\ (sites[i].status = "disabled") \in BOOLEAN
  BY DEF Rows, TypeOK, Site
<1>2. \/ \E op \in {"create", "toggle", "delete", "ssl"}, pc \in Pcs \ {"upgrade"}, h \in Domains,
            i \in Ids, on \in BOOLEAN : Start(r, pc, op, h, i, on)
      \/ Start(r, "write", "panel", Panel, NoRow, FALSE)
  <2>1. CASE StartCreate(r)
    BY <2>1 DEF StartCreate, Pcs
  <2>2. CASE StartToggle(r)
    BY <1>1, <2>2 DEF StartToggle, Pcs
  <2>3. CASE StartDelete(r) \/ StartSSL(r)
    BY <1>1, <2>3 DEF StartDelete, StartSSL, Pcs
  <2> QED BY <2>1, <2>2, <2>3 DEF Receive, StartPanel
<1>3. CASE \E op \in {"create", "toggle", "delete", "ssl"}, pc \in Pcs \ {"upgrade"}, h \in Domains,
              i \in Ids, on \in BOOLEAN : Start(r, pc, op, h, i, on)
  BY <1>3, StartFields DEF Formed, Hosts
<1>4. CASE Start(r, "write", "panel", Panel, NoRow, FALSE)
  BY <1>4, StartFields DEF Formed, Hosts, Pcs
<1> QED BY <1>2, <1>3, <1>4

LEMMA SitesTypes == TypeInv /\ [Next]_vars => TypeInv'
<1> SUFFICES ASSUME TypeInv, [Next]_vars PROVE TypeInv'
  OBVIOUS
<1>1. CASE UNCHANGED vars
  BY <1>1 DEF TypeInv, TypeOK, Formed, vars
<1>2. CASE ForeignEdit \/ Crash
  BY <1>2 DEF TypeInv, TypeOK, ForeignEdit, Crash
<1>3. ASSUME NEW r \in Requests, Receive(r) PROVE TypeInv'
  BY <1>3, Started DEF Receive, TypeInv, TypeOK, Slots
<1>4. ASSUME NEW r \in Requests, Handle(r) PROVE TypeInv'
  <2>1. /\ req' \in Slots /\ req[r] # NoReq
        /\ \A s \in Requests : req'[s] # NoReq => Formed(req'[s])
    BY <1>4, OneSlot DEF TypeInv, Formed
  <2>2. /\ req[r].host \in Hosts /\ req[r].id \in Ids \cup {NoRow} /\ req[r].old \in Vhosts
        /\ req[r].on \in BOOLEAN /\ Formed(req[r])
    BY <2>1, SlotFields DEF TypeInv
  <2>3. avail' \in [Hosts -> Vhosts] /\ enabled' \subseteq Hosts /\ certs' \subseteq Hosts
    BY <1>4, <2>2
    DEF Handle, WriteVhost, Link, Unlink, RemoveConf, TestConfig, Reload, IssueCertificate, Upgrade,
        Restore, InsertSite, SetSiteStatus, DeleteSite, SetPanelProxyConfigured, TypeInv, TypeOK,
        Vhosts
  <2>4. /\ proxy' \in Vhosts /\ sound' \in BOOLEAN /\ torn' \in BOOLEAN /\ failed' \in BOOLEAN
    BY <1>4
    DEF Handle, WriteVhost, Link, Unlink, RemoveConf, TestConfig, Reload, IssueCertificate, Upgrade,
        Restore, InsertSite, SetSiteStatus, DeleteSite, SetPanelProxyConfigured, TypeInv, TypeOK,
        Vhosts
  <2>5. sites' \in [Ids -> Site \cup {NoRow}] /\ used' \subseteq Ids
    <3>1. CASE InsertSite(r)
      BY <3>1, <2>2 DEF InsertSite, At, NewSite, Formed, TypeInv, TypeOK, Site
    <3>2. CASE SetSiteStatus(r)
      BY <3>2 DEF SetSiteStatus, Rows, TypeInv, TypeOK, Site
    <3>3. CASE DeleteSite(r)
      BY <3>3 DEF DeleteSite, TypeInv, TypeOK
    <3>4. CASE ~InsertSite(r) /\ ~SetSiteStatus(r) /\ ~DeleteSite(r)
      BY <1>4, <3>4
      DEF Handle, WriteVhost, Link, Unlink, RemoveConf, TestConfig, Reload, IssueCertificate,
          Upgrade, Restore, SetPanelProxyConfigured, TypeInv, TypeOK
    <3> QED BY <3>1, <3>2, <3>3, <3>4
  <2> QED BY <2>1, <2>3, <2>4, <2>5 DEF TypeInv, TypeOK, Slots
<1> QED BY <1>1, <1>2, <1>3, <1>4 DEF Next

LEMMA CertNext == CertInv /\ [Next]_vars => CertInv'
<1> SUFFICES ASSUME CertInv, [Next]_vars PROVE CertInv'
  OBVIOUS
<1>1. TypeInv /\ TypeInv' /\ TypeOK
  BY SitesTypes DEF CertInv, TypeInv
<1>2. CASE UNCHANGED vars
  BY <1>1, <1>2 DEF CertInv, vars
<1>3. CASE ForeignEdit \/ Crash
  BY <1>1, <1>3 DEF CertInv, ForeignEdit, Crash
<1>4. ASSUME NEW r \in Requests, Receive(r) PROVE CertInv'
  <2>1. avail' = avail /\ certs' = certs
    BY <1>4 DEF Receive
  <2> QED BY <1>1, <1>4, <2>1, Started DEF CertInv
<1>5. ASSUME NEW r \in Requests, Handle(r) PROVE CertInv'
  <2>1. /\ req[r] # NoReq /\ req[r].host \in Hosts /\ avail \in [Hosts -> Vhosts]
        /\ req[r].pc = "upgrade" => req[r].host \in certs
        /\ req[r].old = "ssl" => req[r].host \in certs
    BY <1>1, <1>5, OneSlot, SlotFields DEF CertInv, TypeOK
  <2>2. certs \subseteq certs'
    BY <1>5
    DEF Handle, WriteVhost, Link, Unlink, RemoveConf, TestConfig, Reload, IssueCertificate, Upgrade,
        Restore, InsertSite, SetSiteStatus, DeleteSite, SetPanelProxyConfigured
  <2>3. \A h \in Hosts : avail'[h] = "ssl" => avail[h] = "ssl" \/ (h = req[r].host /\ h \in certs)
    BY <1>5, <2>1
    DEF Handle, WriteVhost, Link, Unlink, RemoveConf, TestConfig, Reload, IssueCertificate, Upgrade,
        Restore, InsertSite, SetSiteStatus, DeleteSite, SetPanelProxyConfigured, At
  <2>4. \A h \in Hosts : avail'[h] = "ssl" => h \in certs'
    BY <2>2, <2>3 DEF CertInv
  <2>5. ASSUME req'[r] # NoReq
        PROVE  /\ req'[r].pc = "upgrade" => req'[r].host \in certs'
               /\ req'[r].old = "ssl" => req'[r].host \in certs'
    <3>1. CASE Upgrade(r)
      <4>1. /\ req'[r].pc = "test" /\ req'[r].host = req[r].host
            /\ req'[r].old = avail[req[r].host]
        BY <1>1, <2>1, <3>1, UpgradeFields
      <4>2. avail[req[r].host] = "ssl" => req[r].host \in certs
        BY <2>1 DEF CertInv
      <4> QED BY <2>2, <4>1, <4>2
    <3>2. CASE ~Upgrade(r)
      BY <1>1, <1>5, <2>1, <2>2, <2>5, <3>2, OneSlot
    <3> QED BY <3>1, <3>2
  <2>6. \A s \in Requests \ {r} : req'[s] = req[s]
    BY <1>1, <1>5, OneSlot
  <2> QED BY <1>1, <2>2, <2>4, <2>5, <2>6 DEF CertInv
<1> QED BY <1>2, <1>3, <1>4, <1>5 DEF Next

-----------------------------------------------------------------------------
(* One request after another.                                              *)

\* What a handler on its own can rely on: it is well formed, everything but its host
\* is settled, and nginx -t has nothing to object to unless something failed.
Alone(r) ==
  /\ CertInv /\ (~failed => sound) /\ ~torn
  /\ Rows \subseteq used
  /\ \A i, j \in Rows : sites[i].domain = sites[j].domain => i = j
  /\ \A h \in Hosts \ {req[r].host} : Settled(h)
  /\ Turn(req[r])

\* Unless something failed before, nginx -t accepts what a handler on its own leaves.
LEMMA Passes ==
  ASSUME NEW r \in Requests, Alone(r), req[r] # NoReq, req[r].pc = "test", ~failed
  PROVE  ConfigOK
<1>1. TypeOK /\ TypeInv /\ Formed(req[r])
  BY DEF Alone, CertInv, TypeInv
<1>2. \A h \in Hosts : avail[h] = "ssl" => h \in certs
  BY DEF Alone, CertInv
<1>3. req[r].host \in enabled => avail[req[r].host] # "none"
  BY <1>1, SlotFields DEF Alone, Turn, Creating, Toggling, Deleting, Securing, Fronting
<1>4. \A h \in enabled : h \in Hosts /\ avail[h] # "none"
  BY <1>1, <1>3 DEF Alone, Settled, TypeOK
<1> QED BY <1>2, <1>4 DEF ConfigOK, Alone

\* What a step of a handler leaves as it is.
LEMMA Untouched ==
  ASSUME NEW r \in Requests, Alone(r), Handle(r), NEW h \in Hosts \ {req[r].host}
  PROVE  Settled(h)'
<1>1. TypeOK /\ req[r] # NoReq /\ Formed(req[r]) /\ Settled(h)
  BY OneSlot DEF Alone, CertInv, TypeInv
<1>2. /\ avail'[h] = avail[h]
      /\ h \in enabled' <=> h \in enabled
      /\ ~failed' => ~failed
  BY <1>1
  DEF Handle, WriteVhost, Link, Unlink, RemoveConf, TestConfig, Reload, IssueCertificate, Upgrade,
      Restore, InsertSite, SetSiteStatus, DeleteSite, SetPanelProxyConfigured, TypeOK
<1>3. h = Panel => proxy' = proxy
  BY <1>1
  DEF Handle, WriteVhost, Link, Unlink, RemoveConf, TestConfig, Reload, IssueCertificate, Upgrade,
      Restore, InsertSite, SetSiteStatus, DeleteSite, SetPanelProxyConfigured, At, Formed
<1>4. \A i \in Ids : \/ sites'[i] = sites[i]
                     \/ /\ sites'[i] # NoRow => sites'[i].domain = req[r].host
                        /\ sites[i] # NoRow => sites[i].domain = req[r].host
  <2>1. CASE InsertSite(r)
    BY <1>1, <2>1 DEF InsertSite, NewSite, At, Alone, Turn, Creating, Rows, TypeOK
  <2>2. CASE SetSiteStatus(r)
    <3>1. OnRow(req[r])
      BY <2>2 DEF SetSiteStatus, At, Alone, Turn, Toggling
    <3>2. sites[req[r].id] \in Site
      BY <1>1, <3>1 DEF OnRow, Rows, TypeOK
    <3> QED
      BY <1>1, <2>2, <3>1, <3>2 DEF SetSiteStatus, OnRow, Site, TypeOK
  <2>3. CASE DeleteSite(r)
    BY <1>1, <2>3 DEF DeleteSite, At, Alone, Turn, Deleting, OnRow, TypeOK
  <2>4. CASE ~InsertSite(r) /\ ~SetSiteStatus(r) /\ ~DeleteSite(r)
    BY <2>4
    DEF Handle, WriteVhost, Link, Unlink, RemoveConf, TestConfig, Reload, IssueCertificate, Upgrade,
        Restore, SetPanelProxyConfigured
  <2> QED BY <2>1, <2>2, <2>3, <2>4
<1>5. \A i \in Ids : (sites'[i] # NoRow /\ sites'[i].domain = h)
                       <=> (sites[i] # NoRow /\ sites[i].domain = h)
  BY <1>4
<1>6. HasRow(h)' <=> HasRow(h)
  BY <1>5 DEF HasRow, Rows
<1>7. (\E i \in Rows : sites[i].domain = h /\ sites[i].status = "enabled")'
        <=> \E i \in Rows : sites[i].domain = h /\ sites[i].status = "enabled"
  BY <1>4, <1>5 DEF Rows
<1>8. (h \in enabled => avail[h] # "none")' /\ (h \in Domains => (avail[h] # "none" <=> HasRow(h)))'
  BY <1>1, <1>2, <1>6 DEF Settled
<1>9. ASSUME ~failed'
      PROVE  (IF h = Panel THEN proxy = avail[Panel]
              ELSE h \in enabled <=>
                     \E i \in Rows : sites[i].domain = h /\ sites[i].status = "enabled")'
  BY <1>1, <1>2, <1>3, <1>7, <1>9 DEF Settled
<1> QED BY <1>8, <1>9 DEF Settled

\* What a handler that creates a site leaves at its host.
LEMMA CreateStep ==
  ASSUME NEW r \in Requests, NEW h \in Hosts, Alone(r), Handle(r),
         req[r].op = "create", req[r].host = h
  PROVE  IF req'[r] = NoReq THEN Settled(h)' ELSE Turn(req[r])'
<1>1. /\ TypeOK /\ req[r] # NoReq /\ avail \in [Hosts -> Vhosts] /\ sites \in [Ids -> Site \cup {NoRow}]
      /\ Creating(req[r]) /\ h \in Domains /\ h # Panel /\ req[r].id \in Ids
  BY OneSlot, PanelIsNoSite DEF Alone, CertInv, TypeInv, TypeOK, Turn, Creating
<1>2. req[r].pc = "test" /\ ~failed => ConfigOK
  BY <1>1, Passes
<1>3. ASSUME NEW pc \in Pcs, Go(r, pc)
      PROVE  /\ req'[r] # NoReq /\ req'[r].pc = pc /\ req'[r].op = "create"
             /\ req'[r].host = h /\ req'[r].id = req[r].id
  BY <1>1, <1>3, GoFields
<1>4. Done(r) => req'[r] = NoReq
  BY <1>1, DoneFields
<1>5. /\ "link" \in Pcs /\ "test" \in Pcs /\ "reload" \in Pcs /\ "row" \in Pcs /\ "unlink" \in Pcs
      /\ "remove" \in Pcs
  BY DEF Pcs
<1>6. CASE WriteVhost(r)
  BY <1>1, <1>3, <1>5, <1>6 DEF WriteVhost, At, Turn, Creating, HasRow, Rows
<1>7. CASE Link(r)
  BY <1>1, <1>3, <1>5, <1>7 DEF Link, At, Turn, Creating, HasRow, Rows
<1>8. CASE Unlink(r)
  BY <1>1, <1>3, <1>5, <1>8 DEF Unlink, At, Turn, Creating, HasRow, Rows
<1>9. CASE RemoveConf(r)
  BY <1>1, <1>4, <1>9 DEF RemoveConf, At, Creating, Settled, HasRow, Rows
<1>10. CASE TestConfig(r)
  BY <1>1, <1>3, <1>5, <1>10 DEF TestConfig, At, Turn, Creating, HasRow, Rows
<1>11. CASE Reload(r)
  BY <1>1, <1>3, <1>5, <1>11 DEF Reload, At, Turn, Creating, HasRow, Rows
<1>12. CASE InsertSite(r)
  <2>1. /\ sites' = [sites EXCEPT ![req[r].id] = [domain |-> h, status |-> "enabled"]]
        /\ avail' = avail /\ enabled' = enabled /\ req[r].pc = "row" /\ Done(r)
    BY <1>1, <1>12 DEF InsertSite, NewSite, At, Creating
  <2>2. sites'[req[r].id] = [domain |-> h, status |-> "enabled"]
    BY <1>1, <2>1
  <2>3. sites'[req[r].id] # NoRow
    BY <1>1, <2>2, NothingsDiffer DEF Site
  <2>4. req[r].id \in Rows'
    BY <1>1, <2>3 DEF Rows
  <2> QED
    BY <1>1, <1>4, <2>1, <2>2, <2>4 DEF Settled, Creating, HasRow
<1> QED
  BY <1>1, <1>6, <1>7, <1>8, <1>9, <1>10, <1>11, <1>12
  DEF Handle, IssueCertificate, Upgrade, Restore, SetSiteStatus, DeleteSite, SetPanelProxyConfigured,
      At, Creating

\* A host whose row is the one the request is about.
LEMMA RowOfHost ==
  ASSUME NEW r \in Requests, Alone(r), OnRow(req[r])
  PROVE  /\ req[r].id \in Ids /\ sites[req[r].id] \in Site /\ HasRow(req[r].host)
         /\ req[r].host \in Domains
         /\ \A i \in Rows : sites[i].domain = req[r].host <=> i = req[r].id
BY DEF Alone, OnRow, Rows, HasRow, CertInv, TypeInv, TypeOK, Site

LEMMA ToggleStep ==
  ASSUME NEW r \in Requests, NEW h \in Hosts, Alone(r), Handle(r),
         req[r].op = "toggle", req[r].host = h
  PROVE  IF req'[r] = NoReq THEN Settled(h)' ELSE Turn(req[r])'
<1>1. /\ TypeOK /\ req[r] # NoReq /\ avail \in [Hosts -> Vhosts] /\ sites \in [Ids -> Site \cup {NoRow}]
      /\ Toggling(req[r]) /\ OnRow(req[r]) /\ req[r].on \in BOOLEAN
  BY OneSlot, SlotFields DEF Alone, CertInv, TypeInv, TypeOK, Turn, Toggling
<1>2. req[r].pc = "test" /\ ~failed => ConfigOK
  BY <1>1, Passes
<1>3. ASSUME NEW pc \in Pcs, Go(r, pc)
      PROVE  /\ req'[r] # NoReq /\ req'[r].pc = pc /\ req'[r].op = "toggle"
             /\ req'[r].host = h /\ req'[r].id = req[r].id /\ req'[r].on = req[r].on
  BY <1>1, <1>3, GoFields
<1>4. Done(r) => req'[r] = NoReq
  BY <1>1, DoneFields
<1>5. "test" \in Pcs /\ "reload" \in Pcs /\ "row" \in Pcs /\ "unlink" \in Pcs
  BY DEF Pcs
<1>6. /\ req[r].id \in Ids /\ sites[req[r].id] \in Site /\ HasRow(h) /\ h \in Domains /\ h # Panel
      /\ \A i \in Rows : sites[i].domain = h <=> i = req[r].id
  BY <1>1, RowOfHost, PanelIsNoSite
<1>7. CASE Link(r)
  BY <1>1, <1>3, <1>5, <1>7 DEF Link, At, Turn, Toggling, OnRow, Rows
<1>8. CASE Unlink(r)
  <2>1. CASE req[r].on
    BY <1>1, <1>4, <1>6, <1>8, <2>1 DEF Unlink, At, Settled, Toggling, HasRow, Rows
  <2>2. CASE ~req[r].on
    BY <1>1, <1>3, <1>5, <1>8, <2>2 DEF Unlink, At, Turn, Toggling, OnRow, Rows
  <2> QED BY <2>1, <2>2
<1>9. CASE TestConfig(r)
  <2>1. CASE ConfigOK
    BY <1>1, <1>3, <1>5, <1>9, <2>1 DEF TestConfig, At, Turn, Toggling, OnRow, Rows
  <2>2. CASE ~ConfigOK /\ req[r].on
    BY <1>1, <1>2, <1>3, <1>5, <1>9, <2>2 DEF TestConfig, At, Turn, Toggling, OnRow, Rows
  <2>3. CASE ~ConfigOK /\ ~req[r].on
    BY <1>1, <1>2, <1>4, <1>6, <1>9, <2>3 DEF TestConfig, At, Settled, Toggling, HasRow, Rows
  <2> QED BY <2>1, <2>2, <2>3
<1>10. CASE Reload(r)
  <2>1. CASE Go(r, "row")
    BY <1>1, <1>3, <1>5, <1>10, <2>1 DEF Reload, At, Turn, Toggling, OnRow, Rows
  <2>2. CASE ~Go(r, "row")
    BY <1>1, <1>4, <1>6, <1>10, <2>2 DEF Reload, At, Settled, Toggling, HasRow, Rows
  <2> QED BY <2>1, <2>2
<1>11. CASE SetSiteStatus(r)
  <2>1. /\ avail' = avail /\ enabled' = enabled /\ Done(r) /\ req[r].pc = "row"
        /\ sites' = [sites EXCEPT ![req[r].id].status = IF req[r].on THEN "enabled" ELSE "disabled"]
    BY <1>1, <1>11 DEF SetSiteStatus, At, OnRow
  <2>2. /\ sites'[req[r].id] \in Site /\ sites'[req[r].id].domain = h
        /\ sites'[req[r].id].status = (IF req[r].on THEN "enabled" ELSE "disabled")
    BY <1>1, <1>6, <2>1 DEF Site, OnRow
  <2>3. \A i \in Ids \ {req[r].id} : sites'[i] = sites[i]
    BY <1>1, <2>1
  <2>4. Rows' = Rows
    BY <1>1, <1>6, <2>2, <2>3, NothingsDiffer DEF Rows, OnRow
  <2>5. \A i \in Rows : i \in Ids /\ (sites'[i].domain = h <=> i = req[r].id)
    BY <1>6, <2>2, <2>3 DEF Rows
  <2>6. req[r].id \in Rows
    BY <1>1 DEF OnRow
  <2> QED
    BY <1>1, <1>4, <1>6, <2>1, <2>2, <2>4, <2>5, <2>6 DEF Settled, Toggling, HasRow
<1> QED
  BY <1>1, <1>7, <1>8, <1>9, <1>10, <1>11
  DEF Handle, WriteVhost, RemoveConf, IssueCertificate, Upgrade, Restore, InsertSite, DeleteSite,
      SetPanelProxyConfigured, At, Toggling

LEMMA DeleteStep ==
  ASSUME NEW r \in Requests, NEW h \in Hosts, Alone(r), Handle(r),
         req[r].op = "delete", req[r].host = h
  PROVE  IF req'[r] = NoReq THEN Settled(h)' ELSE Turn(req[r])'
<1>1. /\ TypeOK /\ req[r] # NoReq /\ avail \in [Hosts -> Vhosts] /\ sites \in [Ids -> Site \cup {NoRow}]
      /\ Deleting(req[r]) /\ OnRow(req[r])
  BY OneSlot DEF Alone, CertInv, TypeInv, TypeOK, Turn, Deleting
<1>2. ASSUME NEW pc \in Pcs, Go(r, pc)
      PROVE  /\ req'[r] # NoReq /\ req'[r].pc = pc /\ req'[r].op = "delete"
             /\ req'[r].host = h /\ req'[r].id = req[r].id
  BY <1>1, <1>2, GoFields
<1>3. Done(r) => req'[r] = NoReq
  BY <1>1, DoneFields
<1>4. "test" \in Pcs /\ "reload" \in Pcs /\ "row" \in Pcs /\ "remove" \in Pcs
  BY DEF Pcs
<1>5. /\ req[r].id \in Ids /\ h \in Domains /\ h # Panel
      /\ \A i \in Rows : sites[i].domain = h <=> i = req[r].id
  BY <1>1, RowOfHost, PanelIsNoSite
<1>6. CASE Unlink(r)
  BY <1>1, <1>2, <1>4, <1>6 DEF Unlink, At, Turn, Deleting, OnRow, Rows
<1>7. CASE RemoveConf(r)
  BY <1>1, <1>2, <1>4, <1>7 DEF RemoveConf, At, Turn, Deleting, OnRow, Rows
<1>8. CASE TestConfig(r)
  BY <1>1, <1>2, <1>4, <1>8 DEF TestConfig, At, Turn, Deleting, OnRow, Rows
<1>9. CASE Reload(r)
  BY <1>1, <1>2, <1>4, <1>9 DEF Reload, At, Turn, Deleting, OnRow, Rows
<1>10. CASE DeleteSite(r)
  <2>1. /\ avail' = avail /\ enabled' = enabled /\ Done(r) /\ req[r].pc = "row"
        /\ Rows' = Rows \ {req[r].id} /\ \A i \in Rows' : sites'[i] = sites[i]
    BY <1>1, <1>5, <1>10 DEF DeleteSite, At, Rows
  <2> QED
    BY <1>1, <1>3, <1>5, <2>1 DEF Settled, Deleting, HasRow
<1> QED
  BY <1>1, <1>6, <1>7, <1>8, <1>9, <1>10
  DEF Handle, WriteVhost, Link, IssueCertificate, Upgrade, Restore, InsertSite, SetSiteStatus,
      SetPanelProxyConfigured, At, Deleting

LEMMA SecureStep ==
  ASSUME NEW r \in Requests, NEW h \in Hosts, Alone(r), Handle(r),
         req[r].op = "ssl", req[r].host = h
  PROVE  IF req'[r] = NoReq THEN Settled(h)' ELSE Turn(req[r])'
<1>1. /\ TypeOK /\ req[r] # NoReq /\ avail \in [Hosts -> Vhosts] /\ sites \in [Ids -> Site \cup {NoRow}]
      /\ Securing(req[r]) /\ OnRow(req[r])
  BY OneSlot DEF Alone, CertInv, TypeInv, TypeOK, Turn, Securing
<1>2. ASSUME NEW pc \in Pcs, Go(r, pc)
      PROVE  /\ req'[r] # NoReq /\ req'[r].pc = pc /\ req'[r].op = "ssl"
             /\ req'[r].host = h /\ req'[r].id = req[r].id /\ req'[r].old = req[r].old
  BY <1>1, <1>2, GoFields
<1>3. Done(r) => req'[r] = NoReq
  BY <1>1, DoneFields
<1>4. "upgrade" \in Pcs /\ "reload" \in Pcs /\ "restore" \in Pcs
  BY DEF Pcs
<1>5. /\ req[r].id \in Ids /\ HasRow(h) /\ h \in Domains /\ h # Panel
      /\ \A i \in Rows : sites[i].domain = h <=> i = req[r].id
  BY <1>1, RowOfHost, PanelIsNoSite
\* With the row as it was, the host settles.
<1>6. ASSUME sites' = sites, enabled' = enabled, avail'[h] # "none"
      PROVE  Settled(h)'
  <2>1. Rows' = Rows /\ HasRow(h)' /\ req[r].id \in Rows
    BY <1>1, <1>5, <1>6 DEF Rows, HasRow, OnRow
  <2>2. ~failed' => ~failed
    BY DEF Handle, WriteVhost, Link, Unlink, RemoveConf, TestConfig, Reload, IssueCertificate,
           Upgrade, Restore, InsertSite, SetSiteStatus, DeleteSite, SetPanelProxyConfigured
  <2> QED
    BY <1>1, <1>5, <1>6, <2>1, <2>2 DEF Settled, Securing
<1>7. CASE IssueCertificate(r)
  <2>1. CASE Go(r, "upgrade")
    BY <1>1, <1>2, <1>4, <1>7, <2>1 DEF IssueCertificate, At, Turn, Securing, OnRow, Rows
  <2>2. CASE ~Go(r, "upgrade")
    BY <1>1, <1>3, <1>6, <1>7, <2>2 DEF IssueCertificate, Securing
  <2> QED BY <2>1, <2>2
<1>8. CASE Upgrade(r)
  <2>1. /\ req'[r] # NoReq /\ req'[r].pc = "test" /\ req'[r].op = "ssl" /\ req'[r].host = h
        /\ req'[r].id = req[r].id /\ req'[r].old = avail[h]
    BY <1>1, <1>8, UpgradeFields
  <2> QED
    BY <1>1, <1>8, <2>1 DEF Upgrade, At, Turn, Securing, OnRow, Rows
<1>9. CASE TestConfig(r)
  BY <1>1, <1>2, <1>4, <1>9 DEF TestConfig, At, Turn, Securing, OnRow, Rows
<1>10. CASE Reload(r)
  BY <1>1, <1>3, <1>6, <1>10 DEF Reload, At, Securing
<1>11. CASE Restore(r)
  BY <1>1, <1>3, <1>6, <1>11 DEF Restore, At, Securing
<1> QED
  BY <1>1, <1>7, <1>8, <1>9, <1>10, <1>11
  DEF Handle, WriteVhost, Link, Unlink, RemoveConf, InsertSite, SetSiteStatus, DeleteSite,
      SetPanelProxyConfigured, At, Securing

LEMMA FrontStep ==
  ASSUME NEW r \in Requests, Alone(r), Handle(r), req[r].op = "panel"
  PROVE  req[r].host = Panel /\ IF req'[r] = NoReq THEN Settled(Panel)' ELSE Turn(req[r])'
<1>1. /\ TypeOK /\ req[r] # NoReq /\ avail \in [Hosts -> Vhosts] /\ Panel \in Hosts
      /\ Panel \notin Domains /\ Fronting(req[r]) /\ req[r].host = Panel /\ req[r].on \in BOOLEAN
  BY OneSlot, SlotFields, PanelIsNoSite DEF Alone, CertInv, TypeInv, TypeOK, Turn, Fronting, Hosts
<1>2. req[r].pc = "test" /\ ~failed => ConfigOK
  BY <1>1, Passes
<1>3. ASSUME NEW pc \in Pcs, Go(r, pc)
      PROVE  /\ req'[r] # NoReq /\ req'[r].pc = pc /\ req'[r].op = "panel"
             /\ req'[r].host = Panel /\ req'[r].on = req[r].on /\ req'[r].old = req[r].old
  BY <1>1, <1>3, GoFields
<1>4. Done(r) => req'[r] = NoReq
  BY <1>1, DoneFields
<1>5. \A pc \in {"link", "unlink", "remove", "test", "reload", "row", "cert", "upgrade", "restore"} :
        pc \in Pcs
  BY DEF Pcs
<1>6. CASE WriteVhost(r)
  BY <1>1, <1>3, <1>5, <1>6 DEF WriteVhost, At, Turn, Fronting
<1>7. CASE Link(r)
  BY <1>1, <1>3, <1>5, <1>7 DEF Link, At, Turn, Fronting
<1>8. CASE Unlink(r)
  BY <1>1, <1>3, <1>5, <1>8 DEF Unlink, At, Turn, Fronting
<1>9. CASE RemoveConf(r)
  BY <1>1, <1>4, <1>9 DEF RemoveConf, At, Settled, Fronting
<1>10. CASE TestConfig(r)
  BY <1>1, <1>2, <1>3, <1>5, <1>10 DEF TestConfig, At, Turn, Fronting
<1>11. CASE Reload(r)
  BY <1>1, <1>3, <1>4, <1>5, <1>11 DEF Reload, At, Turn, Settled, Fronting
<1>12. CASE IssueCertificate(r)
  BY <1>1, <1>3, <1>4, <1>5, <1>12 DEF IssueCertificate, At, Turn, Settled, Fronting
<1>13. CASE Upgrade(r)
  <2>1. /\ req'[r] # NoReq /\ req'[r].pc = "test" /\ req'[r].op = "panel" /\ req'[r].host = Panel
        /\ req'[r].on /\ req'[r].old = avail[Panel]
    BY <1>1, <1>13, UpgradeFields
  <2> QED
    BY <1>1, <1>13, <2>1 DEF Upgrade, At, Turn, Fronting
<1>14. CASE Restore(r)
  BY <1>1, <1>4, <1>14 DEF Restore, At, Settled, Fronting
<1>15. CASE SetPanelProxyConfigured(r)
  BY <1>1, <1>3, <1>4, <1>5, <1>15 DEF SetPanelProxyConfigured, At, Turn, Settled, Fronting
<1> QED
  BY <1>1, <1>6, <1>7, <1>8, <1>9, <1>10, <1>11, <1>12, <1>13, <1>14, <1>15
  DEF Handle, InsertSite, SetSiteStatus, DeleteSite, At

\* No id is handed out twice, and no domain.
LEMMA RowsStay ==
  ASSUME NEW r \in Requests, Alone(r), Handle(r)
  PROVE  /\ (Rows \subseteq used)'
         /\ (\A i, j \in Rows : sites[i].domain = sites[j].domain => i = j)'
<1>1. /\ TypeOK /\ Rows \subseteq used /\ Rows \subseteq Ids /\ sites \in [Ids -> Site \cup {NoRow}]
      /\ \A i, j \in Rows : sites[i].domain = sites[j].domain => i = j
  BY DEF Alone, CertInv, TypeInv, TypeOK, Rows
<1>2. CASE InsertSite(r)
  <2>1. req[r] # NoReq /\ Creating(req[r]) /\ req[r].id \in Ids /\ req[r].host \in Domains
    BY <1>2 DEF InsertSite, At, Alone, Turn, Creating
  <2>2. /\ sites' = [sites EXCEPT ![req[r].id] = [domain |-> req[r].host, status |-> "enabled"]]
        /\ used' = used \cup {req[r].id}
    BY <1>2, <2>1 DEF InsertSite, NewSite, Creating
  <2>3. sites'[req[r].id].domain = req[r].host /\ \A i \in Ids \ {req[r].id} : sites'[i] = sites[i]
    BY <1>1, <2>1, <2>2
  <2>4. Rows' \subseteq Rows \cup {req[r].id} /\ \A i \in Rows : sites[i].domain # req[r].host
    BY <2>1, <2>3 DEF Rows, Creating, HasRow
  <2> QED
    BY <1>1, <2>2, <2>3, <2>4
<1>3. CASE SetSiteStatus(r)
  <2>1. OnRow(req[r])
    BY <1>3 DEF SetSiteStatus, At, Alone, Turn, Toggling
  <2>2. sites[req[r].id] \in Site /\ req[r].id \in Ids
    BY <1>1, <2>1 DEF OnRow, Rows
  <2>3. PICK s \in {"enabled", "disabled"} : sites' = [sites EXCEPT ![req[r].id].status = s]
    BY <1>3, <2>1 DEF SetSiteStatus, OnRow
  <2>4. sites'[req[r].id] \in Site /\ sites'[req[r].id].domain = sites[req[r].id].domain
    BY <1>1, <2>2, <2>3 DEF Site
  <2>5. \A i \in Ids \ {req[r].id} : sites'[i] = sites[i]
    BY <1>1, <2>3
  <2>6. \A i \in Ids : /\ sites'[i] # NoRow => sites[i] # NoRow
                       /\ sites[i] # NoRow => sites'[i].domain = sites[i].domain
    BY <2>2, <2>4, <2>5, NothingsDiffer
  <2> QED
    BY <1>1, <1>3, <2>6 DEF SetSiteStatus, Rows
<1>4. CASE DeleteSite(r)
  <2>1. \A i \in Ids : sites'[i] # NoRow => sites'[i] = sites[i]
    BY <1>1, <1>4 DEF DeleteSite
  <2> QED
    BY <1>1, <1>4, <2>1 DEF DeleteSite, Rows
<1>5. CASE ~InsertSite(r) /\ ~SetSiteStatus(r) /\ ~DeleteSite(r)
  BY <1>1, <1>5
  DEF Handle, WriteVhost, Link, Unlink, RemoveConf, TestConfig, Reload, IssueCertificate, Upgrade,
      Restore, SetPanelProxyConfigured, Rows
<1> QED BY <1>2, <1>3, <1>4, <1>5

\* A request that starts alone finds its host settled.
LEMMA StartTurn ==
  ASSUME NEW r \in Requests, TypeOK, Tidy, Receive(r), \A s \in Requests : req[s] = NoReq
  PROVE  Turn(req[r])'
<1>1. /\ \A h \in Hosts : Settled(h)
      /\ sites \in [Ids -> Site \cup {NoRow}] /\ Rows \subseteq used
      /\ \A i \in Rows : i \in Ids /\ sites[i] \in Site /\ sites[i].domain \in Domains
      /\ \A i, j \in Rows : sites[i].domain = sites[j].domain => i = j
  BY DEF Tidy, TypeOK, Rows, Site
<1>2. /\ sites' = sites /\ used' = used /\ proxy' = proxy /\ avail' = avail /\ enabled' = enabled
      /\ failed' = failed
  BY DEF Receive
<1>3. \A i \in Rows : HasRow(sites[i].domain) /\ sites[i].domain # Panel /\ sites[i].domain \in Hosts
  BY <1>1, PanelIsNoSite DEF HasRow, Hosts
<1> DEFINE Began(pc, op, h, i, on) ==
             req'[r].pc = pc /\ req'[r].op = op /\ req'[r].host = h /\ req'[r].id = i /\ req'[r].on = on
<1>9. ASSUME NEW pc, NEW op, NEW h, NEW i, NEW on, Start(r, pc, op, h, i, on)
      PROVE  Began(pc, op, h, i, on)
  BY <1>9 DEF Start, TypeOK
<1>4. CASE StartCreate(r)
  <2>1. PICK d \in Domains, i \in Ids \ used : ~HasRow(d) /\ Start(r, "write", "create", d, i, TRUE)
    BY <1>4 DEF StartCreate
  <2>2. Began("write", "create", d, i, TRUE)
    BY <2>1, <1>9
  <2>3. avail[d] = "none" /\ d \notin enabled
    BY <1>1, <2>1 DEF Settled, Hosts
  <2>4. HasRow(d)' <=> HasRow(d)
    BY <1>2 DEF HasRow, Rows
  <2> QED
    BY <1>2, <2>1, <2>2, <2>3, <2>4 DEF Turn, Creating
<1>5. CASE StartToggle(r)
  <2>1. PICK i \in Rows :
          LET on == sites[i].status = "disabled" IN
            Start(r, IF on THEN "link" ELSE "unlink", "toggle", sites[i].domain, i, on)
    BY <1>5 DEF StartToggle
  <2> DEFINE on == sites[i].status = "disabled"
             pc == IF on THEN "link" ELSE "unlink"
  <2>2. on \in BOOLEAN /\ pc \in Pcs /\ sites[i].domain \in Hosts /\ i \in Ids
    BY <1>1, <1>3 DEF Pcs
  <2>3. /\ req'[r].pc = pc /\ req'[r].op = "toggle"
        /\ req'[r].host = sites[i].domain /\ req'[r].id = i /\ req'[r].on = on
    <3>1. Start(r, pc, "toggle", sites[i].domain, i, on)
      BY <2>1
    <3> HIDE DEF on, pc
    <3> QED BY <2>2, <3>1, StartFields
  <2>4. avail[sites[i].domain] # "none"
    BY <1>1, <1>3 DEF Settled
  <2> QED
    BY <1>2, <2>3, <2>4 DEF Turn, Toggling, OnRow, Rows
<1>6. CASE StartDelete(r)
  <2>1. PICK i \in Rows : Start(r, "unlink", "delete", sites[i].domain, i, FALSE)
    BY <1>6 DEF StartDelete
  <2>2. Began("unlink", "delete", sites[i].domain, i, FALSE)
    BY <2>1, <1>9
  <2> QED
    BY <1>2, <2>2 DEF Turn, Deleting, OnRow, Rows
<1>7. CASE StartSSL(r)
  <2>1. PICK i \in Rows : Start(r, "cert", "ssl", sites[i].domain, i, TRUE)
    BY <1>7 DEF StartSSL
  <2>2. Began("cert", "ssl", sites[i].domain, i, TRUE)
    BY <2>1, <1>9
  <2>3. avail[sites[i].domain] # "none"
    BY <1>1, <1>3 DEF Settled
  <2>4. ~failed => (sites[i].domain \in enabled <=> sites[i].status = "enabled")
    BY <1>1, <1>3 DEF Settled
  <2> QED
    BY <1>2, <2>2, <2>3, <2>4 DEF Turn, Securing, OnRow, Rows
<1>8. CASE StartPanel(r)
  <2>1. Began("write", "panel", Panel, NoRow, FALSE)
    BY <1>8, <1>9 DEF StartPanel
  <2>2. Panel \in enabled => avail[Panel] # "none"
    BY <1>1 DEF Settled, Hosts
  <2> QED
    BY <1>2, <2>1, <2>2 DEF Turn, Fronting
<1> QED BY <1>4, <1>5, <1>6, <1>7, <1>8 DEF Receive

LEMMA SitesStart == Init => SitesInv
<1> SUFFICES ASSUME Init PROVE SitesInv
  OBVIOUS
<1>1. TypeInv
  BY DEF Init, TypeInv, TypeOK, Vhosts
<1>2. Rows = {}
  BY DEF Init, Rows
<1>3. \A h \in Hosts : Settled(h)
  BY <1>2 DEF Init, Settled, HasRow, Hosts
<1> QED
  BY <1>1, <1>2, <1>3 DEF Init, SitesInv, CertInv, Tidy

LEMMA SitesNext == SitesInv /\ [Next]_vars => SitesInv'
<1> SUFFICES ASSUME SitesInv, [Next]_vars PROVE SitesInv'
  OBVIOUS
<1>1. CertInv /\ CertInv' /\ TypeOK
  BY CertNext DEF SitesInv, CertInv, TypeInv
<1>2. (~failed => sound)'
  BY DEF SitesInv, Next, ForeignEdit, Crash, Receive, Handle, WriteVhost, Link, Unlink, RemoveConf,
         TestConfig, Reload, IssueCertificate, Upgrade, Restore, InsertSite, SetSiteStatus,
         DeleteSite, SetPanelProxyConfigured, vars
<1>3. ASSUME ~torn' PROVE Tidy'
  <2>1. ~torn
    BY <1>3 DEF Next, ForeignEdit, Crash, Receive, Handle, WriteVhost, Link, Unlink, RemoveConf,
           TestConfig, Reload, IssueCertificate, Upgrade, Restore, InsertSite, SetSiteStatus,
           DeleteSite, SetPanelProxyConfigured, vars
  <2>2. Tidy
    BY <2>1 DEF SitesInv
  <2>3. CASE UNCHANGED vars
    BY <2>2, <2>3
    DEF vars, Tidy, Settled, OthersIdle, Turn, Creating, Toggling, Deleting, Securing, Fronting,
        OnRow, HasRow, Rows
  <2>4. CASE ForeignEdit
    <3>1. /\ sites' = sites /\ used' = used /\ proxy' = proxy /\ avail' = avail
          /\ enabled' = enabled /\ req' = req /\ failed'
      BY <2>4 DEF ForeignEdit
    <3>2. Rows' = Rows /\ \A h : HasRow(h)' <=> HasRow(h)
      BY <3>1 DEF Rows, HasRow
    <3>3. \A h \in Hosts : Settled(h) => Settled(h)'
      BY <3>1, <3>2 DEF Settled
    <3>4. ASSUME NEW r \in Requests, Turn(req[r]) PROVE Turn(req[r])'
      BY <3>1, <3>2, <3>4
      DEF Turn, Creating, Toggling, Deleting, Securing, Fronting, OnRow
    <3> QED
      BY <2>2, <3>1, <3>2, <3>3, <3>4 DEF Tidy, OthersIdle
  <2>5. CASE Crash
    <3>1. /\ sites' = sites /\ used' = used /\ proxy' = proxy /\ avail' = avail
          /\ enabled' = enabled /\ failed' = failed
          /\ \A r \in Requests : req[r] = NoReq /\ req'[r] = NoReq
      BY <1>3, <2>5 DEF Crash
    <3> QED
      BY <2>2, <3>1 DEF Tidy, Settled, HasRow, Rows
  <2>6. ASSUME NEW r \in Requests, Receive(r) PROVE Tidy'
    <3>1. \A s \in Requests : req[s] = NoReq
      BY <1>1, <1>3, <2>6, Started DEF Receive
    <3>2. /\ sites' = sites /\ used' = used /\ proxy' = proxy /\ avail' = avail
          /\ enabled' = enabled /\ failed' = failed
      BY <2>6 DEF Receive
    <3>3. \A s \in Requests \ {r} : req'[s] = NoReq
      BY <1>1, <2>6, <3>1, Started
    <3>4. Turn(req[r])'
      BY <1>1, <2>2, <2>6, <3>1, StartTurn
    <3>5. \A h \in Hosts : Settled(h)'
      BY <2>2, <3>1, <3>2 DEF Tidy, Settled, HasRow, Rows
    <3> QED
      BY <2>2, <3>2, <3>3, <3>4, <3>5 DEF Tidy, OthersIdle, Rows
  <2>7. ASSUME NEW r \in Requests, Handle(r) PROVE Tidy'
    <3>1. req[r] # NoReq /\ \A s \in Requests \ {r} : req'[s] = req[s]
      BY <1>1, <2>7, OneSlot
    <3>2. \A s \in Requests \ {r} : req[s] = NoReq /\ req'[s] = NoReq
      BY <2>2, <3>1 DEF Tidy, OthersIdle
    <3>3. Alone(r)
      BY <1>1, <2>1, <2>2, <3>1, <3>2 DEF Tidy, Alone, SitesInv
    <3>4. req[r].host \in Hosts /\ req[r].op \in {"create", "toggle", "delete", "ssl", "panel"}
      BY <1>1, <3>1, SlotFields
    <3>5. IF req'[r] = NoReq THEN \A h \in {req[r].host} : Settled(h)' ELSE Turn(req[r])'
      BY <2>7, <3>3, <3>4, CreateStep, ToggleStep, DeleteStep, SecureStep, FrontStep
    <3>6. \A h \in Hosts \ {req[r].host} : Settled(h)'
      BY <2>7, <3>3, Untouched
    <3>7. req'[r] # NoReq => req'[r].host = req[r].host
      BY <1>1, <2>7, OneSlot
    <3> QED
      BY <2>7, <3>2, <3>3, <3>5, <3>6, <3>7, RowsStay DEF Tidy, OthersIdle
  <2> QED BY <2>3, <2>4, <2>5, <2>6, <2>7 DEF Next
<1> QED BY <1>1, <1>2, <1>3 DEF SitesInv

\* Type correctness of the sites.
THEOREM SitesTypeCorrect == Spec => []TypeOK
<1>1. SitesInv => TypeOK
  BY DEF SitesInv, CertInv, TypeInv
<1> QED BY <1>1, SitesStart, SitesNext, PTL DEF Spec

\* One request after another on a host where nothing fails but certbot: each vhost is
\* what its row says.
THEOREM RowsAlwaysMatchVhosts == Spec => []RowsMatchVhosts
<1>1. SitesInv => RowsMatchVhosts
  <2> SUFFICES ASSUME SitesInv, Quiet, ~torn, ~failed PROVE RowsMatchVhosts
    BY DEF RowsMatchVhosts
  <2>1. \A h \in Hosts : Settled(h)
    BY DEF SitesInv, Tidy, Quiet
  <2> QED
    BY <2>1, PanelIsNoSite DEF RowsMatchVhosts, Settled, Hosts
<1> QED BY <1>1, SitesStart, SitesNext, PTL DEF Spec

\* With nobody at work and no request overlapped or cut short, nginx accepts the vhosts
\* of the panel, whatever failed.
THEOREM OursAlwaysSound == Spec => []OursIsSound
<1>1. SitesInv => OursIsSound
  <2> SUFFICES ASSUME SitesInv, Quiet, ~torn, sound PROVE ConfigOK
    BY DEF OursIsSound
  <2>1. \A h \in Hosts : Settled(h)
    BY DEF SitesInv, Tidy, Quiet
  <2>2. \A h \in Hosts : avail[h] = "ssl" => h \in certs
    BY DEF SitesInv, CertInv
  <2>3. enabled \subseteq Hosts
    BY DEF SitesInv, CertInv, TypeInv, TypeOK
  <2> QED
    BY <2>1, <2>2, <2>3 DEF Settled, ConfigOK
<1> QED BY <1>1, SitesStart, SitesNext, PTL DEF Spec

(***************************************************************************)
(* A handler nobody disturbs and in which nothing fails repairs everything *)
(* its service keeps, for any number of rows and handlers, whatever        *)
(* crashes, failures and races had left in the files.                      *)
(*                                                                         *)
(* SyncRepairs speaks of the answer alone.  Progress says what a handler   *)
(* has set right by each step; Undisturbed, that it is then the only one   *)
(* at work, so that the table it listed is still the table.                *)
(*                                                                         *)
(* NoSilentLies speaks of failures too, of handlers one after another:     *)
(* HonestInv says that every listed row is in its file but for the one the *)
(* handler at work has entered, and that it knows how to take back.        *)
(***************************************************************************)

Is(t)    == Shown(t) = Render(table, t)
Took(t)  == live[t] = Render(table, t)

\* What was listed renders as the table does.
Fresh(c) == \A t \in Targets(service) : Render(calls[c].seen, t) = Render(table, t)

Progress(c) ==
  LET AtStep(pcs) == calls[c].pc \in pcs IN
    /\ AtStep({"crontab"}) => service = "cron" /\ Fresh(c)
    /\ AtStep({"conf"}) => service = "dns" /\ Fresh(c)
    /\ AtStep({"test", "restart"}) => service = "dns" /\ Is("kursor.conf")
    /\ AtStep({"boxes"}) => /\ service = "mail"
                        /\ calls[c].seen = [i \in Items |->
                             IF table[i] # NoItem /\ table[i].sort = "domain" THEN table[i] ELSE NoItem]
    /\ AtStep({"main.cf", "vmailbox", "postmap", "check", "users"}) => service = "mail" /\ Fresh(c)
    /\ AtStep({"vmailbox", "postmap", "check", "users", "dovecot"}) => Is("main.cf")
    /\ AtStep({"postmap", "check", "users", "dovecot"}) => Is("vmailbox")
    /\ AtStep({"users", "dovecot"}) => Took("main.cf") /\ Took("vmailbox")
    /\ AtStep({"dovecot"}) => service = "mail" /\ Is("users")
    /\ AtStep({"answer"}) => \A t \in Targets(service) : Is(t) /\ Took(t)
    /\ ~AtStep({"undo"})

Undisturbed(c) ==
  calls[c] # NoCall /\ calls[c].alone =>
    /\ \A d \in Calls \ {c} : calls[d] = NoCall
    /\ calls[c].ok => Progress(c)

FilesInv == FilesTypeOK /\ \A c \in Calls : Undisturbed(c)

-----------------------------------------------------------------------------
(* Rendering.                                                              *)

LEMMA TargetsOfServices ==
  /\ Targets("cron") = {"crontab"} /\ Targets("dns") = {"kursor.conf"}
  /\ Targets("mail") = {"main.cf", "vmailbox", "users"}
  /\ AllTargets = {"crontab", "kursor.conf", "main.cf", "vmailbox", "users"}
BY DEF Targets, AllTargets, Services

LEMMA RenderType ==
  ASSUME NEW rows \in Content, NEW t
  PROVE  Render(rows, t) \in Content /\ Render(rows, t) # NoFile
<1>1. ASSUME NEW e \in Entry PROVE Line(e, t) \in Entry
  BY DEF Line, Entry
<1>2. \A i \in Items : rows[i] = NoItem \/ rows[i] \in Entry
  BY DEF Content
<1>3. \A i \in Items : (IF rows[i] # NoItem /\ rows[i].sort = SortIn(t) THEN Line(rows[i], t) ELSE NoItem)
                          \in Entry \cup {NoItem}
  BY <1>1, <1>2
<1>4. Render(rows, t) \in Content
  BY <1>3 DEF Render, Content
<1> QED BY <1>4, NoneOfThem

LEMMA NothingType == Nothing \in Content
BY DEF Nothing, Content

LEMMA RenderNothing == ASSUME NEW t PROVE Render(Nothing, t) = Nothing
BY DEF Render, Nothing

\* Domains and mailboxes, listed one after the other, render as the table.
LEMMA ListedTwice ==
  ASSUME NEW rows \in Content, NEW seen,
         seen = [i \in Items |-> IF rows[i] # NoItem /\ rows[i].sort = "mailbox" THEN rows[i]
                                 ELSE IF rows[i] # NoItem /\ rows[i].sort = "domain" THEN rows[i]
                                 ELSE NoItem],
         NEW t \in {"main.cf", "vmailbox", "users"}
  PROVE  Render(seen, t) = Render(rows, t)
<1>1. SortIn(t) \in {"domain", "mailbox"}
  BY DEF SortIn
<1>2. ASSUME NEW i \in Items
      PROVE  (IF seen[i] # NoItem /\ seen[i].sort = SortIn(t) THEN Line(seen[i], t) ELSE NoItem)
               = (IF rows[i] # NoItem /\ rows[i].sort = SortIn(t) THEN Line(rows[i], t) ELSE NoItem)
  BY <1>1
<1> QED BY <1>2 DEF Render

-----------------------------------------------------------------------------
(* Records of handlers.                                                    *)

LEMMA CallFields ==
  ASSUME FilesTypeOK, NEW c \in Calls, calls[c] # NoCall
  PROVE  /\ calls[c] \in Call
         /\ calls[c].item \in Items /\ calls[c].entry \in Entry
         /\ calls[c].seen \in Content /\ calls[c].prev \in Content \cup {NoFile}
         /\ calls[c].ok \in BOOLEAN /\ calls[c].alone \in BOOLEAN
BY DEF FilesTypeOK, Call

\* The record of c is replaced by q.
LEMMA Replaced ==
  ASSUME FilesTypeOK, NEW c \in Calls, NEW q \in Call, calls' = [calls EXCEPT ![c] = q]
  PROVE  /\ calls' \in [Calls -> Call \cup {NoCall}]
         /\ calls'[c] = q /\ calls'[c] # NoCall
         /\ \A d \in Calls \ {c} : calls'[d] = calls[d]
BY NoneOfThem DEF FilesTypeOK

CallPcs == {"row", "list", "boxes", "crontab", "conf", "test", "restart", "main.cf", "vmailbox",
        "postmap", "check", "users", "dovecot", "undo", "answer"}

LEMMA ProceedFields ==
  ASSUME FilesTypeOK, NEW c \in Calls, calls[c] # NoCall, NEW pc \in CallPcs, Proceed(c, pc)
  PROVE  /\ calls' \in [Calls -> Call \cup {NoCall}]
         /\ calls'[c] # NoCall /\ calls'[c].pc = pc /\ calls'[c].seen = calls[c].seen
         /\ calls'[c].ok = calls[c].ok /\ calls'[c].alone = calls[c].alone
         /\ calls'[c].op = calls[c].op /\ calls'[c].item = calls[c].item
         /\ calls'[c].prev = calls[c].prev
         /\ \A d \in Calls \ {c} : calls'[d] = calls[d]
<1> DEFINE q == [calls[c] EXCEPT !.pc = pc]
<1>1. /\ q \in Call /\ q.pc = pc /\ q.seen = calls[c].seen /\ q.ok = calls[c].ok
      /\ q.alone = calls[c].alone /\ q.op = calls[c].op /\ q.item = calls[c].item /\ q.prev = calls[c].prev
  BY CallFields DEF Call, CallPcs
<1>2. calls' = [calls EXCEPT ![c] = q]
  BY DEF Proceed
<1> HIDE DEF q
<1> QED BY <1>1, <1>2, Replaced

LEMMA SeenFields ==
  ASSUME FilesTypeOK, NEW c \in Calls, calls[c] # NoCall, NEW pc \in CallPcs, NEW rows \in Content,
         calls' = [calls EXCEPT ![c] = [@ EXCEPT !.pc = pc, !.seen = rows]]
  PROVE  /\ calls' \in [Calls -> Call \cup {NoCall}]
         /\ calls'[c] # NoCall /\ calls'[c].pc = pc /\ calls'[c].seen = rows
         /\ calls'[c].ok = calls[c].ok /\ calls'[c].alone = calls[c].alone
         /\ calls'[c].op = calls[c].op /\ calls'[c].item = calls[c].item
         /\ \A d \in Calls \ {c} : calls'[d] = calls[d]
<1> DEFINE q == [calls[c] EXCEPT !.pc = pc, !.seen = rows]
<1>1. /\ q \in Call /\ q.pc = pc /\ q.seen = rows /\ q.ok = calls[c].ok
      /\ q.alone = calls[c].alone /\ q.op = calls[c].op /\ q.item = calls[c].item
  BY CallFields DEF Call, CallPcs
<1>2. calls' = [calls EXCEPT ![c] = q]
  OBVIOUS
<1> HIDE DEF q
<1> QED BY <1>1, <1>2, Replaced

LEMMA WriteFields ==
  ASSUME FilesTypeOK, NEW c \in Calls, calls[c] # NoCall, NEW pc \in CallPcs, NEW t \in AllTargets,
         Write(c, t, pc)
  PROVE  /\ calls' \in [Calls -> Call \cup {NoCall}]
         /\ calls'[c] # NoCall /\ calls'[c].pc = pc /\ calls'[c].seen = calls[c].seen
         /\ calls'[c].ok = calls[c].ok /\ calls'[c].alone = calls[c].alone
         /\ calls'[c].op = calls[c].op /\ calls'[c].item = calls[c].item
         /\ calls'[c].prev = file[t]
         /\ \A d \in Calls \ {c} : calls'[d] = calls[d]
         /\ file' \in [AllTargets -> Content \cup {NoFile}]
         /\ file'[t] = Render(calls[c].seen, t) /\ file'[t] # NoFile
         /\ \A s \in AllTargets \ {t} : file'[s] = file[s]
<1> DEFINE q == [calls[c] EXCEPT !.pc = pc, !.prev = file[t]]
<1>1. file[t] \in Content \cup {NoFile}
  BY DEF FilesTypeOK
<1>2. /\ q \in Call /\ q.pc = pc /\ q.seen = calls[c].seen /\ q.ok = calls[c].ok
      /\ q.alone = calls[c].alone /\ q.op = calls[c].op /\ q.item = calls[c].item /\ q.prev = file[t]
  BY <1>1, CallFields DEF Call, CallPcs
<1>3. calls' = [calls EXCEPT ![c] = q]
  BY DEF Write
<1>4. Render(calls[c].seen, t) \in Content /\ Render(calls[c].seen, t) # NoFile
  BY CallFields, RenderType
<1>5. file' = [file EXCEPT ![t] = Render(calls[c].seen, t)]
  BY DEF Write
<1> HIDE DEF q
<1>6. /\ file' \in [AllTargets -> Content \cup {NoFile}]
      /\ file'[t] = Render(calls[c].seen, t) /\ file'[t] # NoFile
      /\ \A s \in AllTargets \ {t} : file'[s] = file[s]
  BY <1>4, <1>5 DEF FilesTypeOK
<1> QED BY <1>2, <1>3, <1>6, Replaced

LEMMA FinishFields ==
  ASSUME FilesTypeOK, NEW c \in Calls, calls[c] # NoCall, Finish(c)
  PROVE  /\ calls' \in [Calls -> Call \cup {NoCall}]
         /\ calls'[c] # NoCall /\ calls'[c].pc = "answer"
         /\ calls'[c].ok = calls[c].ok /\ calls'[c].alone = calls[c].alone
         /\ calls'[c].op = calls[c].op /\ calls'[c].item = calls[c].item
         /\ \A d \in Calls \ {c} : calls'[d] = calls[d]
<1> DEFINE q == [Forget(calls[c]) EXCEPT !.pc = "answer"]
<1>1. /\ q \in Call /\ q.pc = "answer" /\ q.ok = calls[c].ok
      /\ q.alone = calls[c].alone /\ q.op = calls[c].op /\ q.item = calls[c].item
  BY CallFields, NothingType DEF Call, Forget
<1>2. calls' = [calls EXCEPT ![c] = q]
  BY DEF Finish
<1> HIDE DEF q
<1> QED BY <1>1, <1>2, Replaced

LEMMA FailFields ==
  ASSUME FilesTypeOK, NEW c \in Calls, calls[c] # NoCall, Fail(c)
  PROVE  /\ calls' \in [Calls -> Call \cup {NoCall}]
         /\ calls'[c] # NoCall /\ ~calls'[c].ok /\ calls'[c].alone = calls[c].alone
         /\ calls'[c].pc = AfterError(calls[c])
         /\ calls'[c].op = calls[c].op /\ calls'[c].item = calls[c].item
         /\ \A d \in Calls \ {c} : calls'[d] = calls[d]
<1> DEFINE q == [Forget(calls[c]) EXCEPT !.pc = AfterError(calls[c]), !.ok = FALSE]
<1>1. AfterError(calls[c]) \in {"undo", "answer"}
  BY DEF AfterError
<1>2. /\ q \in Call /\ ~q.ok /\ q.alone = calls[c].alone /\ q.pc = AfterError(calls[c])
      /\ q.op = calls[c].op /\ q.item = calls[c].item
  BY <1>1, CallFields, NothingType DEF Call, Forget
<1>3. calls' = [calls EXCEPT ![c] = q]
  BY DEF Fail
<1> HIDE DEF q
<1> QED BY <1>2, <1>3, Replaced

\* A handler at work disturbs no other that is undisturbed: there is none.
LEMMA OnItsOwn ==
  ASSUME FilesInv, NEW c \in Calls, calls[c] # NoCall,
         \A d \in Calls \ {c} : calls'[d] = calls[d],
         calls'[c] # NoCall => calls'[c].alone = calls[c].alone,
         calls'[c] # NoCall /\ calls'[c].ok /\ calls[c].alone => Progress(c)'
  PROVE  \A d \in Calls : Undisturbed(d)'
<1> SUFFICES ASSUME NEW d \in Calls, calls'[d] # NoCall, calls'[d].alone
             PROVE  /\ \A e \in Calls \ {d} : calls'[e] = NoCall
                    /\ calls'[d].ok => Progress(d)'
  BY DEF Undisturbed
<1>1. CASE d = c
  <2>1. \A e \in Calls \ {c} : calls[e] = NoCall
    BY <1>1 DEF FilesInv, Undisturbed
  <2> QED BY <1>1, <2>1
<1>2. CASE d # c
  BY <1>2 DEF FilesInv, Undisturbed
<1> QED BY <1>1, <1>2

-----------------------------------------------------------------------------
(* The statements on the table.                                            *)

LEMMA AcceptKeeps ==
  ASSUME FilesInv, NEW c \in Calls, AcceptCall(c)
  PROVE  FilesInv'
<1>1. PICK op \in {"create", "toggle", "delete"}, i \in Items, e \in Entry :
        calls' = [d \in Calls |->
            IF d = c THEN [pc |-> "row", op |-> op, item |-> i, entry |-> e, seen |-> Nothing,
                           prev |-> NoFile, ok |-> TRUE, alone |-> Idle]
            ELSE IF calls[d] = NoCall THEN NoCall ELSE [calls[d] EXCEPT !.alone = FALSE]]
  BY DEF AcceptCall
<1> DEFINE q == [pc |-> "row", op |-> op, item |-> i, entry |-> e, seen |-> Nothing,
                 prev |-> NoFile, ok |-> TRUE, alone |-> Idle]
<1>2. q \in Call /\ q.pc = "row" /\ (q.alone <=> Idle)
  BY NothingType DEF Call, Idle
<1>3. calls'[c] = q
  BY <1>1
<1> HIDE DEF q
<1>4. ASSUME NEW d \in Calls \ {c}
      PROVE  IF calls[d] = NoCall THEN calls'[d] = NoCall
             ELSE calls'[d] \in Call /\ ~calls'[d].alone
  <2>1. CASE calls[d] = NoCall
    BY <1>1, <2>1
  <2>2. CASE calls[d] # NoCall
    <3>1. calls'[d] = [calls[d] EXCEPT !.alone = FALSE]
      BY <1>1, <2>2
    <3>2. [calls[d] EXCEPT !.alone = FALSE] \in Call /\ ~[calls[d] EXCEPT !.alone = FALSE].alone
      BY <2>2, CallFields DEF FilesInv, Call
    <3> QED BY <2>2, <3>1, <3>2
  <2> QED BY <2>1, <2>2
<1>5. FilesTypeOK'
  <2>1. calls' \in [Calls -> Call \cup {NoCall}]
    <3>1. \A d \in Calls : calls'[d] \in Call \cup {NoCall}
      BY <1>2, <1>3, <1>4
    <3> QED BY <1>1, <3>1
  <2>2. crossed' \in BOOLEAN
    BY DEF AcceptCall, FilesInv, FilesTypeOK
  <2> QED BY <2>1, <2>2 DEF AcceptCall, FilesInv, FilesTypeOK
<1>6. ASSUME NEW d \in Calls PROVE Undisturbed(d)'
  <2>1. CASE d = c
    <3>1. calls'[c].alone => \A x \in Calls \ {c} : calls'[x] = NoCall
      BY <1>2, <1>3, <1>4 DEF Idle
    <3> QED BY <1>2, <1>3, <2>1, <3>1 DEF Undisturbed, Progress
  <2>2. CASE d # c
    BY <1>4, <2>2 DEF Undisturbed
  <2> QED BY <2>1, <2>2
<1> QED BY <1>5, <1>6 DEF FilesInv

LEMMA RowKeeps ==
  ASSUME FilesInv, NEW c \in Calls, InsertRow(c) \/ UpdateRow(c) \/ RemoveRow(c)
  PROVE  FilesInv'
<1>1. FilesTypeOK /\ calls[c] # NoCall
  BY DEF FilesInv, InsertRow, UpdateRow, RemoveRow, CallAt
<1>2. calls[c].item \in Items /\ calls[c].entry \in Entry /\ table \in Content
  BY <1>1, CallFields DEF FilesTypeOK
<1>3. table' \in Content
  <2>1. CASE InsertRow(c) \/ RemoveRow(c)
    BY <1>2, <2>1 DEF InsertRow, RemoveRow, Content
  <2>2. CASE UpdateRow(c)
    <3>1. CASE table[calls[c].item] = NoItem
      BY <1>2, <2>2, <3>1 DEF UpdateRow
    <3>2. CASE table[calls[c].item] # NoItem
      <4>1. table[calls[c].item] \in Entry
        BY <1>2, <3>2 DEF Content
      <4>2. [table[calls[c].item] EXCEPT !.flag = ~calls[c].entry.flag] \in Entry
        BY <4>1 DEF Entry
      <4>3. table' = [table EXCEPT ![calls[c].item] =
                        [table[calls[c].item] EXCEPT !.flag = ~calls[c].entry.flag]]
        BY <2>2, <3>2 DEF UpdateRow
      <4> QED BY <1>2, <4>2, <4>3 DEF Content
    <3> QED BY <3>1, <3>2
  <2> QED BY <2>1, <2>2
<1>4. /\ calls' \in [Calls -> Call \cup {NoCall}]
      /\ calls'[c] # NoCall /\ calls'[c].alone = calls[c].alone
      /\ calls'[c].ok => calls'[c].pc = "list"
      /\ \A d \in Calls \ {c} : calls'[d] = calls[d]
  <2>1. CASE Proceed(c, "list")
    BY <1>1, <2>1, ProceedFields DEF CallPcs
  <2>2. CASE calls' = [calls EXCEPT ![c] = [@ EXCEPT !.pc = "answer", !.ok = FALSE]]
    <3> DEFINE q == [calls[c] EXCEPT !.pc = "answer", !.ok = FALSE]
    <3>1. q \in Call /\ ~q.ok /\ q.alone = calls[c].alone
      BY <1>1, CallFields DEF Call
    <3>2. calls' = [calls EXCEPT ![c] = q]
      BY <2>2
    <3> HIDE DEF q
    <3> QED BY <1>1, <3>1, <3>2, Replaced
  <2> QED BY <2>1, <2>2 DEF InsertRow, UpdateRow, RemoveRow
<1>5. FilesTypeOK'
  BY <1>1, <1>3, <1>4 DEF FilesTypeOK, InsertRow, UpdateRow, RemoveRow
<1>6. calls'[c].ok => Progress(c)'
  BY <1>4 DEF Progress
<1> QED BY <1>1, <1>4, <1>5, <1>6, OnItsOwn DEF FilesInv

LEMMA UndoKeeps ==
  ASSUME FilesInv, NEW c \in Calls, UndoRow(c)
  PROVE  FilesInv'
<1>1. FilesTypeOK /\ calls[c] # NoCall /\ calls[c].pc = "undo" /\ Finish(c)
  BY DEF FilesInv, UndoRow, CallAt
<1>2. table' \in Content
  BY <1>1, CallFields DEF UndoRow, FilesTypeOK, Content
<1>3. FilesTypeOK'
  BY <1>1, <1>2, FinishFields DEF FilesTypeOK, UndoRow
<1>4. calls[c].alone => ~calls[c].ok
  BY <1>1 DEF FilesInv, Undisturbed, Progress
<1> QED BY <1>1, <1>3, <1>4, FinishFields, OnItsOwn DEF FilesInv

LEMMA AnswerKeeps ==
  ASSUME FilesInv, NEW c \in Calls, AnswerCall(c)
  PROVE  FilesInv'
<1>1. calls[c] # NoCall /\ calls'[c] = NoCall /\ \A d \in Calls \ {c} : calls'[d] = calls[d]
  BY DEF AnswerCall, CallAt, FilesInv, FilesTypeOK
<1>2. FilesTypeOK'
  BY DEF AnswerCall, FilesInv, FilesTypeOK
<1> QED BY <1>1, <1>2, OnItsOwn DEF FilesInv

-----------------------------------------------------------------------------
(* Listing.                                                                *)

LEMMA ListKeeps ==
  ASSUME FilesInv, NEW c \in Calls,
         ListJobs(c) \/ ListRecords(c) \/ ListDomains(c) \/ ListBoxes(c)
  PROVE  FilesInv'
<1>1. /\ FilesTypeOK /\ calls[c] # NoCall /\ table \in Content /\ calls[c].seen \in Content
      /\ service' = service /\ table' = table /\ file' = file /\ live' = live /\ crossed' = crossed
  BY CallFields DEF FilesInv, FilesTypeOK, ListJobs, ListRecords, ListDomains, ListBoxes, CallAt
<1> DEFINE listed ==
      /\ calls' \in [Calls -> Call \cup {NoCall}]
      /\ calls'[c] # NoCall /\ calls'[c].alone = calls[c].alone
      /\ \A d \in Calls \ {c} : calls'[d] = calls[d]
      /\ calls'[c].ok /\ calls[c].alone => Progress(c)'
<1> SUFFICES listed
  <2>1. ASSUME listed PROVE FilesTypeOK'
    BY <1>1, <2>1 DEF FilesTypeOK
  <2> QED BY <1>1, <2>1, OnItsOwn DEF FilesInv
<1>2. CASE Fail(c)
  BY <1>1, <1>2, FailFields
<1>3. CASE ListJobs(c)
  <2>1. CASE calls' = [calls EXCEPT ![c] = [@ EXCEPT !.pc = "crontab", !.seen = table]]
    <3>1. calls'[c].pc = "crontab" /\ calls'[c].seen = table
      BY <1>1, <2>1, SeenFields DEF CallPcs
    <3>2. Progress(c)'
      BY <1>1, <1>3, <3>1 DEF ListJobs, Progress, Fresh
    <3> QED BY <1>1, <2>1, <3>2, SeenFields DEF CallPcs
  <2>2. CASE calls' = [calls EXCEPT ![c] = [@ EXCEPT !.pc = "crontab", !.ok = FALSE]]
    <3> DEFINE q == [calls[c] EXCEPT !.pc = "crontab", !.ok = FALSE]
    <3>1. q \in Call /\ ~q.ok /\ q.alone = calls[c].alone
      BY <1>1, CallFields DEF Call
    <3>2. calls' = [calls EXCEPT ![c] = q]
      BY <2>2
    <3> HIDE DEF q
    <3> QED BY <1>1, <3>1, <3>2, Replaced
  <2> QED BY <1>3, <2>1, <2>2 DEF ListJobs
<1>4. CASE ListRecords(c) /\ ~Fail(c)
  <2>1. calls' = [calls EXCEPT ![c] = [@ EXCEPT !.pc = "conf", !.seen = table]] /\ service = "dns"
    BY <1>4 DEF ListRecords
  <2>2. calls'[c].pc = "conf" /\ calls'[c].seen = table
    BY <1>1, <2>1, SeenFields DEF CallPcs
  <2>3. Progress(c)'
    BY <1>1, <2>1, <2>2 DEF Progress, Fresh
  <2> QED BY <1>1, <2>1, <2>3, SeenFields DEF CallPcs
<1>5. CASE ListDomains(c) /\ ~Fail(c)
  <2> DEFINE domains == [i \in Items |-> IF table[i] # NoItem /\ table[i].sort = "domain"
                                         THEN table[i] ELSE NoItem]
  <2>1. calls' = [calls EXCEPT ![c] = [@ EXCEPT !.pc = "boxes", !.seen = domains]] /\ service = "mail"
    BY <1>5 DEF ListDomains
  <2>2. domains \in Content
    BY <1>1 DEF Content
  <2>3. calls'[c].pc = "boxes" /\ calls'[c].seen = domains
    <3> HIDE DEF domains
    <3> QED BY <1>1, <2>1, <2>2, SeenFields DEF CallPcs
  <2>4. Progress(c)'
    BY <1>1, <2>1, <2>3 DEF Progress
  <2> HIDE DEF domains
  <2> QED BY <1>1, <2>1, <2>2, <2>4, SeenFields DEF CallPcs
<1>6. CASE ListBoxes(c) /\ ~Fail(c)
  <2> DEFINE both == [i \in Items |-> IF table[i] # NoItem /\ table[i].sort = "mailbox"
                                      THEN table[i] ELSE calls[c].seen[i]]
  <2>1. calls' = [calls EXCEPT ![c] = [@ EXCEPT !.pc = "main.cf", !.seen = both]] /\ calls[c].pc = "boxes"
    BY <1>6 DEF ListBoxes, CallAt
  <2>2. both \in Content
    BY <1>1 DEF Content
  <2>3. ASSUME calls[c].ok, calls[c].alone
        PROVE  service = "mail" /\ \A t \in Targets("mail") : Render(both, t) = Render(table, t)
    <3>1. Progress(c)
      BY <1>1, <2>3 DEF FilesInv, Undisturbed
    <3>2. /\ service = "mail"
          /\ calls[c].seen = [i \in Items |->
               IF table[i] # NoItem /\ table[i].sort = "domain" THEN table[i] ELSE NoItem]
      BY <2>1, <3>1 DEF Progress
    <3>3. both = [i \in Items |-> IF table[i] # NoItem /\ table[i].sort = "mailbox" THEN table[i]
                                  ELSE IF table[i] # NoItem /\ table[i].sort = "domain" THEN table[i]
                                  ELSE NoItem]
      BY <3>2
    <3> HIDE DEF both
    <3> QED BY <1>1, <3>2, <3>3, ListedTwice, TargetsOfServices
  <2> HIDE DEF both
  <2>4. /\ calls' \in [Calls -> Call \cup {NoCall}]
        /\ calls'[c] # NoCall /\ calls'[c].pc = "main.cf" /\ calls'[c].seen = both
        /\ calls'[c].ok = calls[c].ok /\ calls'[c].alone = calls[c].alone
        /\ \A d \in Calls \ {c} : calls'[d] = calls[d]
    BY <1>1, <2>1, <2>2, SeenFields DEF CallPcs
  <2>5. calls'[c].ok /\ calls[c].alone => Progress(c)'
    BY <1>1, <2>3, <2>4 DEF Progress, Fresh
  <2> QED BY <2>4, <2>5
<1> QED BY <1>2, <1>3, <1>4, <1>5, <1>6 DEF ListRecords, ListDomains, ListBoxes

-----------------------------------------------------------------------------
(* Files and daemons.                                                      *)

\* What a step with the record of c leaves to be shown.
StepOf(c) ==
  /\ calls' \in [Calls -> Call \cup {NoCall}]
  /\ calls'[c] # NoCall /\ calls'[c].alone = calls[c].alone
  /\ \A d \in Calls \ {c} : calls'[d] = calls[d]
  /\ calls'[c].ok /\ calls[c].alone => Progress(c)'

LEMMA StepKeeps ==
  ASSUME FilesInv, NEW c \in Calls, calls[c] # NoCall, StepOf(c),
         UNCHANGED <<service, table, crossed>>,
         file' \in [AllTargets -> Content \cup {NoFile}], live' \in [AllTargets -> Content]
  PROVE  FilesInv'
<1>1. FilesTypeOK'
  BY DEF FilesInv, FilesTypeOK, StepOf
<1> QED BY <1>1, OnItsOwn DEF FilesInv, StepOf

LEMMA FailingStep ==
  ASSUME FilesInv, NEW c \in Calls, calls[c] # NoCall, Fail(c)
  PROVE  StepOf(c)
BY FailFields DEF StepOf, FilesInv

LEMMA CrontabKeeps ==
  ASSUME FilesInv, NEW c \in Calls, SyncCrontab(c)
  PROVE  FilesInv'
<1>1. /\ FilesTypeOK /\ calls[c] # NoCall /\ calls[c].pc = "crontab" /\ calls[c].seen \in Content
      /\ UNCHANGED <<service, table, crossed>>
  BY CallFields DEF FilesInv, SyncCrontab, CallAt
<1>2. CASE Fail(c) /\ UNCHANGED <<file, live>>
  BY <1>1, <1>2, FailingStep, StepKeeps DEF FilesTypeOK
<1>3. CASE ~(Fail(c) /\ UNCHANGED <<file, live>>)
  <2> DEFINE new == Render(calls[c].seen, "crontab")
  <2>1. new \in Content /\ new # NoFile
    BY <1>1, RenderType
  <2>2. /\ file' = [file EXCEPT !["crontab"] = IF calls[c].seen = Nothing THEN NoFile ELSE new]
        /\ live' = [live EXCEPT !["crontab"] = new]
        /\ Finish(c)
    BY <1>3 DEF SyncCrontab
  <2>3. calls[c].seen = Nothing => new = Nothing
    BY RenderNothing
  <2> HIDE DEF new
  <2>4. Shown("crontab")' = new /\ live'["crontab"] = new
    BY <1>1, <2>1, <2>2, <2>3, TargetsOfServices DEF Shown, FilesTypeOK
  <2>5. ASSUME calls[c].ok, calls[c].alone
        PROVE  service = "cron" /\ new = Render(table, "crontab")
    BY <1>1, <2>5, TargetsOfServices DEF FilesInv, Undisturbed, Progress, Fresh, new
  <2>6. calls'[c].ok /\ calls[c].alone => Progress(c)'
    <3> SUFFICES ASSUME calls'[c].ok, calls[c].alone
                 PROVE  Progress(c)'
      OBVIOUS
    <3>1. calls[c].ok /\ calls'[c].pc = "answer"
      BY <1>1, <2>2, FinishFields
    <3>2. Render(table, "crontab")' = Render(table, "crontab")
      BY <1>1 DEF Render
    <3> QED BY <1>1, <2>4, <2>5, <3>1, <3>2, TargetsOfServices DEF Progress, Is, Took
  <2>7. StepOf(c)
    BY <1>1, <2>2, <2>6, FinishFields DEF StepOf
  <2>8. file' \in [AllTargets -> Content \cup {NoFile}] /\ live' \in [AllTargets -> Content]
    BY <1>1, <2>1, <2>2 DEF FilesTypeOK
  <2> QED BY <1>1, <2>7, <2>8, StepKeeps
<1> QED BY <1>2, <1>3

\* A handler that writes the file of t goes on with t right, and the others as they were.
LEMMA WrittenIs ==
  ASSUME FilesTypeOK, NEW c \in Calls, calls[c] # NoCall, NEW t \in AllTargets, NEW pc \in CallPcs,
         Write(c, t, pc), UNCHANGED <<service, table, live>>
  PROVE  /\ Render(calls[c].seen, t) = Render(table, t) => Is(t)'
         /\ \A s \in AllTargets \ {t} : Is(s) => Is(s)'
         /\ \A s \in AllTargets : Took(s) => Took(s)'
         /\ Fresh(c) => Fresh(c)'
<1>1. \A s : Render(table, s)' = Render(table, s)
  BY DEF Render
<1>2. \A s : Render(calls[c].seen, s)' = Render(calls[c].seen, s)
  <2>1. calls'[c].seen = calls[c].seen
    BY WriteFields
  <2> QED BY <2>1 DEF Render
<1>3. /\ file'[t] = Render(calls[c].seen, t) /\ file'[t] # NoFile
      /\ \A s \in AllTargets \ {t} : file'[s] = file[s]
  BY WriteFields
<1>4. Targets(service)' = Targets(service)
  BY DEF Targets
<1> QED BY <1>1, <1>2, <1>3, <1>4 DEF Is, Took, Shown, Fresh

LEMMA WritingStep ==
  ASSUME FilesInv, NEW c \in Calls,
         WriteConf(c) \/ PostconfDomains(c) \/ WriteVmailbox(c) \/ WriteUsers(c)
  PROVE  FilesInv'
<1>1. FilesTypeOK /\ calls[c] # NoCall /\ UNCHANGED <<service, table, live, crossed>>
  BY DEF FilesInv, WriteConf, PostconfDomains, WriteVmailbox, WriteUsers, CallAt
<1>2. CASE Fail(c) /\ UNCHANGED file
  BY <1>1, <1>2, FailingStep, StepKeeps DEF FilesTypeOK
<1>3. ASSUME NEW t \in AllTargets, NEW pc \in CallPcs, Write(c, t, pc),
             calls'[c].ok /\ calls[c].alone => Progress(c)'
      PROVE  FilesInv'
  <2>1. StepOf(c) /\ file' \in [AllTargets -> Content \cup {NoFile}]
    BY <1>1, <1>3, WriteFields DEF StepOf
  <2>2. live' \in [AllTargets -> Content]
    BY <1>1 DEF FilesTypeOK
  <2> QED BY <1>1, <2>1, <2>2, StepKeeps
<1>4. ASSUME NEW t \in AllTargets, NEW pc \in CallPcs, Write(c, t, pc)
      PROVE  /\ calls'[c].pc = pc
             /\ calls'[c].ok /\ calls[c].alone => Progress(c)
  BY <1>1, <1>4, WriteFields DEF FilesInv, Undisturbed
<1>5. {"crontab", "kursor.conf", "main.cf", "vmailbox", "users"} \subseteq AllTargets
  BY TargetsOfServices
<1>6. CASE WriteConf(c) /\ Write(c, "kursor.conf", "test")
  <2>1. calls[c].pc = "conf"
    BY <1>6 DEF WriteConf, CallAt
  <2>2. calls'[c].ok /\ calls[c].alone => Progress(c)'
    <3> SUFFICES ASSUME calls'[c].ok, calls[c].alone PROVE Progress(c)'
      OBVIOUS
    <3>1. service = "dns" /\ Fresh(c) /\ calls'[c].pc = "test"
      BY <1>4, <1>5, <1>6, <2>1 DEF Progress, CallPcs
    <3>2. Is("kursor.conf")'
      BY <1>1, <1>5, <1>6, <3>1, WrittenIs, TargetsOfServices DEF Fresh, CallPcs
    <3> QED BY <1>1, <3>1, <3>2 DEF Progress
  <2> QED BY <1>3, <1>5, <1>6, <2>2 DEF CallPcs
<1>7. CASE PostconfDomains(c) /\ Write(c, "main.cf", "vmailbox")
  <2>1. calls[c].pc = "main.cf"
    BY <1>7 DEF PostconfDomains, CallAt
  <2>2. calls'[c].ok /\ calls[c].alone => Progress(c)'
    <3> SUFFICES ASSUME calls'[c].ok, calls[c].alone PROVE Progress(c)'
      OBVIOUS
    <3>1. service = "mail" /\ Fresh(c) /\ calls'[c].pc = "vmailbox"
      BY <1>4, <1>5, <1>7, <2>1 DEF Progress, CallPcs
    <3>2. Is("main.cf")' /\ Fresh(c)'
      BY <1>1, <1>5, <1>7, <3>1, WrittenIs, TargetsOfServices DEF Fresh, CallPcs
    <3> QED BY <1>1, <3>1, <3>2 DEF Progress
  <2> QED BY <1>3, <1>5, <1>7, <2>2 DEF CallPcs
<1>8. CASE WriteVmailbox(c) /\ Write(c, "vmailbox", "postmap")
  <2>1. calls[c].pc = "vmailbox"
    BY <1>8 DEF WriteVmailbox, CallAt
  <2>2. calls'[c].ok /\ calls[c].alone => Progress(c)'
    <3> SUFFICES ASSUME calls'[c].ok, calls[c].alone PROVE Progress(c)'
      OBVIOUS
    <3>1. service = "mail" /\ Fresh(c) /\ Is("main.cf") /\ calls'[c].pc = "postmap"
      BY <1>4, <1>5, <1>8, <2>1 DEF Progress, CallPcs
    <3>2. Is("main.cf")' /\ Is("vmailbox")' /\ Fresh(c)'
      BY <1>1, <1>5, <1>8, <3>1, WrittenIs, TargetsOfServices DEF Fresh, CallPcs
    <3> QED BY <1>1, <3>1, <3>2 DEF Progress
  <2> QED BY <1>3, <1>5, <1>8, <2>2 DEF CallPcs
<1>9. CASE WriteUsers(c) /\ Write(c, "users", "dovecot")
  <2>1. calls[c].pc = "users"
    BY <1>9 DEF WriteUsers, CallAt
  <2>2. calls'[c].ok /\ calls[c].alone => Progress(c)'
    <3> SUFFICES ASSUME calls'[c].ok, calls[c].alone PROVE Progress(c)'
      OBVIOUS
    <3>1. /\ service = "mail" /\ Fresh(c) /\ Is("main.cf") /\ Is("vmailbox")
          /\ Took("main.cf") /\ Took("vmailbox") /\ calls'[c].pc = "dovecot"
      BY <1>4, <1>5, <1>9, <2>1 DEF Progress, CallPcs
    <3>2. /\ Is("main.cf")' /\ Is("vmailbox")' /\ Is("users")' /\ Took("main.cf")' /\ Took("vmailbox")'
      BY <1>1, <1>5, <1>9, <3>1, WrittenIs, TargetsOfServices DEF Fresh, CallPcs
    <3> QED BY <1>1, <3>1, <3>2 DEF Progress
  <2> QED BY <1>3, <1>5, <1>9, <2>2 DEF CallPcs
<1> QED BY <1>2, <1>6, <1>7, <1>8, <1>9 DEF WriteConf, PostconfDomains, WriteVmailbox, WriteUsers

LEMMA TestingStep ==
  ASSUME FilesInv, NEW c \in Calls, TestConf(c) \/ Postmap(c)
  PROVE  FilesInv'
<1>1. FilesTypeOK /\ calls[c] # NoCall /\ UNCHANGED <<service, table, live, crossed>>
  BY DEF FilesInv, TestConf, Postmap, CallAt
<1>2. CASE Fail(c)
  <2>1. calls[c].prev \in Content \cup {NoFile}
    BY <1>1, CallFields
  <2>2. file' \in [AllTargets -> Content \cup {NoFile}]
    BY <1>1, <2>1 DEF TestConf, Postmap, FilesTypeOK
  <2> QED BY <1>1, <1>2, <2>2, FailingStep, StepKeeps DEF FilesTypeOK
<1>3. ASSUME NEW pc \in {"restart", "check"}, Proceed(c, pc), file' = file,
             calls[c].pc = IF pc = "restart" THEN "test" ELSE "postmap"
      PROVE  FilesInv'
  <2>1. /\ calls' \in [Calls -> Call \cup {NoCall}]
        /\ calls'[c] # NoCall /\ calls'[c].pc = pc /\ calls'[c].seen = calls[c].seen
        /\ calls'[c].ok = calls[c].ok /\ calls'[c].alone = calls[c].alone
        /\ \A d \in Calls \ {c} : calls'[d] = calls[d]
    BY <1>1, <1>3, ProceedFields DEF CallPcs
  <2>2. ASSUME calls'[c].ok, calls[c].alone PROVE Progress(c)'
    <3>1. Progress(c)
      BY <1>1, <2>1, <2>2 DEF FilesInv, Undisturbed
    <3>2. Targets(service)' = Targets(service)
      BY <1>1 DEF Targets
    <3>3. /\ \A t : Is(t)' <=> Is(t)
          /\ Fresh(c)' <=> Fresh(c)
      BY <1>1, <1>3, <2>1, <3>2 DEF Is, Shown, Fresh, Render
    <3> QED BY <1>1, <1>3, <2>1, <3>1, <3>3 DEF Progress
  <2>3. StepOf(c)
    BY <2>1, <2>2 DEF StepOf
  <2> QED BY <1>1, <1>3, <2>3, StepKeeps DEF FilesTypeOK
<1> QED BY <1>2, <1>3 DEF TestConf, Postmap, CallAt

LEMMA LoadingStep ==
  ASSUME FilesInv, NEW c \in Calls, RestartDns(c) \/ ReloadPostfix(c) \/ RestartDovecot(c)
  PROVE  FilesInv'
<1>1. FilesTypeOK /\ calls[c] # NoCall /\ UNCHANGED <<service, table, file, crossed>>
  BY DEF FilesInv, RestartDns, ReloadPostfix, RestartDovecot, CallAt
<1>2. \A t \in AllTargets : Shown(t) \in Content
  BY <1>1, NothingType DEF Shown, FilesTypeOK
<1>3. live' \in [AllTargets -> Content]
  BY <1>1, <1>2, NothingType, TargetsOfServices
     DEF RestartDns, ReloadPostfix, RestartDovecot, FilesTypeOK
<1>4. Targets(service)' = Targets(service) /\ (\A t : Is(t)' <=> Is(t))
      /\ (\A t : Render(table, t)' = Render(table, t))
  BY <1>1 DEF Targets, Is, Shown, Render
<1>5. CASE Fail(c)
  BY <1>1, <1>3, <1>5, FailingStep, StepKeeps DEF FilesTypeOK
<1>6. CASE ReloadPostfix(c) /\ ~Fail(c)
  <2>1. /\ calls[c].pc = "check" /\ Proceed(c, "users")
        /\ live' = [live EXCEPT !["main.cf"] = Shown("main.cf"), !["vmailbox"] = Shown("vmailbox")]
    BY <1>6 DEF ReloadPostfix, CallAt
  <2>2. /\ calls' \in [Calls -> Call \cup {NoCall}]
        /\ calls'[c] # NoCall /\ calls'[c].pc = "users" /\ calls'[c].seen = calls[c].seen
        /\ calls'[c].ok = calls[c].ok /\ calls'[c].alone = calls[c].alone
        /\ \A d \in Calls \ {c} : calls'[d] = calls[d]
    BY <1>1, <2>1, ProceedFields DEF CallPcs
  <2>3. ASSUME calls'[c].ok, calls[c].alone PROVE Progress(c)'
    <3>1. service = "mail" /\ Fresh(c) /\ Is("main.cf") /\ Is("vmailbox")
      BY <1>1, <2>1, <2>2, <2>3 DEF FilesInv, Undisturbed, Progress
    <3>2. live'["main.cf"] = Shown("main.cf") /\ live'["vmailbox"] = Shown("vmailbox")
      BY <1>1, <2>1, TargetsOfServices DEF FilesTypeOK
    <3>3. Took("main.cf")' /\ Took("vmailbox")'
      BY <1>4, <3>1, <3>2 DEF Is, Took
    <3>4. Fresh(c)'
      BY <1>1, <1>4, <2>2, <3>1 DEF Fresh, Render
    <3> QED BY <1>1, <1>4, <2>2, <3>1, <3>3, <3>4 DEF Progress
  <2>4. StepOf(c)
    BY <2>2, <2>3 DEF StepOf
  <2> QED BY <1>1, <1>3, <2>4, StepKeeps DEF FilesTypeOK
<1>7. ASSUME NEW t \in {"kursor.conf", "users"}, Finish(c), live' = [live EXCEPT ![t] = Shown(t)],
             calls[c].pc = IF t = "users" THEN "dovecot" ELSE "restart"
      PROVE  FilesInv'
  <2>1. /\ calls' \in [Calls -> Call \cup {NoCall}]
        /\ calls'[c] # NoCall /\ calls'[c].pc = "answer"
        /\ calls'[c].ok = calls[c].ok /\ calls'[c].alone = calls[c].alone
        /\ \A d \in Calls \ {c} : calls'[d] = calls[d]
    BY <1>1, <1>7, FinishFields
  <2>2. ASSUME calls'[c].ok, calls[c].alone PROVE Progress(c)'
    <3>1. Progress(c)
      BY <1>1, <2>1, <2>2 DEF FilesInv, Undisturbed
    <3>2. live'[t] = Shown(t) /\ \A s \in AllTargets \ {t} : live'[s] = live[s]
      BY <1>1, <1>7, TargetsOfServices DEF FilesTypeOK
    <3>3. CASE t = "kursor.conf"
      <4>1. service = "dns" /\ Is("kursor.conf")
        BY <1>7, <3>1, <3>3 DEF Progress
      <4>2. Took("kursor.conf")'
        BY <1>4, <3>2, <3>3, <4>1 DEF Is, Took
      <4> QED BY <1>1, <1>4, <2>1, <4>1, <4>2, TargetsOfServices DEF Progress
    <3>4. CASE t = "users"
      <4>1. /\ service = "mail" /\ Is("main.cf") /\ Is("vmailbox") /\ Is("users")
            /\ Took("main.cf") /\ Took("vmailbox")
        BY <1>7, <3>1, <3>4 DEF Progress
      <4>2. Took("main.cf")' /\ Took("vmailbox")' /\ Took("users")'
        BY <1>4, <3>2, <3>4, <4>1, TargetsOfServices DEF Is, Took
      <4> QED BY <1>1, <1>4, <2>1, <4>1, <4>2, TargetsOfServices DEF Progress
    <3> QED BY <3>3, <3>4
  <2>3. StepOf(c)
    BY <2>1, <2>2 DEF StepOf
  <2> QED BY <1>1, <1>3, <2>3, StepKeeps DEF FilesTypeOK
<1> QED BY <1>5, <1>6, <1>7 DEF RestartDns, ReloadPostfix, RestartDovecot, CallAt

-----------------------------------------------------------------------------
(* One handler after another: what a failure in one leaves behind.         *)

Listed(content, i, t) ==
  table[i] # NoItem /\ table[i].sort = SortIn(t) =>
    content[i] # NoItem /\ content[i].name = table[i].name

\* No DNS or mail row, the ones in but apart, that its file does not have.
Honest(but) ==
  service # "cron" => \A i \in Items \ but : \A t \in Targets(service) : Listed(Shown(t), i, t)

DnsAccepted == Accepted(Shown("kursor.conf"))

\* What a rollback puts back.
Before(c)  == IF calls[c].prev = NoFile THEN Nothing ELSE calls[c].prev

\* The row a creation has not got into its files yet: it goes again if it cannot.
Unnamed(c) == IF calls[c].op = "create" /\ calls[c].pc # "answer" THEN {calls[c].item} ELSE {}

CallTurn(c) ==
  LET pc == calls[c].pc
      BeforeLists(t) == \A i \in Items \ Unnamed(c) : Listed(Before(c), i, t) IN
    /\ calls[c].alone
    /\ Honest(Unnamed(c))
    /\ service # "cron" /\ pc \notin {"undo", "answer"} => calls[c].ok
    /\ pc = "row" /\ calls[c].op = "create" => table[calls[c].item] = NoItem
    /\ IF pc = "test" THEN Accepted(Before(c)) ELSE DnsAccepted
    /\ service # "cron" /\ pc = "test" => BeforeLists("kursor.conf")
    /\ service # "cron" /\ pc = "postmap" /\ calls[c].prev # NoFile => BeforeLists("vmailbox")

HonestInv ==
  ~crossed =>
    /\ Idle => Honest({}) /\ DnsAccepted
    /\ \A c \in Calls : calls[c] # NoCall => CallTurn(c)

LEMMA RenderLists ==
  ASSUME table \in Content, NEW t, NEW i \in Items
  PROVE  Listed(Render(table, t), i, t)
<1> SUFFICES ASSUME table[i] # NoItem, table[i].sort = SortIn(t)
             PROVE  Render(table, t)[i] # NoItem /\ Render(table, t)[i].name = table[i].name
  BY DEF Listed
<1>1. table[i] \in Entry
  BY DEF Content
<1>2. Render(table, t)[i] = Line(table[i], t)
  BY DEF Render
<1>3. Line(table[i], t) \in Entry /\ Line(table[i], t).name = table[i].name
  BY <1>1 DEF Line, Entry
<1> QED BY <1>2, <1>3, NoneOfThem

\* Steps that leave table and files alone.
LEMMA Unmoved ==
  ASSUME UNCHANGED <<service, table, file>>
  PROVE  /\ \A but : Honest(but)' <=> Honest(but)
         /\ \A content, i, t : Listed(content, i, t)' <=> Listed(content, i, t)
         /\ \A t : Shown(t)' = Shown(t)
         /\ DnsAccepted' <=> DnsAccepted
<1>1. \A t : Shown(t)' = Shown(t)
  BY DEF Shown
<1>2. \A content, i, t : Listed(content, i, t)' <=> Listed(content, i, t)
  BY DEF Listed
<1>3. \A but : Honest(but)' <=> Honest(but)
  <2>1. Targets(service)' = Targets(service)
    BY DEF Targets
  <2> QED BY <1>1, <2>1 DEF Honest, Listed
<1> QED BY <1>1, <1>2, <1>3 DEF DnsAccepted

LEMMA OnlyOne ==
  ASSUME FilesInv, HonestInv, ~crossed, NEW c \in Calls, calls[c] # NoCall
  PROVE  /\ CallTurn(c) /\ calls[c].alone /\ \A d \in Calls \ {c} : calls[d] = NoCall
         /\ calls[c].ok => Progress(c)
BY DEF HonestInv, CallTurn, FilesInv, Undisturbed

LEMMA HonestStep ==
  ASSUME FilesInv, HonestInv, NEW c \in Calls, calls[c] # NoCall, crossed' = crossed,
         \A d \in Calls \ {c} : calls'[d] = calls[d],
         ~crossed => calls'[c] # NoCall /\ CallTurn(c)'
  PROVE  HonestInv'
<1> SUFFICES ASSUME ~crossed PROVE HonestInv'
  BY DEF HonestInv
<1>1. calls'[c] # NoCall /\ \A d \in Calls \ {c} : calls'[d] = NoCall
  BY OnlyOne
<1>2. ~Idle'
  BY <1>1 DEF Idle
<1> QED BY <1>1, <1>2 DEF HonestInv

\* An error on the way: a creation is undone, anything else has nothing to undo.
LEMMA FailTurn ==
  ASSUME FilesTypeOK, NEW c \in Calls, calls[c] # NoCall, calls[c].pc # "answer", calls[c].alone,
         Fail(c), service' = service, DnsAccepted',
         NEW but, but = Unnamed(c), Honest(but)'
  PROVE  CallTurn(c)'
<1>1. /\ calls'[c].pc = AfterError(calls[c]) /\ calls'[c].alone
      /\ calls'[c].op = calls[c].op /\ calls'[c].item = calls[c].item
  BY FailFields
<1>2. calls'[c].pc = IF calls[c].op = "create" /\ service # "cron" THEN "undo" ELSE "answer"
  BY <1>1 DEF AfterError
<1>3. service # "cron" => Unnamed(c)' = but
  BY <1>1, <1>2 DEF Unnamed
<1>4. Honest(Unnamed(c))'
  BY <1>3 DEF Honest
<1> QED BY <1>1, <1>2, <1>4 DEF CallTurn

LEMMA SameRows ==
  ASSUME UNCHANGED <<service, file>>, NEW but, Honest(but),
         \A i \in Items \ but : table'[i] # NoItem =>
           table[i] # NoItem /\ table'[i].sort = table[i].sort /\ table'[i].name = table[i].name
  PROVE  Honest(but)'
<1>1. Targets(service)' = Targets(service) /\ \A t : Shown(t)' = Shown(t)
  BY DEF Targets, Shown
<1> QED BY <1>1 DEF Honest, Listed

LEMMA RowTurn ==
  ASSUME FilesInv, HonestInv, ~crossed, NEW c \in Calls,
         InsertRow(c) \/ UpdateRow(c) \/ RemoveRow(c)
  PROVE  calls'[c] # NoCall /\ CallTurn(c)'
<1>1. /\ FilesTypeOK /\ calls[c] # NoCall /\ calls[c].pc = "row"
      /\ UNCHANGED <<service, file>> /\ calls[c].item \in Items /\ table \in [Items -> Entry \cup {NoItem}]
  BY CallFields DEF FilesInv, FilesTypeOK, Content, InsertRow, UpdateRow, RemoveRow, CallAt
<1>2. CallTurn(c) /\ calls[c].alone
  BY <1>1, OnlyOne
<1>3. /\ Honest(Unnamed(c)) /\ DnsAccepted' /\ (service # "cron" => calls[c].ok)
      /\ calls[c].op = "create" => table[calls[c].item] = NoItem
  BY <1>1, <1>2 DEF CallTurn, DnsAccepted, Shown
<1>4. CASE calls' = [calls EXCEPT ![c] = [@ EXCEPT !.pc = "answer", !.ok = FALSE]] /\ UNCHANGED table
           /\ calls[c].op = "create"
  <2> DEFINE q == [calls[c] EXCEPT !.pc = "answer", !.ok = FALSE]
  <2>1. q \in Call /\ q.pc = "answer" /\ q.alone
    BY <1>1, <1>2, CallFields DEF Call
  <2>2. calls' = [calls EXCEPT ![c] = q]
    BY <1>4
  <2> HIDE DEF q
  <2>3. calls'[c] = q /\ calls'[c] # NoCall
    BY <1>1, <2>1, <2>2, Replaced
  <2>4. Unnamed(c)' = {}
    BY <2>1, <2>3 DEF Unnamed
  <2>5. Honest({})
    BY <1>1, <1>3, <1>4 DEF Honest, Unnamed, Listed
  <2>6. Honest({})'
    BY <1>1, <1>4, <2>5, Unmoved
  <2> QED BY <1>3, <2>1, <2>3, <2>4, <2>6 DEF CallTurn
<1>5. CASE Proceed(c, "list")
  <2>1. /\ calls'[c] # NoCall /\ calls'[c].pc = "list" /\ calls'[c].alone
        /\ calls'[c].ok = calls[c].ok /\ calls'[c].op = calls[c].op /\ calls'[c].item = calls[c].item
    BY <1>1, <1>2, <1>5, ProceedFields DEF CallPcs
  <2> PICK but : but = Unnamed(c)
    OBVIOUS
  <2>2. Unnamed(c)' = but
    BY <1>1, <2>1 DEF Unnamed
  <2>3. \A i \in Items \ but : table'[i] # NoItem =>
          table[i] # NoItem /\ table'[i].sort = table[i].sort /\ table'[i].name = table[i].name
    <3>1. CASE InsertRow(c) /\ ~UNCHANGED table
      BY <1>1, <3>1 DEF InsertRow, Unnamed
    <3>2. CASE UpdateRow(c) /\ ~UNCHANGED table
      <4> DEFINE i == calls[c].item
                 e == [table[i] EXCEPT !.flag = ~calls[c].entry.flag]
      <4>1. table[i] \in Entry /\ table' = [table EXCEPT ![i] = e]
        BY <1>1, <3>2 DEF UpdateRow
      <4>2. e.sort = table[i].sort /\ e.name = table[i].name
        BY <4>1 DEF Entry
      <4>3. table[i] # NoItem
        BY <4>1, NoneOfThem
      <4> HIDE DEF i, e
      <4>4. i \in Items
        BY <1>1 DEF i
      <4> QED BY <1>1, <4>1, <4>2, <4>3, <4>4
    <3>3. CASE RemoveRow(c) /\ ~UNCHANGED table
      BY <1>1, <3>3 DEF RemoveRow
    <3> QED BY <3>1, <3>2, <3>3
  <2>4. Honest(but)'
    BY <1>1, <1>3, <2>3, SameRows
  <2> QED BY <1>1, <1>3, <2>1, <2>2, <2>4 DEF CallTurn
<1> QED BY <1>4, <1>5 DEF InsertRow, UpdateRow, RemoveRow

\* Steps that only read.
LEMMA ReadTurn ==
  ASSUME FilesInv, HonestInv, ~crossed, NEW c \in Calls, calls[c] # NoCall,
         calls[c].pc \notin {"test", "answer"}, UNCHANGED <<service, table, file>>,
         calls'[c].op = calls[c].op, calls'[c].item = calls[c].item, calls'[c].alone = calls[c].alone,
         calls'[c].ok = calls[c].ok \/ service = "cron",
         calls'[c].pc \notin {"row", "test", "postmap", "undo", "answer"}, calls[c].pc # "undo"
  PROVE  CallTurn(c)'
<1>1. CallTurn(c) /\ calls[c].alone
  BY OnlyOne
<1>2. Unnamed(c)' = Unnamed(c)
  BY DEF Unnamed
<1>3. Honest(Unnamed(c))' /\ DnsAccepted'
  BY <1>1, <1>2, Unmoved DEF CallTurn
<1> QED BY <1>1, <1>3 DEF CallTurn

LEMMA FailHere ==
  ASSUME FilesInv, HonestInv, ~crossed, NEW c \in Calls, calls[c] # NoCall, Fail(c),
         calls[c].pc \notin {"test", "answer"}, UNCHANGED <<service, table, file>>
  PROVE  CallTurn(c)'
<1>1. CallTurn(c) /\ calls[c].alone
  BY OnlyOne
<1> PICK but : but = Unnamed(c)
  OBVIOUS
<1>2. Honest(but)' /\ DnsAccepted'
  BY <1>1, Unmoved DEF CallTurn
<1> QED BY <1>1, <1>2, FailTurn DEF FilesInv

LEMMA ListTurn ==
  ASSUME FilesInv, HonestInv, ~crossed, NEW c \in Calls,
         ListJobs(c) \/ ListRecords(c) \/ ListDomains(c) \/ ListBoxes(c)
  PROVE  calls'[c] # NoCall /\ CallTurn(c)'
<1>1. /\ FilesTypeOK /\ calls[c] # NoCall /\ calls[c].pc \in {"list", "boxes"} /\ table \in Content
      /\ calls[c].seen \in Content /\ UNCHANGED <<service, table, file>>
  BY CallFields DEF FilesInv, FilesTypeOK, ListJobs, ListRecords, ListDomains, ListBoxes, CallAt
<1>2. CASE Fail(c)
  BY <1>1, <1>2, FailHere, FailFields
<1>3. ASSUME NEW pc \in {"crontab", "conf", "boxes", "main.cf"}, NEW rows \in Content,
             calls' = [calls EXCEPT ![c] = [@ EXCEPT !.pc = pc, !.seen = rows]]
      PROVE  calls'[c] # NoCall /\ CallTurn(c)'
  <2>1. /\ calls'[c] # NoCall /\ calls'[c].pc = pc /\ calls'[c].alone = calls[c].alone
        /\ calls'[c].ok = calls[c].ok /\ calls'[c].op = calls[c].op /\ calls'[c].item = calls[c].item
    BY <1>1, <1>3, SeenFields DEF CallPcs
  <2> QED BY <1>1, <1>3, <2>1, ReadTurn
<1>4. CASE calls' = [calls EXCEPT ![c] = [@ EXCEPT !.pc = "crontab", !.ok = FALSE]] /\ service = "cron"
  <2> DEFINE q == [calls[c] EXCEPT !.pc = "crontab", !.ok = FALSE]
  <2>1. /\ q \in Call /\ q.pc = "crontab" /\ q.alone = calls[c].alone /\ q.op = calls[c].op
        /\ q.item = calls[c].item
    BY <1>1, CallFields DEF Call
  <2>2. calls' = [calls EXCEPT ![c] = q]
    BY <1>4
  <2> HIDE DEF q
  <2>3. calls'[c] = q /\ calls'[c] # NoCall
    BY <1>1, <2>1, <2>2, Replaced
  <2> QED BY <1>1, <1>4, <2>1, <2>3, ReadTurn
<1>5. /\ [i \in Items |-> IF table[i] # NoItem /\ table[i].sort = "domain" THEN table[i] ELSE NoItem]
           \in Content
      /\ [i \in Items |-> IF table[i] # NoItem /\ table[i].sort = "mailbox" THEN table[i]
                          ELSE calls[c].seen[i]] \in Content
  BY <1>1 DEF Content
<1>6. CASE ListJobs(c)
  BY <1>1, <1>3, <1>4, <1>6 DEF ListJobs
<1>7. CASE ListRecords(c)
  BY <1>1, <1>2, <1>3, <1>7 DEF ListRecords
<1>8. CASE ListDomains(c)
  BY <1>1, <1>2, <1>3, <1>5, <1>8 DEF ListDomains
<1>9. CASE ListBoxes(c)
  BY <1>1, <1>2, <1>3, <1>5, <1>9 DEF ListBoxes
<1> QED BY <1>6, <1>7, <1>8, <1>9

LEMMA CrontabTurn ==
  ASSUME FilesInv, HonestInv, ~crossed, NEW c \in Calls, SyncCrontab(c)
  PROVE  calls'[c] # NoCall /\ CallTurn(c)'
<1>1. /\ FilesTypeOK /\ calls[c] # NoCall /\ calls[c].pc = "crontab" /\ UNCHANGED <<service, table>>
  BY DEF FilesInv, SyncCrontab, CallAt
<1>2. CASE Fail(c) /\ UNCHANGED file
  BY <1>1, <1>2, FailHere, FailFields
<1>3. CASE ~(Fail(c) /\ UNCHANGED file)
  <2>1. CallTurn(c) /\ calls[c].alone /\ (calls[c].ok => Progress(c))
    BY <1>1, OnlyOne
  <2>2. service = "cron"
    BY <1>1, <2>1 DEF CallTurn, Progress
  <2>3. Finish(c) /\ file'["kursor.conf"] = file["kursor.conf"]
    BY <1>1, <1>3, TargetsOfServices DEF SyncCrontab, FilesTypeOK
  <2>4. DnsAccepted'
    BY <1>1, <2>1, <2>3 DEF CallTurn, DnsAccepted, Shown
  <2>5. calls'[c] # NoCall /\ calls'[c].pc = "answer" /\ calls'[c].alone
    BY <1>1, <2>1, <2>3, FinishFields
  <2> QED BY <1>1, <2>2, <2>4, <2>5 DEF CallTurn, Honest
<1> QED BY <1>2, <1>3

LEMMA WrittenTurn ==
  ASSUME FilesInv, HonestInv, ~crossed, NEW c \in Calls, calls[c] # NoCall,
         calls[c].pc \notin {"test", "answer", "undo"}, UNCHANGED <<service, table>>,
         NEW t \in AllTargets, NEW pc \in CallPcs \ {"row", "undo", "answer"}, Write(c, t, pc),
         (pc = "test" <=> t = "kursor.conf"), pc = "postmap" => t = "vmailbox",
         service # "cron" => t \in Targets(service) /\ Render(calls[c].seen, t) = Render(table, t)
  PROVE  calls'[c] # NoCall /\ CallTurn(c)'
<1>1. FilesTypeOK /\ table \in Content
  BY DEF FilesInv, FilesTypeOK
<1>2. /\ CallTurn(c) /\ calls[c].alone /\ Honest(Unnamed(c)) /\ DnsAccepted
      /\ service # "cron" => calls[c].ok
  BY OnlyOne DEF CallTurn
<1>3. /\ calls'[c] # NoCall /\ calls'[c].pc = pc /\ calls'[c].alone /\ calls'[c].ok = calls[c].ok
      /\ calls'[c].op = calls[c].op /\ calls'[c].item = calls[c].item /\ calls'[c].prev = file[t]
      /\ file'[t] = Render(calls[c].seen, t) /\ file'[t] # NoFile
      /\ \A s \in AllTargets \ {t} : file'[s] = file[s]
  BY <1>1, <1>2, WriteFields
<1> PICK but : but = Unnamed(c)
  OBVIOUS
<1>4. Unnamed(c)' = but
  BY <1>3 DEF Unnamed
<1>5. Shown(t)' = Render(calls[c].seen, t) /\ \A s \in AllTargets \ {t} : Shown(s)' = Shown(s)
  BY <1>3 DEF Shown
<1>6. \A content, i, s : Listed(content, i, s)' <=> Listed(content, i, s)
  BY DEF Listed
<1>7. Honest(but)'
  <2> SUFFICES ASSUME service # "cron", NEW i \in Items \ but, NEW s \in Targets(service)
               PROVE  Listed(Shown(s)', i, s)
    <3>1. Targets(service)' = Targets(service)
      BY DEF Targets
    <3>2. \A i, s : Listed(Shown(s), i, s)' <=> Listed(Shown(s)', i, s)
      BY DEF Listed
    <3> QED BY <3>1, <3>2 DEF Honest
  <2>1. CASE s = t
    BY <1>1, <1>5, <2>1, RenderLists
  <2>2. CASE s # t
    <3>1. s \in AllTargets
      BY TargetsOfServices, <1>1 DEF FilesTypeOK, Services, Targets
    <3> QED BY <1>2, <1>5, <2>2, <3>1 DEF Honest
  <2> QED BY <2>1, <2>2
<1>8. Before(c)' = Shown(t)
  BY <1>3 DEF Before, Shown, Nothing
<1>9. pc # "test" => DnsAccepted'
  BY <1>2, <1>5, TargetsOfServices DEF DnsAccepted
<1>10. service # "cron" => \A i \in Items \ but : Listed(Shown(t), i, t)
  BY <1>2 DEF Honest
<1>11. pc = "test" => Accepted(Before(c)')
  BY <1>2, <1>8 DEF DnsAccepted
<1>12. \A i, s : Listed(Before(c), i, s)' <=> Listed(Shown(t), i, s)
  BY <1>8 DEF Listed
<1> QED BY <1>2, <1>3, <1>4, <1>7, <1>9, <1>10, <1>11, <1>12 DEF CallTurn

LEMMA WriteTurn ==
  ASSUME FilesInv, HonestInv, ~crossed, NEW c \in Calls,
         WriteConf(c) \/ PostconfDomains(c) \/ WriteVmailbox(c) \/ WriteUsers(c)
  PROVE  calls'[c] # NoCall /\ CallTurn(c)'
<1>1. /\ FilesTypeOK /\ calls[c] # NoCall /\ UNCHANGED <<service, table>>
      /\ calls[c].pc \in {"conf", "main.cf", "vmailbox", "users"}
  BY DEF FilesInv, WriteConf, PostconfDomains, WriteVmailbox, WriteUsers, CallAt
<1>2. CASE Fail(c) /\ UNCHANGED file
  BY <1>1, <1>2, FailHere, FailFields
<1>3. service # "cron" => /\ Fresh(c) /\ service \in {"dns", "mail"}
                          /\ (calls[c].pc = "conf" <=> service = "dns")
  BY <1>1, OnlyOne DEF CallTurn, Progress
<1>4. {"crontab", "kursor.conf", "main.cf", "vmailbox", "users"} \subseteq AllTargets
  BY TargetsOfServices
<1>5. CASE WriteConf(c) /\ Write(c, "kursor.conf", "test")
  <2>1. calls[c].pc = "conf"
    BY <1>5 DEF WriteConf, CallAt
  <2> QED BY <1>1, <1>3, <1>4, <1>5, <2>1, WrittenTurn, TargetsOfServices DEF CallPcs, Fresh
<1>6. CASE PostconfDomains(c) /\ Write(c, "main.cf", "vmailbox")
  <2>1. calls[c].pc = "main.cf"
    BY <1>6 DEF PostconfDomains, CallAt
  <2> QED BY <1>1, <1>3, <1>4, <1>6, <2>1, WrittenTurn, TargetsOfServices DEF CallPcs, Fresh
<1>7. CASE WriteVmailbox(c) /\ Write(c, "vmailbox", "postmap")
  <2>1. calls[c].pc = "vmailbox"
    BY <1>7 DEF WriteVmailbox, CallAt
  <2> QED BY <1>1, <1>3, <1>4, <1>7, <2>1, WrittenTurn, TargetsOfServices DEF CallPcs, Fresh
<1>8. CASE WriteUsers(c) /\ Write(c, "users", "dovecot")
  <2>1. calls[c].pc = "users"
    BY <1>8 DEF WriteUsers, CallAt
  <2> QED BY <1>1, <1>3, <1>4, <1>8, <2>1, WrittenTurn, TargetsOfServices DEF CallPcs, Fresh
<1> QED BY <1>2, <1>5, <1>6, <1>7, <1>8 DEF WriteConf, PostconfDomains, WriteVmailbox, WriteUsers

LEMMA TestTurn ==
  ASSUME FilesInv, HonestInv, ~crossed, NEW c \in Calls, TestConf(c)
  PROVE  calls'[c] # NoCall /\ CallTurn(c)'
<1>1. /\ FilesTypeOK /\ calls[c] # NoCall /\ calls[c].pc = "test" /\ UNCHANGED <<service, table>>
  BY DEF FilesInv, TestConf, CallAt
<1>2. /\ CallTurn(c) /\ calls[c].alone /\ Honest(Unnamed(c)) /\ Accepted(Before(c))
      /\ service # "cron" => /\ service = "dns" /\ calls[c].ok
                             /\ \A i \in Items \ Unnamed(c) : Listed(Before(c), i, "kursor.conf")
  BY <1>1, OnlyOne DEF CallTurn, Progress
<1> PICK but : but = Unnamed(c)
  OBVIOUS
<1>3. CASE Accepted(Shown("kursor.conf")) /\ Proceed(c, "restart") /\ UNCHANGED file
  <2>1. /\ calls'[c] # NoCall /\ calls'[c].pc = "restart" /\ calls'[c].alone
        /\ calls'[c].ok = calls[c].ok /\ calls'[c].op = calls[c].op /\ calls'[c].item = calls[c].item
    BY <1>1, <1>2, <1>3, ProceedFields DEF CallPcs
  <2>2. Unnamed(c)' = but
    BY <1>1, <2>1 DEF Unnamed
  <2>3. Honest(but)' /\ DnsAccepted'
    BY <1>1, <1>2, <1>3, Unmoved DEF DnsAccepted
  <2> QED BY <1>1, <1>2, <2>1, <2>2, <2>3 DEF CallTurn
<1>4. CASE file' = [file EXCEPT !["kursor.conf"] = calls[c].prev] /\ Fail(c)
  <2>1. Shown("kursor.conf")' = Before(c)
    BY <1>1, <1>4, TargetsOfServices DEF FilesTypeOK, Shown, Before, Nothing
  <2>2. DnsAccepted'
    BY <1>2, <2>1 DEF DnsAccepted
  <2>3. Honest(but)'
    <3>1. \A i, t : Listed(Shown(t), i, t)' <=> Listed(Shown(t)', i, t)
      BY <1>1 DEF Listed
    <3>2. service # "cron" => Targets(service)' = {"kursor.conf"}
      BY <1>1, <1>2, TargetsOfServices
    <3> QED BY <1>1, <1>2, <2>1, <3>1, <3>2 DEF Honest
  <2>4. calls'[c] # NoCall
    BY <1>1, <1>4, FailFields
  <2> QED BY <1>1, <1>2, <1>4, <2>2, <2>3, <2>4, FailTurn
<1> QED BY <1>3, <1>4 DEF TestConf

LEMMA PostmapTurn ==
  ASSUME FilesInv, HonestInv, ~crossed, NEW c \in Calls, Postmap(c)
  PROVE  calls'[c] # NoCall /\ CallTurn(c)'
<1>1. /\ FilesTypeOK /\ calls[c] # NoCall /\ calls[c].pc = "postmap" /\ UNCHANGED <<service, table>>
  BY DEF FilesInv, Postmap, CallAt
<1>2. CASE Proceed(c, "check") /\ UNCHANGED file
  BY <1>1, <1>2, ProceedFields, ReadTurn DEF CallPcs
<1>3. CASE Fail(c) /\ UNCHANGED file
  BY <1>1, <1>3, FailHere, FailFields
<1>4. CASE /\ Fail(c) /\ calls[c].prev # NoFile
           /\ file' = [file EXCEPT !["vmailbox"] = calls[c].prev]
  <2>1. /\ CallTurn(c) /\ calls[c].alone /\ Honest(Unnamed(c)) /\ DnsAccepted
        /\ service # "cron" => \A i \in Items \ Unnamed(c) : Listed(Before(c), i, "vmailbox")
    BY <1>1, <1>4, OnlyOne DEF CallTurn
  <2> PICK but : but = Unnamed(c)
    OBVIOUS
  <2>2. Shown("vmailbox")' = Before(c) /\ \A t \in AllTargets \ {"vmailbox"} : Shown(t)' = Shown(t)
    BY <1>1, <1>4, TargetsOfServices DEF FilesTypeOK, Shown, Before, Nothing
  <2>3. DnsAccepted'
    BY <2>1, <2>2, TargetsOfServices DEF DnsAccepted
  <2>4. Honest(but)'
    <3>1. \A i, t : Listed(Shown(t), i, t)' <=> Listed(Shown(t)', i, t)
      BY <1>1 DEF Listed
    <3>2. Targets(service)' = Targets(service) /\ Targets(service) \subseteq AllTargets
      BY <1>1, TargetsOfServices DEF FilesTypeOK, Services, Targets
    <3> SUFFICES ASSUME service # "cron", NEW i \in Items \ but, NEW t \in Targets(service)
                 PROVE  Listed(Shown(t)', i, t)
      BY <1>1, <3>1, <3>2 DEF Honest
    <3>3. CASE t = "vmailbox"
      BY <2>1, <2>2, <3>3
    <3>4. CASE t # "vmailbox"
      BY <2>1, <2>2, <3>2, <3>4 DEF Honest
    <3> QED BY <3>3, <3>4
  <2>5. calls'[c] # NoCall
    BY <1>1, <1>4, FailFields
  <2> QED BY <1>1, <1>4, <2>1, <2>3, <2>4, <2>5, FailTurn
<1> QED BY <1>2, <1>3, <1>4 DEF Postmap

LEMMA LoadTurn ==
  ASSUME FilesInv, HonestInv, ~crossed, NEW c \in Calls,
         RestartDns(c) \/ ReloadPostfix(c) \/ RestartDovecot(c)
  PROVE  calls'[c] # NoCall /\ CallTurn(c)'
<1>1. /\ FilesTypeOK /\ calls[c] # NoCall /\ calls[c].pc \in {"restart", "check", "dovecot"}
      /\ UNCHANGED <<service, table, file>>
  BY DEF FilesInv, RestartDns, ReloadPostfix, RestartDovecot, CallAt
<1>2. CASE Fail(c)
  BY <1>1, <1>2, FailHere, FailFields
<1>3. CASE calls[c].pc = "check" /\ Proceed(c, "users")
  BY <1>1, <1>3, ProceedFields, ReadTurn DEF CallPcs
<1>4. CASE calls[c].pc \in {"restart", "dovecot"} /\ Finish(c)
  <2>1. CallTurn(c) /\ calls[c].alone /\ DnsAccepted /\ (calls[c].ok => Progress(c))
    BY <1>1, OnlyOne DEF CallTurn
  <2>2. service # "cron" => \A t \in Targets(service) : Is(t)
    BY <1>1, <1>4, <2>1, TargetsOfServices DEF CallTurn, Progress
  <2>3. Honest({})
    <3> SUFFICES ASSUME service # "cron", NEW i \in Items, NEW t \in Targets(service)
                 PROVE  Listed(Shown(t), i, t)
      BY DEF Honest
    <3> QED BY <1>1, <2>2, RenderLists DEF Is, FilesTypeOK
  <2>4. calls'[c] # NoCall /\ calls'[c].pc = "answer" /\ calls'[c].alone
    BY <1>1, <1>4, <2>1, FinishFields
  <2>5. Unnamed(c)' = {}
    BY <2>4 DEF Unnamed
  <2>6. Honest({})' /\ DnsAccepted'
    BY <1>1, <2>1, <2>3, Unmoved
  <2> QED BY <2>4, <2>5, <2>6 DEF CallTurn
<1> QED BY <1>2, <1>3, <1>4 DEF RestartDns, ReloadPostfix, RestartDovecot, CallAt

LEMMA UndoTurn ==
  ASSUME FilesInv, HonestInv, ~crossed, NEW c \in Calls, UndoRow(c)
  PROVE  calls'[c] # NoCall /\ CallTurn(c)'
<1>1. /\ FilesTypeOK /\ calls[c] # NoCall /\ calls[c].pc = "undo" /\ UNCHANGED <<service, file>>
      /\ table' = [table EXCEPT ![calls[c].item] = NoItem] /\ Finish(c)
      /\ calls[c].item \in Items /\ table \in Content
  BY CallFields DEF FilesInv, FilesTypeOK, UndoRow, CallAt
<1>2. CallTurn(c) /\ calls[c].alone /\ Honest(Unnamed(c)) /\ DnsAccepted
  BY <1>1, OnlyOne DEF CallTurn
<1>3. calls'[c] # NoCall /\ calls'[c].pc = "answer" /\ calls'[c].alone
  BY <1>1, <1>2, FinishFields
<1>4. Unnamed(c)' = {}
  BY <1>3 DEF Unnamed
<1> PICK but : but = Unnamed(c)
  OBVIOUS
<1>5. /\ but \subseteq {calls[c].item} /\ table'[calls[c].item] = NoItem
      /\ \A i \in Items : table'[i] # NoItem => table'[i] = table[i]
  BY <1>1 DEF Unnamed, Content
<1>6. Honest(but)'
  BY <1>1, <1>2, <1>5, SameRows
<1>7. Honest({})'
  BY <1>5, <1>6 DEF Honest, Listed
<1>8. DnsAccepted'
  BY <1>1, <1>2 DEF DnsAccepted, Shown
<1> QED BY <1>3, <1>4, <1>7, <1>8 DEF CallTurn

LEMMA AnswerHonest ==
  ASSUME FilesInv, HonestInv, NEW c \in Calls, AnswerCall(c)
  PROVE  HonestInv'
<1> SUFFICES ASSUME ~crossed PROVE HonestInv'
  BY DEF HonestInv, AnswerCall
<1>1. /\ calls[c] # NoCall /\ calls[c].pc = "answer" /\ UNCHANGED <<service, table, file>>
      /\ calls'[c] = NoCall /\ \A d \in Calls \ {c} : calls'[d] = calls[d]
  BY DEF AnswerCall, CallAt, FilesInv, FilesTypeOK
<1>2. Honest({}) /\ DnsAccepted /\ \A d \in Calls \ {c} : calls[d] = NoCall
  BY <1>1, OnlyOne DEF CallTurn, Unnamed
<1>3. Honest({})' /\ DnsAccepted'
  BY <1>1, <1>2, Unmoved
<1> QED BY <1>1, <1>2, <1>3 DEF HonestInv

LEMMA AcceptHonest ==
  ASSUME FilesInv, HonestInv, NEW c \in Calls, AcceptCall(c)
  PROVE  HonestInv'
<1> SUFFICES ASSUME ~crossed' PROVE HonestInv'
  BY DEF HonestInv
<1>1. ~crossed /\ Idle /\ UNCHANGED <<service, table, file>>
  BY DEF AcceptCall
<1>2. PICK op \in {"create", "toggle", "delete"}, i \in Items, e \in Entry :
        /\ Wanted(op, i, e)
        /\ calls' = [d \in Calls |->
            IF d = c THEN [pc |-> "row", op |-> op, item |-> i, entry |-> e, seen |-> Nothing,
                           prev |-> NoFile, ok |-> TRUE, alone |-> Idle]
            ELSE IF calls[d] = NoCall THEN NoCall ELSE [calls[d] EXCEPT !.alone = FALSE]]
  BY DEF AcceptCall
<1> DEFINE q == [pc |-> "row", op |-> op, item |-> i, entry |-> e, seen |-> Nothing,
                 prev |-> NoFile, ok |-> TRUE, alone |-> Idle]
<1>3. q \in Call /\ q.pc = "row" /\ q.alone /\ q.ok /\ q.op = op /\ q.item = i
  BY <1>1, NothingType DEF Call, Idle
<1>4. calls'[c] = q /\ \A d \in Calls \ {c} : calls'[d] = NoCall
  BY <1>1, <1>2 DEF Idle
<1> HIDE DEF q
<1>5. Honest({})' /\ DnsAccepted'
  BY <1>1, Unmoved DEF HonestInv
<1>6. Honest(Unnamed(c))'
  BY <1>5 DEF Honest
<1>7. op = "create" => table[i] = NoItem
  BY <1>2 DEF Wanted
<1>8. CallTurn(c)'
  BY <1>1, <1>3, <1>4, <1>5, <1>6, <1>7 DEF CallTurn
<1>9. calls'[c] # NoCall
  BY <1>3, <1>4, NoneOfThem
<1> QED BY <1>4, <1>8, <1>9 DEF HonestInv, Idle

LEMMA HonestKeeps == FilesInv /\ HonestInv /\ [FilesNext]_filesVars => HonestInv'
<1> SUFFICES ASSUME FilesInv, HonestInv, [FilesNext]_filesVars PROVE HonestInv'
  OBVIOUS
<1>1. CASE Die
  <2> SUFFICES ASSUME ~crossed' PROVE HonestInv'
    BY DEF HonestInv
  <2>1. ~crossed /\ Idle /\ UNCHANGED <<service, table, file>> /\ \A c \in Calls : calls'[c] = NoCall
    BY <1>1 DEF Die
  <2> QED BY <2>1, Unmoved DEF HonestInv
<1>2. ASSUME NEW c \in Calls, FilesStep(c) PROVE HonestInv'
  <2>1. CASE AcceptCall(c) \/ AnswerCall(c)
    BY <2>1, AcceptHonest, AnswerHonest
  <2>2. CASE ~AcceptCall(c) /\ ~AnswerCall(c)
    <3> DEFINE OthersStay == \A d \in Calls \ {c} : calls'[d] = calls[d]
    <3>1. /\ \A pc : Proceed(c, pc) => OthersStay
          /\ \A t, pc : Write(c, t, pc) => OthersStay
          /\ Fail(c) => OthersStay
          /\ Finish(c) => OthersStay
      BY DEF Proceed, Write, Fail, Finish, FilesInv, FilesTypeOK
    <3>2. ASSUME InsertRow(c) \/ UpdateRow(c) \/ RemoveRow(c) \/ UndoRow(c)
          PROVE  calls[c] # NoCall /\ crossed' = crossed /\ OthersStay
      BY <3>1, <3>2 DEF InsertRow, UpdateRow, RemoveRow, UndoRow, CallAt, FilesInv, FilesTypeOK
    <3>3. ASSUME ListJobs(c) \/ ListRecords(c) \/ ListDomains(c) \/ ListBoxes(c)
          PROVE  calls[c] # NoCall /\ crossed' = crossed /\ OthersStay
      BY <3>1, <3>3
      DEF ListJobs, ListRecords, ListDomains, ListBoxes, CallAt, FilesInv, FilesTypeOK
    <3>4. ASSUME \/ SyncCrontab(c) \/ WriteConf(c) \/ TestConf(c) \/ RestartDns(c)
                 \/ PostconfDomains(c) \/ WriteVmailbox(c) \/ Postmap(c)
                 \/ ReloadPostfix(c) \/ WriteUsers(c) \/ RestartDovecot(c)
          PROVE  calls[c] # NoCall /\ crossed' = crossed /\ OthersStay
      <4> HIDE DEF OthersStay
      <4> QED
        BY <3>1, <3>4
        DEF SyncCrontab, WriteConf, TestConf, RestartDns, PostconfDomains, WriteVmailbox, Postmap,
            ReloadPostfix, WriteUsers, RestartDovecot, CallAt
    <3>5. calls[c] # NoCall /\ crossed' = crossed /\ OthersStay
      BY <1>2, <2>2, <3>2, <3>3, <3>4 DEF FilesStep
    <3>6. ~crossed => calls'[c] # NoCall /\ CallTurn(c)'
      BY <1>2, <2>2, RowTurn, ListTurn, CrontabTurn, WriteTurn, TestTurn, PostmapTurn, LoadTurn,
         UndoTurn DEF FilesStep
    <3> QED BY <3>5, <3>6, HonestStep
  <2> QED BY <2>1, <2>2
<1>3. CASE UNCHANGED filesVars
  <2>1. UNCHANGED <<service, table, file, live, calls, crossed>>
    BY <1>3 DEF filesVars
  <2> SUFFICES ASSUME ~crossed PROVE HonestInv'
    BY <2>1 DEF HonestInv
  <2>2. \A c \in Calls : calls[c] # NoCall => CallTurn(c)'
    <3> SUFFICES ASSUME NEW c \in Calls, calls[c] # NoCall PROVE CallTurn(c)'
      OBVIOUS
    <3>1. CallTurn(c) /\ calls'[c] = calls[c]
      BY <2>1 DEF HonestInv
    <3> PICK but : but = Unnamed(c)
      OBVIOUS
    <3>2. Unnamed(c)' = but /\ Before(c)' = Before(c)
      BY <2>1 DEF Unnamed, Before
    <3>3. Honest(but)' /\ (DnsAccepted' <=> DnsAccepted)
      BY <2>1, <3>1, Unmoved DEF CallTurn
    <3>4. \A i, t : Listed(Before(c), i, t)' <=> Listed(Before(c), i, t)
      BY <2>1, <3>2 DEF Listed
    <3> QED BY <2>1, <3>1, <3>2, <3>3, <3>4 DEF CallTurn
  <2> QED BY <2>1, <2>2, Unmoved DEF HonestInv, Idle
<1> QED BY <1>1, <1>2, <1>3 DEF FilesNext

LEMMA HonestStart == FilesInit => HonestInv
<1> SUFFICES ASSUME FilesInit PROVE HonestInv
  OBVIOUS
<1>1. Honest({})
  BY DEF FilesInit, Honest, Listed, Nothing
<1>2. DnsAccepted
  BY TargetsOfServices DEF FilesInit, DnsAccepted, Accepted, Shown, Nothing
<1> QED BY <1>1, <1>2 DEF FilesInit, HonestInv

-----------------------------------------------------------------------------
(* The theorems.                                                           *)

LEMMA FilesStart == FilesInit => FilesInv
<1> SUFFICES ASSUME FilesInit PROVE FilesInv
  OBVIOUS
<1>1. FilesTypeOK
  BY NothingType DEF FilesInit, FilesTypeOK
<1> QED BY <1>1 DEF FilesInit, FilesInv, Undisturbed

LEMMA FilesKeep == FilesInv /\ [FilesNext]_filesVars => FilesInv'
<1> SUFFICES ASSUME FilesInv, [FilesNext]_filesVars PROVE FilesInv'
  OBVIOUS
<1>1. CASE Die
  BY <1>1 DEF Die, FilesInv, FilesTypeOK, Undisturbed, Idle
<1>2. ASSUME NEW c \in Calls, FilesStep(c) PROVE FilesInv'
  BY <1>2, AcceptKeeps, RowKeeps, ListKeeps, CrontabKeeps, WritingStep, TestingStep, LoadingStep,
     UndoKeeps, AnswerKeeps DEF FilesStep
<1>3. CASE UNCHANGED filesVars
  <2>1. UNCHANGED <<service, table, file, live, calls, crossed>>
    BY <1>3 DEF filesVars
  <2>2. FilesTypeOK'
    BY <2>1 DEF FilesInv, FilesTypeOK
  <2>3. \A c \in Calls : Undisturbed(c)'
    <3>1. /\ \A t : (Is(t)' <=> Is(t)) /\ (Took(t)' <=> Took(t))
          /\ Targets(service)' = Targets(service)
      BY <2>1 DEF Is, Took, Shown, Render, Targets
    <3>2. \A c \in Calls : Fresh(c)' <=> Fresh(c)
      BY <2>1, <3>1 DEF Fresh, Render
    <3>3. \A c \in Calls : Progress(c)' <=> Progress(c)
      BY <2>1, <3>1, <3>2 DEF Progress
    <3> QED BY <2>1, <3>3 DEF FilesInv, Undisturbed
  <2> QED BY <2>2, <2>3 DEF FilesInv
<1> QED BY <1>1, <1>2, <1>3 DEF FilesNext

LEMMA FilesInvariant == FilesSpec => []FilesInv
BY FilesStart, FilesKeep, PTL DEF FilesSpec

\* The types of GeneratedFiles.
THEOREM FilesTypeCorrect == FilesSpec => []FilesTypeOK
<1>1. FilesInv => FilesTypeOK
  BY DEF FilesInv
<1> QED BY <1>1, FilesInvariant, PTL

\* "the system crontab is a generated view of it" (migration 0006), "always the full
\* set, never a diff" (applyDNSConfig, applyMail): a handler nobody disturbs and in
\* which nothing fails leaves every file and every daemon with exactly the rows.
THEOREM SyncAlwaysRepairs == FilesSpec => []SyncRepairs
<1>1. FilesInv => SyncRepairs
  <2> SUFFICES ASSUME FilesInv, NEW c \in Calls, CallAt(c, "answer"), calls[c].ok, calls[c].alone,
                      NEW t \in Targets(service)
               PROVE  Shown(t) = Render(table, t) /\ live[t] = Render(table, t)
    BY DEF SyncRepairs
  <2>1. Progress(c) /\ calls[c].pc = "answer"
    BY DEF FilesInv, Undisturbed, CallAt
  <2> QED BY <2>1 DEF Progress, Is, Took
<1> QED BY <1>1, FilesInvariant, PTL

LEMMA HonestInvariant == FilesSpec => []HonestInv
BY HonestStart, HonestKeeps, FilesInvariant, PTL DEF FilesSpec

\* "leaving a record in the DB that never made it into the live dnsmasq config would
\* silently lie" (handleDNSRecordCreate): handlers one after another that kursord
\* survives, whatever fails in them, leave no DNS or mail row that its file does not
\* have.
THEOREM NeverSilentLies == FilesSpec => []NoSilentLies
<1>1. HonestInv => NoSilentLies
  BY DEF HonestInv, Honest, Listed, NoSilentLies
<1> QED BY <1>1, HonestInvariant, PTL

\* "a bad record can never take down the box's DNS resolution" (dns.Apply): the file
\* that handlers one after another leave behind passes dnsmasq --test, whatever failed
\* on the way, unless kursord died before it was tested.
THEOREM DnsAlwaysSound == FilesSpec => []DnsStaysSound
<1>1. HonestInv => DnsStaysSound
  BY DEF HonestInv, DnsAccepted, DnsStaysSound
<1> QED BY <1>1, HonestInvariant, PTL
=============================================================================
