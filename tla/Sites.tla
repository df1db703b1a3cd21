------------------------------- MODULE Sites -------------------------------
(***************************************************************************)
(* Nginx virtual hosts: the sites of the panel (sites/nginx.go,            *)
(* sites/ssl.go, server/sites.go, server/ssl.go, store/sites.go) and the   *)
(* proxy in front of the panel itself (sites/panel_proxy.go,               *)
(* server/panelsettings.go).                                               *)
(*                                                                         *)
(* A vhost is a file in sites-available and a symlink in sites-enabled.    *)
(* Handlers write, link, run nginx -t (which judges ALL enabled vhosts)    *)
(* and reload, a step each; the row of a site follows last.                *)
(***************************************************************************)
EXTENDS FiniteSets

CONSTANTS Domains,   \* domains of sites
          Panel,     \* the panel's own vhost (kursor-panel.conf)
          Ids, NoRow,
          Requests, NoReq

ASSUME PanelIsNoSite == Panel \notin Domains

VARIABLES sites,    \* the sites table
          used,     \* ids handed out
          proxy,    \* panel_settings: no proxy configured, one without or with HTTPS
          avail,    \* files in sites-available
          enabled,  \* symlinks in sites-enabled
          certs,    \* domains certbot got a certificate for
          sound,    \* the vhosts that are not the panel's are in order
          req,      \* requests in flight
          torn,     \* history: two requests were in flight at once, or the daemon died
                    \* under one
          failed    \* history: a reload failed, or a vhost that is not ours was broken

vars == <<sites, used, proxy, avail, enabled, certs, sound, req, torn, failed>>

Hosts  == Domains \cup {Panel}
Vhosts == {"none", "http", "ssl"}
Site   == [domain: Domains, status: {"enabled", "disabled"}]

\* on: switching on, or, for the panel, on the way to HTTPS.  old: what the SSL
\* vhost replaces.
InFlight ==
  [pc: {"write", "link", "unlink", "remove", "test", "reload", "row", "cert", "upgrade",
        "restore"},
   op: {"create", "toggle", "delete", "ssl", "panel"}, host: Hosts, id: Ids \cup {NoRow},
   on: BOOLEAN, old: Vhosts]
ASSUME NothingsDiffer == NoRow \notin Site /\ NoReq \notin InFlight

TypeOK ==
  /\ sites \in [Ids -> Site \cup {NoRow}]
  /\ used \subseteq Ids
  /\ proxy \in Vhosts
  /\ avail \in [Hosts -> Vhosts]
  /\ enabled \subseteq Hosts
  /\ certs \subseteq Hosts
  /\ sound \in BOOLEAN
  /\ req \in [Requests -> InFlight \cup {NoReq}]
  /\ torn \in BOOLEAN
  /\ failed \in BOOLEAN

Init ==
  /\ sites = [i \in Ids |-> NoRow]
  /\ used = {}
  /\ proxy = "none"
  /\ avail = [h \in Hosts |-> "none"]
  /\ enabled = {}
  /\ certs = {}
  /\ sound = TRUE
  /\ req = [r \in Requests |-> NoReq]
  /\ torn = FALSE
  /\ failed = FALSE

Rows == {i \in Ids : sites[i] # NoRow}
HasRow(d) == \E i \in Rows : sites[i].domain = d

\* nginx -t: a link without its file is as bad as a certificate that is missing.
ConfigOK ==
  /\ sound
  /\ \A h \in enabled : avail[h] # "none" /\ (avail[h] = "ssl" => h \in certs)

At(r, pc) == req[r] # NoReq /\ req[r].pc = pc
Go(r, pc) == req' = [req EXCEPT ![r] = [@ EXCEPT !.pc = pc]]
Done(r)   == req' = [req EXCEPT ![r] = NoReq]
Start(r, pc, op, h, i, on) ==
  /\ req[r] = NoReq
  /\ req' = [req EXCEPT ![r] =
       [pc |-> pc, op |-> op, host |-> h, id |-> i, on |-> on, old |-> "none"]]

-----------------------------------------------------------------------------
(* The first statement of each handler: it reads the row.                  *)

\* The id is the one the INSERT will hand out: fresh, and nobody else's.
StartCreate(r) == \E d \in Domains, i \in Ids \ used :
  /\ ~HasRow(d)
  /\ \A s \in Requests : req[s] # NoReq => req[s].id # i
  /\ Start(r, "write", "create", d, i, TRUE)

StartToggle(r) == \E i \in Rows :
  LET on == sites[i].status = "disabled" IN
    Start(r, IF on THEN "link" ELSE "unlink", "toggle", sites[i].domain, i, on)

StartDelete(r) == \E i \in Rows : Start(r, "unlink", "delete", sites[i].domain, i, FALSE)
StartSSL(r)    == \E i \in Rows : Start(r, "cert", "ssl", sites[i].domain, i, TRUE)
StartPanel(r)  == Start(r, "write", "panel", Panel, NoRow, FALSE)

Receive(r) ==
  /\ StartCreate(r) \/ StartToggle(r) \/ StartDelete(r) \/ StartSSL(r) \/ StartPanel(r)
  /\ torn' = (torn \/ \E s \in Requests \ {r} : req[s] # NoReq)
  /\ UNCHANGED <<sites, used, proxy, avail, enabled, certs, sound, failed>>

-----------------------------------------------------------------------------
(* Files: Create, SetEnabled, Delete, CreatePanelProxyVhost,               *)
(* EnableSSLVhost, EnablePanelProxySSL.                                    *)

WriteVhost(r) ==
  /\ At(r, "write")
  /\ avail' = [avail EXCEPT ![req[r].host] = "http"]
  /\ Go(r, "link")
  /\ UNCHANGED <<sites, used, proxy, enabled, certs, sound, torn, failed>>

\* os.Symlink.  Create takes a link that is there for a failure and removes the
\* file it has just written; the others take it for their own.
Link(r) ==
  /\ At(r, "link")
  /\ IF req[r].op = "create" /\ req[r].host \in enabled
     THEN avail' = [avail EXCEPT ![req[r].host] = "none"] /\ Done(r) /\ UNCHANGED enabled
     ELSE enabled' = enabled \cup {req[r].host} /\ Go(r, "test") /\ UNCHANGED avail
  /\ UNCHANGED <<sites, used, proxy, certs, sound, torn, failed>>

\* Mutant: a deletion takes the link and leaves the file.
Unlink_KeepsFile(r) ==
  /\ At(r, "unlink")
  /\ enabled' = enabled \ {req[r].host}
  /\ IF req[r].op = "toggle" /\ req[r].on THEN Done(r)
     ELSE Go(r, IF req[r].op \in {"toggle", "delete"} THEN "test" ELSE "remove")
  /\ UNCHANGED <<sites, used, proxy, avail, certs, sound, torn, failed>>

\* Switching off, deleting, or rolling back a link.
Unlink(r) ==
  /\ At(r, "unlink")
  /\ enabled' = enabled \ {req[r].host}
  /\ CASE req[r].op = "toggle" /\ req[r].on  -> Done(r)
       [] req[r].op = "toggle" /\ ~req[r].on -> Go(r, "test")
       [] OTHER -> Go(r, "remove")
  /\ UNCHANGED <<sites, used, proxy, avail, certs, sound, torn, failed>>

RemoveConf(r) ==
  /\ At(r, "remove")
  /\ avail' = [avail EXCEPT ![req[r].host] = "none"]
  /\ IF req[r].op = "delete" THEN Go(r, "test") ELSE Done(r)
  /\ UNCHANGED <<sites, used, proxy, enabled, certs, sound, torn, failed>>

\* Mutant: a rejected vhost stays where it is.
TestConfig_NoRollback(r) ==
  /\ At(r, "test")
  /\ IF ConfigOK THEN Go(r, "reload")
     ELSE IF req[r].op = "delete" THEN Go(r, "row") ELSE Done(r)
  /\ UNCHANGED <<sites, used, proxy, avail, enabled, certs, sound, torn, failed>>

\* What each handler does about a rejection.  Switching off has nothing to roll
\* back with; a deletion goes on.
TestConfig(r) ==
  /\ At(r, "test")
  /\ \/ ConfigOK /\ Go(r, "reload")
     \/ /\ ~ConfigOK
        /\ LET q == req[r] IN
             CASE q.op = "ssl" \/ (q.op = "panel" /\ q.on) -> Go(r, "restore")
               [] q.op = "delete"            -> Go(r, "row")
               [] q.op = "toggle" /\ ~q.on   -> Done(r)
               [] OTHER                      -> Go(r, "unlink")
  /\ UNCHANGED <<sites, used, proxy, avail, enabled, certs, sound, torn, failed>>

\* The daemon itself reads the files; what is modelled is what the handler makes
\* of a failure: a toggle and the panel's setup stop, the row of a created or
\* deleted site is written all the same.
Reload(r) ==
  /\ At(r, "reload")
  /\ LET q == req[r] IN
       \/ UNCHANGED failed /\ IF q.op = "ssl" THEN Done(r) ELSE Go(r, "row")
       \/ /\ failed' = TRUE
          /\ IF q.op \in {"create", "delete"} THEN Go(r, "row") ELSE Done(r)
  /\ UNCHANGED <<sites, used, proxy, avail, enabled, certs, sound, torn>>

\* IssueCertificate: certbot may fail for reasons of its own.
IssueCertificate(r) ==
  /\ At(r, "cert")
  /\ \/ certs' = certs \cup {req[r].host} /\ Go(r, "upgrade")
     \/ UNCHANGED certs /\ Done(r)
  /\ UNCHANGED <<sites, used, proxy, avail, enabled, sound, torn, failed>>

\* The file is read for the rollback and overwritten.
Upgrade(r) ==
  /\ At(r, "upgrade")
  /\ avail' = [avail EXCEPT ![req[r].host] = "ssl"]
  /\ req' = [req EXCEPT ![r] = [@ EXCEPT !.pc = "test", !.on = TRUE, !.old = avail[req[r].host]]]
  /\ UNCHANGED <<sites, used, proxy, enabled, certs, sound, torn, failed>>

Restore(r) ==
  /\ At(r, "restore")
  /\ avail' = IF req[r].old = "none" THEN avail
              ELSE [avail EXCEPT ![req[r].host] = req[r].old]
  /\ Done(r)
  /\ UNCHANGED <<sites, used, proxy, enabled, certs, sound, torn, failed>>

-----------------------------------------------------------------------------
(* The database, last.                                                     *)

NewSite(r) ==
  /\ sites' = [sites EXCEPT ![req[r].id] = [domain |-> req[r].host, status |-> "enabled"]]
  /\ used' = used \cup {req[r].id}

\* CreateSite: domain is UNIQUE; a refusal leaves the vhost where it is.
InsertSite(r) ==
  /\ At(r, "row") /\ req[r].op = "create"
  /\ IF HasRow(req[r].host) THEN UNCHANGED <<sites, used>> ELSE NewSite(r)
  /\ Done(r)
  /\ UNCHANGED <<proxy, avail, enabled, certs, sound, torn, failed>>

SetSiteStatus(r) ==
  /\ At(r, "row") /\ req[r].op = "toggle"
  /\ sites' = IF req[r].id \in Rows
              THEN [sites EXCEPT ![req[r].id].status = IF req[r].on THEN "enabled" ELSE "disabled"]
              ELSE sites
  /\ Done(r)
  /\ UNCHANGED <<used, proxy, avail, enabled, certs, sound, torn, failed>>

DeleteSite(r) ==
  /\ At(r, "row") /\ req[r].op = "delete"
  /\ sites' = [sites EXCEPT ![req[r].id] = NoRow]
  /\ Done(r)
  /\ UNCHANGED <<used, proxy, avail, enabled, certs, sound, torn, failed>>

\* SetPanelProxyConfigured, first without, then with HTTPS.
SetPanelProxyConfigured(r) ==
  /\ At(r, "row") /\ req[r].op = "panel"
  /\ proxy' = IF req[r].on THEN "ssl" ELSE "http"
  /\ IF req[r].on THEN Done(r) ELSE Go(r, "cert")
  /\ UNCHANGED <<sites, used, avail, enabled, certs, sound, torn, failed>>

-----------------------------------------------------------------------------
(* The rest of the host.                                                   *)

\* Somebody edits a vhost by hand, badly or back into order.
ForeignEdit ==
  /\ sound' = ~sound
  /\ failed' = TRUE
  /\ UNCHANGED <<sites, used, proxy, avail, enabled, certs, req, torn>>

Crash ==
  /\ torn' = (torn \/ \E r \in Requests : req[r] # NoReq)
  /\ req' = [r \in Requests |-> NoReq]
  /\ UNCHANGED <<sites, used, proxy, avail, enabled, certs, sound, failed>>

Handle(r) ==
  \/ WriteVhost(r) \/ Link(r) \/ Unlink(r) \/ RemoveConf(r) \/ TestConfig(r) \/ Reload(r)
  \/ IssueCertificate(r) \/ Upgrade(r) \/ Restore(r)
  \/ InsertSite(r) \/ SetSiteStatus(r) \/ DeleteSite(r) \/ SetPanelProxyConfigured(r)

Next == ForeignEdit \/ Crash \/ \E r \in Requests : Receive(r) \/ Handle(r)

Spec == Init /\ [][Next]_vars

-----------------------------------------------------------------------------
(* Properties.                                                             *)

Quiet == \A r \in Requests : req[r] = NoReq

\* "the DB should never claim a site exists if Nginx doesn't actually serve it"
\* (CreateSite), and the other way round.  One request after another on a host
\* where nothing fails but certbot: each vhost is what its row says.
RowsMatchVhosts ==
  Quiet /\ ~torn /\ ~failed =>
    /\ \A d \in Domains : (avail[d] # "none") <=> HasRow(d)
    /\ \A d \in Domains :
         d \in enabled <=> \E i \in Rows : sites[i].domain = d /\ sites[i].status = "enabled"
    /\ proxy = avail[Panel]

\* "a bad config can never take down the box's Nginx" (package comment): with
\* nobody at work, the vhosts of the panel pass nginx -t, whatever failed.
\* (Two creations of one domain at once, or a creation repeated after a crash,
\* leave a link to no file.)
OursIsSound == Quiet /\ ~torn /\ sound => ConfigOK

\* "a failure at any point leaves the previous, working state in place"
\* (handlePanelProxySetup): a panel that was given its proxy keeps one.
PanelStaysUp == proxy # "none" => Panel \in enabled
=============================================================================
