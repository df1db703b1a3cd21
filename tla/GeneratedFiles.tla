--------------------------- MODULE GeneratedFiles ---------------------------
(***************************************************************************)
(* Files generated from a table: the crontab (cron/cron.go,                *)
(* server/cron.go), dnsmasq's records (dns/dnsmasq.go, server/dns.go) and  *)
(* the maps of Postfix and Dovecot (mail/mail.go, server/mail.go).  "The   *)
(* database is truth": a handler changes one row, then lists ALL rows,     *)
(* renders them and has the daemon take the file.                          *)
(*                                                                         *)
(* The three services share no state, so a behaviour is about one of them. *)
(* Every statement is a step; each may fail, and the daemon may die        *)
(* between any two.                                                        *)
(***************************************************************************)
EXTENDS FiniteSets

CONSTANTS Items,  \* ids of rows
          NamesOf, \* what the rows of a service are about: commands, DNS names, addresses
          NoItem, NoFile,
          Calls, NoCall,
          Overlapping \* bound: the services whose handlers may be at work at once

VARIABLES service, \* which of the three this behaviour is about
          table,   \* cron_jobs, dns_records, or mail_domains and mail_mailboxes
          file,    \* what is on disk
          live,    \* what the daemons have loaded
          calls,   \* handlers at work
          crossed     \* history: two handlers were at work at once, or kursord died under one

filesVars == <<service, table, file, live, calls, crossed>>

Services == {"cron", "dns", "mail"}
Targets(s) == CASE s = "cron" -> {"crontab"}
                [] s = "dns"  -> {"kursor.conf"}
                [] s = "mail" -> {"main.cf", "vmailbox", "users"}
Names      == UNION {NamesOf[s] : s \in Services}
AllTargets == UNION {Targets(s) : s \in Services}

\* flag: a job is enabled; which of two passwords a mailbox has.
Entry   == [sort: {"job", "record", "domain", "mailbox"}, name: Names, flag: BOOLEAN]
Content == [Items -> Entry \cup {NoItem}]
Nothing == [i \in Items |-> NoItem]

Call ==
  [pc: {"row", "list", "boxes", "crontab", "conf", "test", "restart", "main.cf", "vmailbox",
        "postmap", "check", "users", "dovecot", "undo", "answer"},
   op: {"create", "toggle", "delete"}, item: Items, entry: Entry,
   seen: Content, prev: Content \cup {NoFile},
   ok: BOOLEAN,    \* nothing has failed
   alone: BOOLEAN] \* no other handler has been at work meanwhile

ASSUME NoneOfThem == NoItem \notin Entry /\ NoFile \notin Content /\ NoCall \notin Call

FilesTypeOK ==
  /\ service \in Services
  /\ table \in Content
  /\ file \in [AllTargets -> Content \cup {NoFile}]
  /\ live \in [AllTargets -> Content]
  /\ calls \in [Calls -> Call \cup {NoCall}]
  /\ crossed \in BOOLEAN

FilesInit ==
  /\ service \in Services
  /\ table = Nothing
  /\ file = [t \in AllTargets |-> NoFile]
  /\ live = [t \in AllTargets |-> Nothing]
  /\ calls = [c \in Calls |-> NoCall]
  /\ crossed = FALSE

-----------------------------------------------------------------------------
(* Rendering.                                                              *)

SortIn(t) == CASE t = "crontab"     -> "job"
               [] t = "kursor.conf" -> "record"
               [] t = "main.cf"     -> "domain"
               [] t \in {"vmailbox", "users"} -> "mailbox"

\* A disabled job is a comment in its place; only Dovecot's file has passwords.
Line(e, t) == IF t = "vmailbox" THEN [e EXCEPT !.flag = TRUE] ELSE e

Render(rows, t) ==
  [i \in Items |-> IF rows[i] # NoItem /\ rows[i].sort = SortIn(t) THEN Line(rows[i], t)
                   ELSE NoItem]

Shown(t) == IF file[t] = NoFile THEN Nothing ELSE file[t]

\* dnsmasq --test: two CNAMEs of one name are an error.
Accepted(content) ==
  \A i, j \in Items :
    content[i] # NoItem /\ content[j] # NoItem /\ content[i].name = content[j].name => i = j

-----------------------------------------------------------------------------
(* Handlers.                                                               *)

CallAt(c, pc)   == calls[c] # NoCall /\ calls[c].pc = pc
Proceed(c, pc)  == calls' = [calls EXCEPT ![c] = [@ EXCEPT !.pc = pc]]
Forget(q)       == [q EXCEPT !.seen = Nothing, !.prev = NoFile]
Finish(c)       == calls' = [calls EXCEPT ![c] = [Forget(@) EXCEPT !.pc = "answer"]]
Idle            == \A c \in Calls : calls[c] = NoCall

\* Mutant: a failed creation keeps its row.
AfterError_Keep(q) == "answer"

\* What an error makes of a handler: DNS records and mail rows that were created
\* go again, everything else stays and the page says so.
AfterError(q) == IF q.op = "create" /\ service # "cron" THEN "undo" ELSE "answer"
Fail(c) == calls' = [calls EXCEPT ![c] = [Forget(@) EXCEPT !.pc = AfterError(calls[c]), !.ok = FALSE]]

\* The forms there are.  Jobs can be toggled, and the password of a mailbox reset.
CronHandler(op, e)    == service = "cron" /\ e.sort = "job"
DnsHandler(op, e)     == service = "dns" /\ e.sort = "record" /\ op # "toggle"
DomainHandler(op, e)  == service = "mail" /\ e.sort = "domain" /\ op # "toggle"
MailboxHandler(op, e) == service = "mail" /\ e.sort = "mailbox"

\* GetCronJob.
Loaded(i, e) == table[i] # NoItem /\ e = table[i]

\* A form that passed validation.  A toggle remembers what it read.  An id is new
\* to everybody.
Wanted(op, i, e) ==
  /\ e.name \in NamesOf[service]
  /\ CronHandler(op, e) \/ DnsHandler(op, e) \/ DomainHandler(op, e) \/ MailboxHandler(op, e)
  /\ CASE op = "create" -> /\ table[i] = NoItem
                           /\ \A d \in Calls : calls[d] # NoCall => calls[d].item # i
                           /\ e.flag
       [] op = "toggle" -> Loaded(i, e)
       [] op = "delete" -> table[i] = e

AcceptCall(c) ==
  /\ calls[c] = NoCall
  /\ Idle \/ service \in Overlapping
  /\ \E op \in {"create", "toggle", "delete"}, i \in Items, e \in Entry :
       /\ Wanted(op, i, e)
       /\ calls' = [d \in Calls |->
            IF d = c THEN [pc |-> "row", op |-> op, item |-> i, entry |-> e, seen |-> Nothing,
                           prev |-> NoFile, ok |-> TRUE, alone |-> Idle]
            ELSE IF calls[d] = NoCall THEN NoCall ELSE [calls[d] EXCEPT !.alone = FALSE]]
  /\ crossed' = (crossed \/ ~Idle)
  /\ UNCHANGED <<service, table, file, live>>

\* mail_domains.domain and mail_mailboxes.address are UNIQUE.
Taken(e) == e.sort \in {"domain", "mailbox"} /\
            \E j \in Items : table[j] # NoItem /\ table[j].sort = e.sort /\ table[j].name = e.name

InsertRow(c) ==
  /\ CallAt(c, "row") /\ calls[c].op = "create"
  /\ \/ /\ Taken(calls[c].entry)
        /\ calls' = [calls EXCEPT ![c] = [@ EXCEPT !.pc = "answer", !.ok = FALSE]]
        /\ UNCHANGED table
     \/ /\ ~Taken(calls[c].entry)
        /\ table' = [table EXCEPT ![calls[c].item] = calls[c].entry]
        /\ Proceed(c, "list")
  /\ UNCHANGED <<service, file, live, crossed>>

\* UPDATE ... WHERE id, by what was read.
UpdateRow(c) ==
  /\ CallAt(c, "row") /\ calls[c].op = "toggle"
  /\ table' = IF table[calls[c].item] = NoItem THEN table
              ELSE [table EXCEPT ![calls[c].item].flag = ~calls[c].entry.flag]
  /\ Proceed(c, "list")
  /\ UNCHANGED <<service, file, live, crossed>>

RemoveRow(c) ==
  /\ CallAt(c, "row") /\ calls[c].op = "delete"
  /\ table' = [table EXCEPT ![calls[c].item] = NoItem]
  /\ Proceed(c, "list")
  /\ UNCHANGED <<service, file, live, crossed>>

\* The first query of a handler.  syncCronOrWarn takes an error for an empty list;
\* an error ends a DNS or mail handler.
ListJobs(c) ==
  /\ CallAt(c, "list") /\ service = "cron"
  /\ calls' \in {[calls EXCEPT ![c] = [@ EXCEPT !.pc = "crontab", !.seen = table]],
                [calls EXCEPT ![c] = [@ EXCEPT !.pc = "crontab", !.ok = FALSE]]}
  /\ UNCHANGED <<service, table, file, live, crossed>>

ListRecords(c) ==
  /\ CallAt(c, "list") /\ service = "dns"
  /\ \/ calls' = [calls EXCEPT ![c] = [@ EXCEPT !.pc = "conf", !.seen = table]]
     \/ Fail(c)
  /\ UNCHANGED <<service, table, file, live, crossed>>

ListDomains(c) ==
  /\ CallAt(c, "list") /\ service = "mail"
  /\ \/ calls' = [calls EXCEPT ![c] = [@ EXCEPT !.pc = "boxes",
          !.seen = [i \in Items |-> IF table[i] # NoItem /\ table[i].sort = "domain"
                                    THEN table[i] ELSE NoItem]]]
     \/ Fail(c)
  /\ UNCHANGED <<service, table, file, live, crossed>>

\* ListMailboxes, in a second query.
ListBoxes(c) ==
  /\ CallAt(c, "boxes")
  /\ \/ calls' = [calls EXCEPT ![c] = [@ EXCEPT !.pc = "main.cf",
          !.seen = [i \in Items |-> IF table[i] # NoItem /\ table[i].sort = "mailbox"
                                    THEN table[i] ELSE calls[c].seen[i]]]]
     \/ Fail(c)
  /\ UNCHANGED <<service, table, file, live, crossed>>

Write(c, t, pc) ==
  /\ file' = [file EXCEPT ![t] = Render(calls[c].seen, t)]
  /\ calls' = [calls EXCEPT ![c] = [@ EXCEPT !.pc = pc, !.prev = file[t]]]

\* Sync: crontab(1) installs what it is given; without jobs the block goes.
SyncCrontab(c) ==
  /\ CallAt(c, "crontab")
  /\ \/ /\ file' = [file EXCEPT !["crontab"] =
             IF calls[c].seen = Nothing THEN NoFile ELSE Render(calls[c].seen, "crontab")]
        /\ live' = [live EXCEPT !["crontab"] = Render(calls[c].seen, "crontab")]
        /\ Finish(c)
     \/ Fail(c) /\ UNCHANGED <<file, live>>
  /\ UNCHANGED <<service, table, crossed>>

\* Mutants: the record is added to the file, the rest of which is not looked at;
\* a rejected file stays.
WriteConf_Appends(c) ==
  /\ CallAt(c, "conf")
  /\ file' = [file EXCEPT !["kursor.conf"] =
       [Shown("kursor.conf") EXCEPT ![calls[c].item] = calls[c].seen[calls[c].item]]]
  /\ Proceed(c, "test")
  /\ UNCHANGED <<service, table, live, crossed>>
TestConf_NoRollback(c) ==
  /\ CallAt(c, "test")
  /\ \/ Accepted(Shown("kursor.conf")) /\ Proceed(c, "restart")
     \/ Fail(c)
  /\ UNCHANGED <<service, table, file, live, crossed>>

\* dns.Apply: write, dnsmasq --test, restart.
WriteConf(c) ==
  /\ CallAt(c, "conf")
  /\ \/ Write(c, "kursor.conf", "test")
     \/ Fail(c) /\ UNCHANGED file
  /\ UNCHANGED <<service, table, live, crossed>>

\* The test judges the whole configuration: it may fail for reasons of its own.
TestConf(c) ==
  /\ CallAt(c, "test")
  /\ \/ Accepted(Shown("kursor.conf")) /\ Proceed(c, "restart") /\ UNCHANGED file
     \/ file' = [file EXCEPT !["kursor.conf"] = calls[c].prev] /\ Fail(c)
  /\ UNCHANGED <<service, table, live, crossed>>

\* A restart that fails leaves no daemon, and the file where it is.
RestartDns(c) ==
  /\ CallAt(c, "restart")
  /\ \/ live' = [live EXCEPT !["kursor.conf"] = Shown("kursor.conf")] /\ Finish(c)
     \/ live' = [live EXCEPT !["kursor.conf"] = Nothing] /\ Fail(c)
  /\ UNCHANGED <<service, table, file, crossed>>

\* ApplyPostfix: domains into main.cf, which nothing ever rolls back ...
PostconfDomains(c) ==
  /\ CallAt(c, "main.cf")
  /\ \/ Write(c, "main.cf", "vmailbox")
     \/ Fail(c) /\ UNCHANGED file
  /\ UNCHANGED <<service, table, live, crossed>>

\* ... mailboxes into vmailbox, rolled back when postmap fails ...
WriteVmailbox(c) ==
  /\ CallAt(c, "vmailbox")
  /\ \/ Write(c, "vmailbox", "postmap")
     \/ Fail(c) /\ UNCHANGED file
  /\ UNCHANGED <<service, table, live, crossed>>

Postmap(c) ==
  /\ CallAt(c, "postmap")
  /\ \/ Proceed(c, "check") /\ UNCHANGED file
     \/ /\ file' = IF calls[c].prev = NoFile THEN file
                   ELSE [file EXCEPT !["vmailbox"] = calls[c].prev]
        /\ Fail(c)
  /\ UNCHANGED <<service, table, live, crossed>>

\* ... postfix check (whose failure rolls nothing back) and reload.
ReloadPostfix(c) ==
  /\ CallAt(c, "check")
  /\ \/ /\ live' = [live EXCEPT !["main.cf"] = Shown("main.cf"), !["vmailbox"] = Shown("vmailbox")]
        /\ Proceed(c, "users")
     \/ Fail(c) /\ UNCHANGED live
  /\ UNCHANGED <<service, table, file, crossed>>

\* ApplyDovecot: the passwords, doveconf -n, restart.
WriteUsers(c) ==
  /\ CallAt(c, "users")
  /\ \/ Write(c, "users", "dovecot")
     \/ Fail(c) /\ UNCHANGED file
  /\ UNCHANGED <<service, table, live, crossed>>

RestartDovecot(c) ==
  /\ CallAt(c, "dovecot")
  /\ \/ live' = [live EXCEPT !["users"] = Shown("users")] /\ Finish(c)
     \/ Fail(c) /\ live' \in {live, [live EXCEPT !["users"] = Nothing]}
  /\ UNCHANGED <<service, table, file, crossed>>

\* DeleteDNSRecord, DeleteMailDomain, DeleteMailbox after an error: the row, not
\* the files.
UndoRow(c) ==
  /\ CallAt(c, "undo")
  /\ table' = [table EXCEPT ![calls[c].item] = NoItem]
  /\ Finish(c)
  /\ UNCHANGED <<service, file, live, crossed>>

AnswerCall(c) ==
  /\ CallAt(c, "answer")
  /\ calls' = [calls EXCEPT ![c] = NoCall]
  /\ UNCHANGED <<service, table, file, live, crossed>>

Die ==
  /\ crossed' = (crossed \/ ~Idle)
  /\ calls' = [c \in Calls |-> NoCall]
  /\ UNCHANGED <<service, table, file, live>>

FilesStep(c) ==
  \/ AcceptCall(c) \/ InsertRow(c) \/ UpdateRow(c) \/ RemoveRow(c)
  \/ ListJobs(c) \/ ListRecords(c) \/ ListDomains(c) \/ ListBoxes(c) \/ SyncCrontab(c)
  \/ WriteConf(c) \/ TestConf(c) \/ RestartDns(c)
  \/ PostconfDomains(c) \/ WriteVmailbox(c) \/ Postmap(c) \/ ReloadPostfix(c)
  \/ WriteUsers(c) \/ RestartDovecot(c) \/ UndoRow(c) \/ AnswerCall(c)

FilesNext == Die \/ \E c \in Calls : FilesStep(c)

FilesSpec == FilesInit /\ [][FilesNext]_filesVars

-----------------------------------------------------------------------------
(* Properties.                                                             *)

\* "the system crontab is a generated view of it" (migration 0006), "always the
\* full set, never a diff" (applyDNSConfig, applyMail): a handler nobody disturbs
\* and in which nothing fails leaves every file and every daemon with exactly the
\* rows, whatever earlier crashes, failures and races had left there.
SyncRepairs ==
  \A c \in Calls : CallAt(c, "answer") /\ calls[c].ok /\ calls[c].alone =>
    \A t \in Targets(service) : Shown(t) = Render(table, t) /\ live[t] = Render(table, t)

\* "leaving a record in the DB that never made it into the live dnsmasq config
\* would silently lie to whoever looks at the list next" (handleDNSRecordCreate):
\* handlers one after another, whatever fails in them, leave no DNS or mail row
\* that its file does not have.  (crossed excludes creations at once, and the death
\* of kursord between a row and its file.)
NoSilentLies ==
  Idle /\ ~crossed /\ service # "cron" => \A i \in Items : \A t \in Targets(service) :
    table[i] # NoItem /\ table[i].sort = SortIn(t) =>
      Shown(t)[i] # NoItem /\ Shown(t)[i].name = table[i].name

\* "a bad record can never take down the box's DNS resolution" (dns.Apply): the
\* file that is left behind passes dnsmasq --test, whatever failed on the way.
\* (crossed excludes the death of kursord between writing the file and testing it,
\* and creations at once, of which one may put back what the other wrote.)
DnsStaysSound == Idle /\ ~crossed => Accepted(Shown("kursor.conf"))
=============================================================================
