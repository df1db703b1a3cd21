--------------------------- MODULE SupportQueue ---------------------------
(***************************************************************************)
(* Who has a ticket on their desk: the support line it is in, its          *)
(* assignee, and who was notified (server/servicedesk.go, mirrored by      *)
(* server/portal.go; store/supportgroups.go, store/notifications.go).      *)
(*                                                                         *)
(* One ticket.  A handler loads it, updates one column, and then tells     *)
(* those whom it concerns, one INSERT each; what goes wrong on the way is  *)
(* dropped.  Comments leave line and assignee alone and are not modelled.  *)
(***************************************************************************)
EXTENDS Naturals, FiniteSets, FiniteSetsExt

CONSTANTS Agents, Lines,
          Rank,         \* of a line: "lower = first line"
          NoLine, Nobody,
          Orders, NoOrder

ASSUME LinesAreRanked ==
  IsFiniteSet(Lines) /\ Rank \in [Lines -> Nat \ {0}] /\ NoLine \notin Lines
ASSUME NobodyIsNoAgent == Nobody \notin Agents

VARIABLES member,   \* users.support_group_id
          line, assignee, \* of the ticket
          order,    \* handlers at work
          knows,    \* history: who was told that the ticket is in its line, put it there
                    \* or came since; everybody once telling them has failed
          heard,    \* history: the assignee was told, or is the one who decided; or, again
          met       \* history: two handlers have been at work at once

queueVars == <<member, line, assignee, order, knows, heard, met>>

Order ==
  [pc: {"load", "line", "list", "notify", "assign", "tell"},
   op: {"escalate", "group", "me", "assign"}, by: Agents,
   to: Lines \cup {NoLine}, whom: Agents \cup {Nobody}, todo: SUBSET Agents]
ASSUME NoOrderIsNone == NoOrder \notin Order

QueueTypeOK ==
  /\ member \in [Agents -> Lines \cup {NoLine}]
  /\ line \in Lines \cup {NoLine}
  /\ assignee \in Agents \cup {Nobody}
  /\ order \in [Orders -> Order \cup {NoOrder}]
  /\ knows \subseteq Agents
  /\ heard \in BOOLEAN
  /\ met \in BOOLEAN

\* A new ticket, whatever lines people are in.
QueueInit ==
  /\ member \in [Agents -> Lines \cup {NoLine}]
  /\ line = NoLine /\ assignee = Nobody
  /\ order = [o \in Orders |-> NoOrder]
  /\ knows = {} /\ heard = TRUE /\ met = FALSE

-----------------------------------------------------------------------------
(* Lines.                                                                  *)

\* A ticket in no line is "below every real group".
RankOf(l) == IF l = NoLine THEN 0 ELSE Rank[l]

\* Mutant: a higher one will do.
NextSupportGroup_Last(from) ==
  LET Better(l, best) ==
        IF Rank[l] > from /\ (best = NoLine \/ Rank[l] > Rank[best]) THEN l ELSE best
  IN FoldSet(Better, NoLine, Lines)

\* NextSupportGroup: one pass over the list, keeping the lowest rank above.
NextSupportGroup(from) ==
  LET Better(l, best) ==
        IF Rank[l] > from /\ (best = NoLine \/ Rank[l] < Rank[best]) THEN l ELSE best
  IN FoldSet(Better, NoLine, Lines)

\* Mutant: those are told whom the ticket leaves.
ListUsersInSupportGroup_Others(l) == {u \in Agents : member[u] # l}

ListUsersInSupportGroup(l) == {u \in Agents : member[u] = l}

-----------------------------------------------------------------------------
(* Handlers.                                                               *)

OrderAt(o, pc)  == order[o] # NoOrder /\ order[o].pc = pc
Continue(o, pc) == order' = [order EXCEPT ![o] = [@ EXCEPT !.pc = pc]]
Done(o)         == order' = [order EXCEPT ![o] = NoOrder]

\* Any agent: escalate, name a line or none, take or leave the ticket, name an
\* assignee or nobody.
GiveOrder(o) ==
  /\ order[o] = NoOrder
  /\ \E op \in {"escalate", "group", "me", "assign"}, by \in Agents,
        l \in Lines \cup {NoLine}, u \in Agents \cup {Nobody} :
       /\ op # "group" => l = NoLine
       /\ op # "assign" => u = Nobody
       /\ order' = [order EXCEPT ![o] =
            [pc |-> "load", op |-> op, by |-> by, to |-> l, whom |-> u, todo |-> {}]]
  /\ met' = (met \/ \E p \in Orders : order[p] # NoOrder)
  /\ UNCHANGED <<member, line, assignee, knows, heard>>

\* loadTicket.  Where an escalation goes and what a click on "assign to me" means
\* is settled by what the ticket says now; a ticket at the top stays.
LoadOrder(o) ==
  /\ OrderAt(o, "load")
  /\ LET q    == order[o]
         next == NextSupportGroup(RankOf(line))
     IN \/ q.op = "escalate" /\ next = NoLine /\ Done(o)
        \/ /\ q.op = "escalate" /\ next # NoLine
           /\ order' = [order EXCEPT ![o] = [@ EXCEPT !.pc = "line", !.to = next]]
        \/ q.op = "group" /\ Continue(o, "line")
        \/ /\ q.op = "me"
           /\ order' = [order EXCEPT ![o] = [@ EXCEPT !.pc = "assign",
                !.whom = IF assignee = q.by THEN Nobody ELSE q.by]]
        \/ q.op = "assign" /\ Continue(o, "assign")
  /\ UNCHANGED <<member, line, assignee, knows, heard, met>>

\* SetTicketSupportGroup; after an error the handler goes on all the same.
SetLine(o) ==
  /\ OrderAt(o, "line")
  /\ LET q == order[o] IN
       /\ \/ line' = q.to /\ knows' = {q.by}
          \/ UNCHANGED <<line, knows>>
       /\ IF q.to = NoLine THEN Done(o) ELSE Continue(o, "list")
  /\ UNCHANGED <<member, assignee, heard, met>>

\* notifyGroup: everybody in that line except the one who did it.  If the list
\* cannot be had nobody is told ...
ListMembers(o) ==
  /\ OrderAt(o, "list")
  /\ \/ /\ order' = [order EXCEPT ![o] = [@ EXCEPT !.pc = "notify",
             !.todo = ListUsersInSupportGroup(order[o].to) \ {order[o].by}]]
        /\ UNCHANGED knows
     \/ Done(o) /\ knows' = Agents
  /\ UNCHANGED <<member, line, assignee, heard, met>>

\* ... one by one, what becomes of the INSERT ignored.
NotifyMember(o) ==
  /\ OrderAt(o, "notify")
  /\ \/ order[o].todo = {} /\ Done(o) /\ UNCHANGED knows
     \/ \E u \in order[o].todo :
          /\ order' = [order EXCEPT ![o].todo = @ \ {u}]
          /\ knows' = IF line = order[o].to THEN knows \cup {u} ELSE knows
  /\ UNCHANGED <<member, line, assignee, heard, met>>

\* AssignTicket, its error dropped, and notifyAssignment.
SetAssignee(o) ==
  /\ OrderAt(o, "assign")
  /\ LET q == order[o] IN
       /\ \/ assignee' = q.whom /\ heard' = (q.whom \in {Nobody, q.by})
          \/ UNCHANGED <<assignee, heard>>
       /\ IF q.whom \in {Nobody, q.by} THEN Done(o) ELSE Continue(o, "tell")
  /\ UNCHANGED <<member, line, knows, met>>

TellAssignee(o) ==
  /\ OrderAt(o, "tell")
  /\ heard' = (heard \/ assignee = order[o].whom)
  /\ Done(o)
  /\ UNCHANGED <<member, line, assignee, knows, met>>

\* The account form (UpdateProfile) puts somebody in a line, or none: they find
\* the ticket there.
ChangeLine(u) ==
  /\ \E l \in Lines \cup {NoLine} : member' = [member EXCEPT ![u] = l]
  /\ knows' = knows \cup {u}
  /\ UNCHANGED <<line, assignee, order, heard, met>>

\* Who has not been told by now never will be.
DaemonDies ==
  /\ \E o \in Orders : order[o] # NoOrder
  /\ order' = [o \in Orders |-> NoOrder]
  /\ knows' = Agents /\ heard' = TRUE
  /\ UNCHANGED <<member, line, assignee, met>>

CarryOut(o) ==
  \/ GiveOrder(o)    \/ LoadOrder(o)   \/ SetLine(o) \/ ListMembers(o)
  \/ NotifyMember(o) \/ SetAssignee(o) \/ TellAssignee(o)

QueueNext == DaemonDies \/ (\E o \in Orders : CarryOut(o)) \/ (\E u \in Agents : ChangeLine(u))

QueueSpec == QueueInit /\ [][QueueNext]_queueVars

-----------------------------------------------------------------------------
(* Properties.                                                             *)

\* "Rank gives escalation a well-defined next group (the lowest rank strictly
\* greater than the current one)" (SupportGroup): as long as handlers run one
\* after another an escalation goes up, and over no line's head.  (Overlapped, the
\* line may have changed since the ticket was loaded.)
NoLineSkipped ==
  [][~met => \A o \in Orders :
       OrderAt(o, "line") /\ order[o].op = "escalate" /\ line' # line =>
         /\ RankOf(line) < RankOf(line')
         /\ \A l \in Lines : ~(RankOf(line) < Rank[l] /\ Rank[l] < RankOf(line'))]_queueVars

\* "notify the new group's members" (SetTicketSupportGroup), "tells a newly-
\* assigned agent about their new ticket" (notifyAssignment): however escalations,
\* triage and assignments interleave, once the handlers are done everybody in the
\* ticket's line, and its assignee, has been told; unless the list of members
\* failed or the daemon died on the way.
EveryoneKnows ==
  (\A o \in Orders : order[o] = NoOrder) =>
    /\ \A u \in Agents : line # NoLine /\ member[u] = line => u \in knows
    /\ heard
=============================================================================
