------------------------------ MODULE Monitor ------------------------------
(***************************************************************************)
(* Live measurements: monitor/collector.go samples the host on a ticker    *)
(* and hands each sample to the channels of its subscribers;               *)
(* monitor/handlers.go, one goroutine per browser tab, writes them out as  *)
(* server-sent events.                                                     *)
(*                                                                         *)
(* The mutex covers the latest sample and the set of subscribers, not the  *)
(* sends: publish copies the set and sends afterwards.                     *)
(***************************************************************************)
EXTENDS Naturals, Sequences

CONSTANTS Streams,
          Slow,      \* those whose browser may stop reading without going away
          Capacity,  \* of a channel: make(chan Sample, 4)
          MaxSample  \* bound: samples taken

ASSUME SlowStreams  == Slow \subseteq Streams
ASSUME FeedNumbers  == Capacity \in Nat /\ MaxSample \in Nat

VARIABLES latest,  \* the latest sample; samples are numbered, 0 is none yet
          subs,    \* whose channels are registered
          todo,    \* the channels publish has still to send latest to
          chan,    \* the channels
          at,      \* where each handler is
          sample,  \* what a handler is about to write
          gone,    \* browsers that have disconnected
          seen     \* history: the last sample each browser was sent

monitorVars == <<latest, subs, todo, chan, at, sample, gone, seen>>

Places == {"closed", "latest", "first", "subscribe", "select", "write"}

MonitorTypeOK ==
  /\ latest \in Nat
  /\ subs \subseteq Streams
  /\ todo \subseteq Streams
  /\ chan \in [Streams -> Seq(Nat)]
  /\ at \in [Streams -> Places]
  /\ sample \in [Streams -> Nat]
  /\ gone \subseteq Streams
  /\ seen \in [Streams -> Nat]

MonitorInit ==
  /\ latest = 0
  /\ subs = {}
  /\ todo = {}
  /\ chan = [s \in Streams |-> <<>>]
  /\ at = [s \in Streams |-> "closed"]
  /\ sample = [s \in Streams |-> 0]
  /\ gone = {}
  /\ seen = [s \in Streams |-> 0]

Move(s, from, to) == at[s] = from /\ at' = [at EXCEPT ![s] = to]

-----------------------------------------------------------------------------
(* The collector.                                                          *)

\* A tick: collect, then the part of publish under the mutex.
TakeSample ==
  /\ todo = {} /\ latest < MaxSample
  /\ latest' = latest + 1
  /\ todo' = subs
  /\ UNCHANGED <<subs, chan, at, sample, gone, seen>>

\* Mutant: publish waits for room.
Send_Blocking(s) ==
  /\ s \in todo
  /\ Len(chan[s]) < Capacity
  /\ chan' = [chan EXCEPT ![s] = Append(@, latest)]
  /\ todo' = todo \ {s}
  /\ UNCHANGED <<latest, subs, at, sample, gone, seen>>

\* One of the copied channels, in the order of a Go map; a full one is skipped.
Send(s) ==
  /\ s \in todo
  /\ chan' = IF Len(chan[s]) < Capacity THEN [chan EXCEPT ![s] = Append(@, latest)] ELSE chan
  /\ todo' = todo \ {s}
  /\ UNCHANGED <<latest, subs, at, sample, gone, seen>>

-----------------------------------------------------------------------------
(* ServeStream.                                                            *)

\* Mutant: a stream subscribes before it looks at the latest sample.
Connect_Subscribed(s) ==
  /\ s \notin todo
  /\ Move(s, "closed", "latest")
  /\ subs' = subs \cup {s}
  /\ chan' = [chan EXCEPT ![s] = <<>>]
  /\ UNCHANGED <<latest, todo, sample, gone, seen>>

\* The channel is made anew for every request, and one that publish still knows
\* is not handed out again; that it is made in Subscribe shows nowhere.
Connect(s) ==
  /\ s \notin todo
  /\ Move(s, "closed", "latest")
  /\ chan' = [chan EXCEPT ![s] = <<>>]
  /\ UNCHANGED <<latest, subs, todo, sample, gone, seen>>

Latest(s) ==
  /\ Move(s, "latest", IF latest = 0 THEN "subscribe" ELSE "first")
  /\ sample' = [sample EXCEPT ![s] = latest]
  /\ UNCHANGED <<latest, subs, todo, chan, gone, seen>>

\* writeEvent: to a browser that is gone it fails, which nobody looks at.
Write(s) ==
  /\ seen' = IF s \in gone THEN seen ELSE [seen EXCEPT ![s] = sample[s]]
  /\ UNCHANGED <<latest, subs, todo, chan, sample, gone>>

WriteFirst(s) == Move(s, "first", "subscribe") /\ Write(s)

Subscribe(s) ==
  /\ Move(s, "subscribe", "select")
  /\ subs' = subs \cup {s}
  /\ UNCHANGED <<latest, todo, chan, sample, gone, seen>>

Receive(s) ==
  /\ Move(s, "select", "write")
  /\ chan[s] # <<>>
  /\ sample' = [sample EXCEPT ![s] = Head(chan[s])]
  /\ chan' = [chan EXCEPT ![s] = Tail(@)]
  /\ UNCHANGED <<latest, subs, todo, gone, seen>>

WriteNext(s) == Move(s, "write", "select") /\ Write(s)

\* Mutant: without the defer.
Leave_Registered(s) ==
  /\ s \in gone
  /\ Move(s, "select", "closed")
  /\ gone' = gone \ {s}
  /\ seen' = [seen EXCEPT ![s] = 0]
  /\ UNCHANGED <<latest, subs, todo, chan, sample>>

\* r.Context().Done() and the deferred Unsubscribe.
Leave(s) ==
  /\ s \in gone
  /\ Move(s, "select", "closed")
  /\ subs' = subs \ {s}
  /\ gone' = gone \ {s}
  /\ seen' = [seen EXCEPT ![s] = 0]
  /\ UNCHANGED <<latest, todo, chan, sample>>

\* The tab is closed, at any time.
Disconnect(s) ==
  /\ at[s] # "closed" /\ s \notin gone
  /\ gone' = gone \cup {s}
  /\ UNCHANGED <<latest, subs, todo, chan, at, sample, seen>>

Serve(s) ==
  Latest(s) \/ WriteFirst(s) \/ Subscribe(s) \/ Receive(s) \/ WriteNext(s) \/ Leave(s)

MonitorNext ==
  \/ TakeSample
  \/ \E s \in Streams : Send(s) \/ Connect(s) \/ Serve(s) \/ Disconnect(s)

\* The ticker and the goroutines run; a write ends when the browser reads or is
\* gone; select picks at random among what is ready, so it does not pass over
\* Done forever.
MayWait(s) == s \in Slow \ gone /\ at[s] \in {"first", "write"}
MonitorFair ==
  /\ WF_monitorVars(TakeSample)
  /\ \A s \in Streams :
       /\ WF_monitorVars(Send(s))
       /\ WF_monitorVars(~MayWait(s) /\ Serve(s))
       /\ SF_monitorVars(Leave(s))

MonitorSpec == MonitorInit /\ [][MonitorNext]_monitorVars /\ MonitorFair

-----------------------------------------------------------------------------
(* Properties.                                                             *)

\* "it sends the latest sample immediately (if one exists yet) and then a fresh
\* event on every subsequent tick" (ServeStream): reading the latest sample,
\* subscribing and publishing interleave, and no browser is sent a sample twice
\* or after a later one.
Feed == INSTANCE LossyFeed WITH Viewers <- Streams, published <- latest, shown <- seen
StreamsAdvance == Feed!Spec

\* "drop the sample rather than block the collector loop for everyone else"
\* (publish): a round of sends ends, and a browser that reads gets what is in its
\* channel, however many others have stopped reading.
NobodyHeldUp ==
  /\ todo # {} ~> todo = {}
  /\ \A s \in Streams \ Slow : chan[s] # <<>> /\ s \in subs ~> chan[s] = <<>> \/ s \notin subs

\* "until the client disconnects" (ServeStream): the channel of a browser that
\* went is unregistered, whatever its handler was doing.
SubscribersLeave == \A s \in Streams : s \in gone ~> s \notin subs /\ s \notin gone
=============================================================================
