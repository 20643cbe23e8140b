----------------------------- MODULE DealStream -----------------------------
(***************************************************************************)
(* The event stream of the REST API (api.py, stream_deal_events) over the  *)
(* deals of DealService.  A stream belongs to one request of a client: the *)
(* server keeps a position in the journal of one deal, reads the deal      *)
(* every 250 ms, sends the events beyond the position, and ends the stream *)
(* when the deal is no longer a draft.  A client that lost its stream asks *)
(* again with the number of the last event it was sent.                    *)
(***************************************************************************)
EXTENDS DealService

CONSTANT Watchers   \* clients that follow the events of a deal

ASSUME WatcherAssumption == None \notin Watchers

VARIABLES
  stream,   \* per watcher: the stream the server has open for it
  view      \* per watcher: the deal it follows and the events it was sent

streamVars == <<stream, view>>

allVars == <<vars, streamVars>>

Stream == [open : BOOLEAN, position : Nat]

View == [deal : Deals \cup {None}, events : Seq(Event)]

Closed == [open |-> FALSE, position |-> 0]

StreamInit ==
  /\ Init
  /\ stream = [w \in Watchers |-> Closed]
  /\ view = [w \in Watchers |-> [deal |-> None, events |-> << >>]]

\* A watcher asks for the events of a deal that exists, after those it has.
Open(w, d) ==
  /\ up
  /\ deals[d].status # "absent"
  /\ view[w].deal \in {None, d}
  /\ ~stream[w].open
  /\ stream' = [stream EXCEPT ![w] = [open |-> TRUE, position |-> Len(view[w].events)]]
  /\ view' = [view EXCEPT ![w].deal = d]
  /\ UNCHANGED vars

\* The events the journal holds beyond a position.
Beyond(d, position) == SubSeq(log[d], position + 1, Len(log[d]))

\* Bug: the numbers of the events start again at one in every round.
AdvanceFromStart(position, events) == Len(events)

Advance(position, events) == position + Len(events)

\* Bug: the states a deal has after its approval are not on the list.
EndsBeforeApproval(status) == status \in {"awaiting_approval", "failed"}

\* The states in which the stream ends.
Ends(status) ==
  status \in {"awaiting_approval", "completed", "failed", "rejected",
              "changes_requested", "payment_signature_required"}

\* One round: the deal is read, its new events are sent, and the stream ends
\* with `stream_complete' or goes on.
Poll(w) ==
  LET d == view[w].deal
      events == Beyond(d, stream[w].position)
  IN /\ stream[w].open
     /\ stream' = [stream EXCEPT ![w] =
          [open |-> ~Ends(deals[d].status), position |-> Advance(@.position, events)]]
     /\ view' = [view EXCEPT ![w].events = @ \o events]
     /\ UNCHANGED vars

\* The connection is lost or the client closes it.
Disconnect(w) ==
  /\ stream[w].open
  /\ stream' = [stream EXCEPT ![w] = Closed]
  /\ UNCHANGED <<vars, view>>

\* A step of the service; when the process ends its streams do.
ServiceStep ==
  /\ Next
  /\ stream' = IF up' THEN stream ELSE [w \in Watchers |-> Closed]
  /\ UNCHANGED view

StreamNext ==
  \/ ServiceStep
  \/ \E w \in Watchers :
       \/ \E d \in Deals : Open(w, d)
       \/ Poll(w)
       \/ Disconnect(w)

StreamSpec == StreamInit /\ [][StreamNext]_allVars

\* The event loop wakes the generator of an open stream.
StreamFairness == \A w \in Watchers : WF_allVars(Poll(w))

FairStreamSpec == StreamSpec /\ Fairness /\ StreamFairness

-----------------------------------------------------------------------------
StreamTypeOK ==
  /\ TypeOK
  /\ stream \in [Watchers -> Stream]
  /\ view \in [Watchers -> View]

\* What a watcher has been sent, over all the streams it had, is the beginning
\* of the journal: no event is skipped, repeated or out of order, although the
\* server process may have changed, and although a workflow that starts over
\* records events of its own at positions the watcher has seen already.
StreamFollowsJournal ==
  \A w \in Watchers :
    LET sent == view[w].events
        journal == log[view[w].deal]
    IN view[w].deal # None =>
         Len(sent) <= Len(journal) /\ sent = SubSeq(journal, 1, Len(sent))

\* A stream, which holds a connection and reads the database four times a
\* second, ends: also when the states it waits for pass between two rounds.
StreamsEnd == \A w \in Watchers : stream[w].open ~> ~stream[w].open
=============================================================================
