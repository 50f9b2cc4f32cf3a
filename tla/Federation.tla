------------------------------ MODULE Federation ------------------------------
(***************************************************************************)
(* FederationHandler (src/handlers/federation.py): the local store of       *)
(* events received from, or agreed with, remote servers.                   *)
(*                                                                         *)
(*  - handle_send_transaction (src/api/federation.py): a remote sender     *)
(*    pushes its pending PDUs in transactions and, like every federation   *)
(*    sender, retries a transaction until it gets an answer; the answer    *)
(*    holds a result per PDU, and a False result is a rejection it does    *)
(*    not retry (spec.md, 'Failure semantics').  The PDUs of a transaction *)
(*    go one after the other through handle_incoming_event; transactions   *)
(*    of one sender may overlap.  Every EDU fails at once (the handler has *)
(*    no handle_incoming_edu) and is only logged.                          *)
(*  - join_room_via_federation: tries the remote servers in order; per      *)
(*    server get_room_state, make_join, send_join, then stores the returned *)
(*    state events one by one and the join event.                          *)
(*  - backfill_events: stores the valid events a remote returns.           *)
(*  - invite_user_to_room: send_invite, then stores the invite.            *)
(*                                                                         *)
(* Remote calls (federation_client) and check_auth_rules_for_event have no  *)
(* code under src: a remote call answers, answers None, or raises; the     *)
(* auth check accepts exactly the events in Authorized.  store_event and   *)
(* get_event_by_id are given the meaning spec.md gives EventStore: an      *)
(* idempotent persist and a lookup by id.  A crash loses every in-flight   *)
(* call and keeps the store.                                               *)
(***************************************************************************)
EXTENDS Naturals, Sequences, FiniteSets

CONSTANTS
    Events,        \* remote events, by event_id
    Authorized,    \* the events check_auth_rules_for_event accepts
    Pushed,        \* events a remote sender pushes to us
    JoinServers,   \* the remote_servers list of join_room_via_federation
    RoomState,     \* server -> state events its send_join returns
    History,       \* server -> events its backfill returns
    Slots,         \* concurrent handler calls
    MaxInvites,    \* bound on invite_user_to_room calls
    MaxCrashes,    \* bound on process crashes
    MaxLost,       \* bound on answers lost on the way to the sender
    MaxStoreFails  \* bound on events whose lookup or store_event raises

Servers == {JoinServers[i] : i \in 1..Len(JoinServers)}

VARIABLES
    stored,      \* remote events in the event store
    ownEvents,   \* our join and invite events in the event store
    outbox,      \* events the remote sender still tries to deliver
    acked,       \* events whose result True reached the sender
    accepted,    \* servers whose send_join accepted our join (their state)
    invites,     \* invite_user_to_room calls so far
    crashes,
    lost,
    failed,      \* events answered False because the lookup or store raised
    slot

vars == <<stored, ownEvents, outbox, acked, accepted, invites, crashes, lost, failed, slot>>

Idle == [h |-> "idle", pc |-> "none", e |-> "none", i |-> 1, todo |-> {},
         txn |-> {}, res |-> {}]

(***************************************************************************)
(* Helpers                                                                 *)
(***************************************************************************)

\* _validate_event: required fields (always present here), then
\* check_auth_rules_for_event; an exception also yields False.
ValidateEventNoAuth(e) == TRUE
ValidateEvent(e) == e \in Authorized

\* get_event_by_id(event["event_id"]) in handle_incoming_event.
ExistingAny(e) == stored # {}
Existing(e) == e \in stored

\* The for loop over remote_servers: is there a server after the i-th?
HasNextServerOffByOne(i) == i <= Len(JoinServers)
HasNextServer(i) == i < Len(JoinServers)

\* The join event made from server v's make_join template, and our invites.
JoinEvent(v) == <<"join", v>>
InviteEvent(n) == <<"invite", n>>

\* The for loop over pdus goes on with the next PDU whatever the result.
RemainingBreak(todo, e) == {}
Remaining(todo, e) == todo \ {e}

\* The remote sender gets the answer to transaction txn and drops its PDUs
\* (stored, or rejected), learning which were True; or the answer is lost
\* and the PDUs stay in its queue.
Answer(txn, res) ==
    \/ outbox' = outbox \ txn /\ acked' = acked \cup res /\ UNCHANGED lost
    \/ lost < MaxLost /\ lost' = lost + 1 /\ UNCHANGED <<outbox, acked>>

Finish(s) == slot' = [slot EXCEPT ![s] = Idle]

(***************************************************************************)
(* handle_send_transaction and handle_incoming_event                      *)
(***************************************************************************)

Init ==
    /\ stored = {}
    /\ ownEvents = {}
    /\ outbox = Pushed
    /\ acked = {}
    /\ accepted = {}
    /\ invites = 0
    /\ crashes = 0
    /\ lost = 0
    /\ failed = {}
    /\ slot = [s \in Slots |-> Idle]

\* A transaction of some of the sender's pending PDUs arrives (the origin
\* is set); the loop over its pdus starts.
TxnStart(s, txn) ==
    /\ slot[s].h = "idle"
    /\ txn # {} /\ txn \subseteq outbox
    /\ slot' = [slot EXCEPT ![s] = [Idle EXCEPT !.h = "txn", !.pc = "next",
                                               !.todo = txn, !.txn = txn]]
    /\ UNCHANGED <<stored, ownEvents, outbox, acked, accepted, invites, crashes, lost, failed>>

\* The next PDU enters handle_incoming_event: origin check (the PDUs carry
\* the sender's origin), then _validate_event; an invalid event's result is
\* False.  Otherwise await get_event_by_id.
IncomingStart(s) ==
    /\ slot[s].h = "txn" /\ slot[s].pc = "next"
    /\ \E e \in slot[s].todo :
        slot' = [slot EXCEPT ![s].todo = Remaining(@, e), ![s].e = e,
                             ![s].pc = IF ValidateEvent(e) THEN "lookup" ELSE "next"]
    /\ UNCHANGED <<stored, ownEvents, outbox, acked, accepted, invites, crashes, lost, failed>>

\* The lookup returns: an event already processed is True, otherwise
\* await store_event.
IncomingLookup(s) ==
    /\ slot[s].h = "txn" /\ slot[s].pc = "lookup"
    /\ slot' = IF Existing(slot[s].e)
                 THEN [slot EXCEPT ![s].res = @ \cup {slot[s].e}, ![s].pc = "next"]
                 ELSE [slot EXCEPT ![s].pc = "store"]
    /\ UNCHANGED <<stored, ownEvents, outbox, acked, accepted, invites, crashes, lost, failed>>

\* store_event(event) persists it; the result is True.
IncomingStore(s) ==
    /\ slot[s].h = "txn" /\ slot[s].pc = "store"
    /\ stored' = stored \cup {slot[s].e}
    /\ slot' = [slot EXCEPT ![s].res = @ \cup {slot[s].e}, ![s].pc = "next"]
    /\ UNCHANGED <<ownEvents, outbox, acked, accepted, invites, crashes, lost, failed>>

\* After the last PDU, the loop over the EDUs (each failing at once) and
\* the answer {"pdus": results} with status 200.
TxnReturn(s) ==
    /\ slot[s].h = "txn" /\ slot[s].pc = "next" /\ slot[s].todo = {}
    /\ Answer(slot[s].txn, slot[s].res)
    /\ Finish(s)
    /\ UNCHANGED <<stored, ownEvents, accepted, invites, crashes, failed>>

\* get_event_by_id or store_event raises (the store has no code under src,
\* and a database call can fail): the except clause logs it and the result
\* of the PDU is False, the same answer as for an unauthorized event.
IncomingFail(s) ==
    /\ slot[s].h = "txn" /\ slot[s].pc \in {"lookup", "store"}
    /\ slot[s].e \notin failed /\ Cardinality(failed) < MaxStoreFails
    /\ failed' = failed \cup {slot[s].e}
    /\ slot' = [slot EXCEPT ![s].pc = "next"]
    /\ UNCHANGED <<stored, ownEvents, outbox, acked, accepted, invites, crashes, lost>>

(***************************************************************************)
(* join_room_via_federation                                                *)
(***************************************************************************)

Server(s) == JoinServers[slot[s].i]

\* An attempt via one server failed (None, or an exception caught by the
\* loop): continue with the next server, or raise RuntimeError.
FailOver(s) ==
    IF HasNextServer(slot[s].i)
      THEN slot' = [slot EXCEPT ![s].i = @ + 1, ![s].pc = "state"]
      ELSE Finish(s)

JoinStart(s) ==
    /\ slot[s].h = "idle"
    /\ slot' = [slot EXCEPT ![s] = [Idle EXCEPT !.h = "join", !.pc = "state"]]
    /\ UNCHANGED <<stored, ownEvents, outbox, acked, accepted, invites, crashes, lost, failed>>

\* await get_room_state(server, room_id): room info, or None / exception.
JoinGetState(s) ==
    /\ slot[s].h = "join" /\ slot[s].pc = "state"
    /\ \/ slot' = [slot EXCEPT ![s].pc = "make"]
       \/ FailOver(s)
    /\ UNCHANGED <<stored, ownEvents, outbox, acked, accepted, invites, crashes, lost, failed>>

\* _create_join_event: await make_join; the template is filled in and signed.
JoinMake(s) ==
    /\ slot[s].h = "join" /\ slot[s].pc = "make"
    /\ \/ slot' = [slot EXCEPT ![s].pc = "send"]
       \/ FailOver(s)
    /\ UNCHANGED <<stored, ownEvents, outbox, acked, accepted, invites, crashes, lost, failed>>

\* await send_join: the server accepts and returns its state; or it answers
\* None, or the call raises, before or after the server accepted the join.
JoinSend(s) ==
    /\ slot[s].h = "join" /\ slot[s].pc = "send"
    /\ \/ /\ accepted' = accepted \cup {Server(s)}
          /\ slot' = [slot EXCEPT ![s].pc = "storestate",
                                  ![s].todo = RoomState[Server(s)]]
       \/ FailOver(s) /\ UNCHANGED accepted
       \/ FailOver(s) /\ accepted' = accepted \cup {Server(s)}
    /\ UNCHANGED <<stored, ownEvents, outbox, acked, invites, crashes, lost, failed>>

\* _store_room_state, one state event per step: _validate_event, then
\* store_event for a valid one.
JoinStoreState(s) ==
    /\ slot[s].h = "join" /\ slot[s].pc = "storestate"
    /\ \E e \in slot[s].todo :
        /\ stored' = IF ValidateEvent(e) THEN stored \cup {e} ELSE stored
        /\ slot' = [slot EXCEPT ![s].todo = @ \ {e}]
    /\ UNCHANGED <<ownEvents, outbox, acked, accepted, invites, crashes, lost, failed>>

\* store_event(join_event); the join returns {"room_id", "server"}.
JoinStoreEvent(s) ==
    /\ slot[s].h = "join" /\ slot[s].pc = "storestate"
    /\ slot[s].todo = {}
    /\ ownEvents' = ownEvents \cup {JoinEvent(Server(s))}
    /\ Finish(s)
    /\ UNCHANGED <<stored, outbox, acked, accepted, invites, crashes, lost, failed>>

(***************************************************************************)
(* backfill_events and invite_user_to_room                                 *)
(***************************************************************************)

\* await backfill(destination, room_id, limit): its events, or an exception
\* that makes the call return [].
BackfillStart(s, v) ==
    /\ slot[s].h = "idle"
    /\ \/ /\ History[v] # {}
          /\ slot' = [slot EXCEPT ![s] = [Idle EXCEPT !.h = "backfill",
                                                 !.pc = "store", !.todo = History[v]]]
       \/ UNCHANGED slot
    /\ UNCHANGED <<stored, ownEvents, outbox, acked, accepted, invites, crashes, lost, failed>>

\* One returned event: _validate_event, then store_event for a valid one;
\* after the last one the list of stored events is returned.
BackfillStore(s) ==
    /\ slot[s].h = "backfill"
    /\ \E e \in slot[s].todo :
        /\ stored' = IF ValidateEvent(e) THEN stored \cup {e} ELSE stored
        /\ slot' = IF slot[s].todo = {e} THEN [slot EXCEPT ![s] = Idle]
                   ELSE [slot EXCEPT ![s].todo = @ \ {e}]
    /\ UNCHANGED <<ownEvents, outbox, acked, accepted, invites, crashes, lost, failed>>

\* _create_invite_event, then await send_invite: a result, or None
\* (RuntimeError), or an exception, re-raised.
InviteStart(s) ==
    /\ slot[s].h = "idle"
    /\ invites < MaxInvites
    /\ invites' = invites + 1
    /\ \/ slot' = [slot EXCEPT ![s] = [Idle EXCEPT !.h = "invite", !.pc = "store",
                                                   !.i = invites + 1]]
       \/ UNCHANGED slot
    /\ UNCHANGED <<stored, ownEvents, outbox, acked, accepted, crashes, lost, failed>>

\* store_event(invite_event); the event_id is returned.
InviteStore(s) ==
    /\ slot[s].h = "invite"
    /\ ownEvents' = ownEvents \cup {InviteEvent(slot[s].i)}
    /\ Finish(s)
    /\ UNCHANGED <<stored, outbox, acked, accepted, invites, crashes, lost, failed>>

\* The process dies: every in-flight call is lost, the store persists; the
\* senders of lost deliveries get no answer and retry.
Crash ==
    /\ crashes < MaxCrashes
    /\ crashes' = crashes + 1
    /\ slot' = [s \in Slots |-> Idle]
    /\ UNCHANGED <<stored, ownEvents, outbox, acked, accepted, invites, lost, failed>>

(***************************************************************************)
(* The other endpoints of FederationAPI (src/api/federation.py).  Each     *)
(* answers 403 without an origin; then it awaits a FederationHandler       *)
(* method the handler does not have (get_event_for_federation,             *)
(* get_room_state[_ids]_for_federation, make_join_event, handle_join_event, *)
(* make_leave_event, handle_leave_event, handle_invite_event,              *)
(* get_missing_events, get_backfill_events), and the AttributeError is     *)
(* caught and answered 500.  query_auth, version and query_profile answer  *)
(* from constants.  No endpoint reaches the store: a remote server can     *)
(* neither read our events nor join, leave or invite through us.           *)
(***************************************************************************)

OnGetEvent == UNCHANGED vars
OnGetState == UNCHANGED vars
OnMakeJoin == UNCHANGED vars
OnSendJoin == UNCHANGED vars
OnMakeLeave == UNCHANGED vars
OnSendLeave == UNCHANGED vars
OnInvite == UNCHANGED vars
OnGetHistory == UNCHANGED vars
OnQuery == UNCHANGED vars

RemoteRequest ==
    \/ OnGetEvent \/ OnGetState \/ OnGetHistory \/ OnQuery
    \/ OnMakeJoin \/ OnSendJoin \/ OnMakeLeave \/ OnSendLeave \/ OnInvite

\* Every step a started call takes after its first await.
Continue(s) ==
    \/ IncomingStart(s) \/ IncomingLookup(s) \/ IncomingStore(s) \/ IncomingFail(s)
    \/ TxnReturn(s)
    \/ JoinGetState(s) \/ JoinMake(s) \/ JoinSend(s)
    \/ JoinStoreState(s) \/ JoinStoreEvent(s)
    \/ BackfillStore(s) \/ InviteStore(s)

Next ==
    \/ \E s \in Slots :
        \/ \E txn \in SUBSET Events : TxnStart(s, txn)
        \/ JoinStart(s) \/ InviteStart(s)
        \/ \E v \in Servers : BackfillStart(s, v)
        \/ Continue(s)
    \/ RemoteRequest
    \/ Crash

Spec == Init /\ [][Next]_vars

\* The event loop resumes every coroutine whose await has completed, and
\* every remote call ends (an answer, or an exception on timeout).  A
\* remote sender retries an unanswered PDU for as long as it is
\* unanswered, so a transaction carrying it that is possible again and
\* again happens.
Fairness ==
    /\ \A s \in Slots : WF_vars(Continue(s))
    /\ \A e \in Pushed : SF_vars(\E s \in Slots, txn \in SUBSET Pushed : e \in txn /\ TxnStart(s, txn))

FairSpec == Spec /\ Fairness

(***************************************************************************)
(* Properties                                                              *)
(***************************************************************************)

TypeOK ==
    /\ stored \subseteq Events
    /\ outbox \subseteq Pushed
    /\ failed \subseteq Pushed
    /\ acked \subseteq Pushed
    /\ accepted \subseteq Servers
    /\ invites \in 0..MaxInvites
    /\ \A s \in Slots :
        /\ slot[s].h \in {"idle", "txn", "join", "backfill", "invite"}
        /\ slot[s].h = "join" => slot[s].i \in 1..Len(JoinServers)

\* No event received from a remote server, pushed, returned by send_join
\* or backfilled, reaches the event store without passing the auth check
\* of _validate_event, however deliveries, joins and backfills interleave.
StoredAuthorized == stored \subseteq Authorized

\* A True result is a promise that the event is in our store: every PDU the
\* sender was told True for is stored, whatever retried transactions,
\* overlapping duplicates, lost answers and crashes came before.
AckedStored == acked \subseteq stored

\* Every authorized event a remote server pushes eventually reaches the
\* event store, unless its lookup or store_event raised and it was answered
\* False: despite overlapping duplicate deliveries, lost answers and
\* crashes, the except path of handle_incoming_event is the only way the
\* sender can drop an authorized event.
EventuallyStoredOrFailed ==
    \A e \in Pushed \cap Authorized : <>(e \in stored \/ e \in failed)
==============================================================================
