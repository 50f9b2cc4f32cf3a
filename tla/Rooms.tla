-------------------------------- MODULE Rooms --------------------------------
(***************************************************************************)
(* Rooms and messages: RoomHandler (src/handlers/room.py) and              *)
(* MessageHandler (src/handlers/message.py) over the data store.           *)
(*                                                                         *)
(* Each handler call is a coroutine that yields at every `await           *)
(* self.store...`; an in-flight call occupies a slot and every action is   *)
(* the code between two store awaits.  The awaits on event_builder build   *)
(* an event in memory and change no stored state, so they are folded into  *)
(* the step that follows them.                                             *)
(*                                                                         *)
(* The store methods these handlers call (get_room_membership,             *)
(* get_event_by_txn_id, store_txn_id_mapping, redact_event, ...) have no   *)
(* implementation under src/: DataStore (src/storage/__init__.py) holds    *)
(* placeholders.  The queries below give them the meaning their names,     *)
(* their callers and spec.md section 4 give them: membership is the latest *)
(* m.room.member event for the user, the creator holds power 100 through   *)
(* the power_levels event.                                                 *)
(*                                                                         *)
(* A Crash ends every call in flight (a restart of the process); what was  *)
(* stored stays.  Event ids are positions in `events`; a room id is drawn  *)
(* from RoomIds as _generate_room_id draws a fresh random id.              *)
(***************************************************************************)
EXTENDS Naturals, Sequences, FiniteSets, FiniteSetsExt

CONSTANTS
    Users,         \* user ids
    RoomIds,       \* room ids _generate_room_id may return
    TxnIds,        \* client transaction ids
    NoTxn,         \* model value: a call without txn_id
    Slots,         \* handler calls in progress at once
    MaxEvents,     \* bound on stored events
    MaxCrashes,    \* bound on process restarts
    CreateExtras   \* how many of name / topic a create_room config sets

ASSUME Users \subseteq Nat \ {0}
ASSUME CreateExtras \subseteq 0..2

VARIABLES
    roomRule,   \* store.create_room rows: join_rules per room, "none" = no row
    roomCreator,\* store.create_room rows: creator per room
    events,     \* store_event: every stored event; event id = index
    txnMap,     \* store_txn_id_mapping: (sender, room, txn) -> event id, 0 = none
    redacted,   \* redact_event: ids of events marked redacted
    crashes,    \* restarts so far
    slot        \* the handler call running in each slot

vars == <<roomRule, roomCreator, events, txnMap, redacted, crashes, slot>>

EventTypes == {"create", "member", "power_levels", "state", "message",
               "reaction", "redaction"}
Memberships == {"join", "leave", "invite"}
Event == [type: EventTypes, room: RoomIds, sender: Users, target: Users \cup {0},
          membership: Memberships \cup {"none"}, txn: TxnIds \cup {NoTxn},
          rel: 0..MaxEvents]
TxnKeys == Users \X RoomIds \X TxnIds

\* _create_member_event and the other event builders
MemberEvent(r, u, t, m) ==
    [type |-> "member", room |-> r, sender |-> u, target |-> t,
     membership |-> m, txn |-> NoTxn, rel |-> 0]
PlainEvent(ty, r, u) == [MemberEvent(r, u, 0, "none") EXCEPT !.type = ty]

Idle == [h |-> "idle", pc |-> "idle", user |-> 0, room |-> CHOOSE r \in RoomIds : TRUE,
         peer |-> 0, ev |-> 0, by |-> 0, txn |-> NoTxn, extras |-> 0,
         rule |-> "invite"]
Call(h, pc, u, r) == [Idle EXCEPT !.h = h, !.pc = pc, !.user = u, !.room = r]

-----------------------------------------------------------------------------
(* Store queries                                                           *)

\* membership of u in r as recorded by the first n events
MembershipAt(u, r, n) ==
    LET ms == {i \in 1..n : /\ events[i].type = "member" /\ events[i].room = r
                            /\ events[i].target = u}
    IN  IF ms = {} THEN "none" ELSE events[Max(ms)].membership

\* get_room_membership: the latest membership event
MembershipFirst(u, r) ==
    LET ms == {i \in DOMAIN events : /\ events[i].type = "member"
                                     /\ events[i].room = r /\ events[i].target = u}
    IN  IF ms = {} THEN "none" ELSE events[Min(ms)].membership
Membership(u, r) == MembershipAt(u, r, Len(events))

\* get_room_by_id
RoomExistsAlways(r) == TRUE
RoomExists(r) == roomRule[r] # "none"

\* get_user_power_level: users {creator: 100} of the power_levels event,
\* users_default 0
PowerLevel(u, r) ==
    IF \E i \in DOMAIN events : /\ events[i].type = "power_levels"
                                /\ events[i].room = r /\ events[i].sender = u
    THEN 100 ELSE 0

\* get_room_redact_level: "redact": 50 of the power_levels event
RedactLevel == 50

\* get_event_by_txn_id
TxnEventNone(u, r, x) == 0
TxnEvent(u, r, x) == IF x = NoTxn THEN 0 ELSE txnMap[<<u, r, x>>]

\* the id store_event gives the event being stored
NewEventIdOffByOne == Len(events)
NewEventId == Len(events) + 1

\* redact_event(target_event_id, event_id)
RedactEventSwapped(target, by) == redacted \cup {by}
RedactEvent(target, by) == redacted \cup {target}

-----------------------------------------------------------------------------
Init ==
    /\ roomRule = [r \in RoomIds |-> "none"]
    /\ roomCreator = [r \in RoomIds |-> 0]
    /\ events = <<>>
    /\ txnMap = [k \in TxnKeys |-> 0]
    /\ redacted = {}
    /\ crashes = 0
    /\ slot = [s \in Slots |-> Idle]

Finish(s) == slot' = [slot EXCEPT ![s] = Idle]
GoTo(s, pc) == slot' = [slot EXCEPT ![s].pc = pc]
At(s, h, pc) == slot[s].h = h /\ slot[s].pc = pc

\* stored events, counting what the calls in flight may still store
InFlight == {s \in Slots : slot[s].h # "idle"}
Budget(s) == IF slot[s].h = "create" THEN 3 + slot[s].extras ELSE 1
CanStart(n) == Len(events) + MapThenSumSet(Budget, InFlight) + n <= MaxEvents

Append1(e) == events' = Append(events, e)

-----------------------------------------------------------------------------
(* create_room                                                             *)

\* the room id is fresh: no row, no event and no other create_room uses it;
\* the config's join_rules default to "invite"
CreateStart(s, u, r, rule, extras) ==
    /\ slot[s] = Idle
    /\ CanStart(3 + extras)
    /\ roomRule[r] = "none"
    /\ \A i \in DOMAIN events : events[i].room # r
    /\ \A o \in InFlight : slot[o].room # r
    /\ slot' = [slot EXCEPT ![s] = [Call("create", "create_room", u, r)
                                      EXCEPT !.rule = rule, !.extras = extras]]
    /\ UNCHANGED <<roomRule, roomCreator, events, txnMap, redacted, crashes>>

\* store.create_room(room_config)
CreateRoomRow(s) ==
    /\ At(s, "create", "create_room")
    /\ roomRule' = [roomRule EXCEPT ![slot[s].room] = slot[s].rule]
    /\ roomCreator' = [roomCreator EXCEPT ![slot[s].room] = slot[s].user]
    /\ GoTo(s, "store_create")
    /\ UNCHANGED <<events, txnMap, redacted, crashes>>

\* store_event of the creation, the creator's join and the power levels
\* events, in this order, then of the name and topic events the config sets
CreateStoreStep(s, pc, e, next) ==
    /\ At(s, "create", pc)
    /\ Append1(e)
    /\ GoTo(s, next)
    /\ UNCHANGED <<roomRule, roomCreator, txnMap, redacted, crashes>>

CreateStoreEvents(s) ==
    LET u == slot[s].user
        r == slot[s].room
    IN  \/ CreateStoreStep(s, "store_create", PlainEvent("create", r, u), "store_join")
        \/ CreateStoreStep(s, "store_join", MemberEvent(r, u, u, "join"), "store_power")
        \/ CreateStoreStep(s, "store_power", PlainEvent("power_levels", r, u), "store_extra")

CreateStoreExtra(s) ==
    /\ At(s, "create", "store_extra")
    /\ \/ /\ slot[s].extras = 0
          /\ Finish(s)
          /\ UNCHANGED events
       \/ /\ slot[s].extras > 0
          /\ Append1(PlainEvent("state", slot[s].room, slot[s].user))
          /\ slot' = [slot EXCEPT ![s].extras = @ - 1]
    /\ UNCHANGED <<roomRule, roomCreator, txnMap, redacted, crashes>>

-----------------------------------------------------------------------------
(* join_room, leave_room, invite_user                                      *)

\* get_room_by_id: "Room not found" unless the row exists (the client API
\* passes no remote_room_hosts)
JoinStart(s, u, r) ==
    /\ slot[s] = Idle
    /\ CanStart(1)
    /\ RoomExists(r)
    /\ slot' = [slot EXCEPT ![s] = Call("join", "membership", u, r)]
    /\ UNCHANGED <<roomRule, roomCreator, events, txnMap, redacted, crashes>>

\* get_room_membership: already joined returns, otherwise the join event
\* is stored; join_rules are never read
JoinMembership(s) ==
    /\ At(s, "join", "membership")
    /\ IF Membership(slot[s].user, slot[s].room) = "join"
          THEN Finish(s) ELSE GoTo(s, "store")
    /\ UNCHANGED <<roomRule, roomCreator, events, txnMap, redacted, crashes>>

\* get_room_membership must be "join" for leave_room; for invite_user the
\* inviter's must be "join" and then the invitee's must not be
LeaveStart(s, u, r) ==
    /\ slot[s] = Idle
    /\ CanStart(1)
    /\ Membership(u, r) = "join"
    /\ slot' = [slot EXCEPT ![s] = Call("leave", "store", u, r)]
    /\ UNCHANGED <<roomRule, roomCreator, events, txnMap, redacted, crashes>>

InviteStart(s, u, t, r) ==
    /\ slot[s] = Idle
    /\ CanStart(1)
    /\ Membership(u, r) = "join"
    /\ slot' = [slot EXCEPT ![s] = [Call("invite", "invitee", u, r) EXCEPT !.peer = t]]
    /\ UNCHANGED <<roomRule, roomCreator, events, txnMap, redacted, crashes>>

InviteCheck(s) ==
    /\ At(s, "invite", "invitee")
    /\ IF Membership(slot[s].peer, slot[s].room) = "join"
          THEN Finish(s) ELSE GoTo(s, "store")
    /\ UNCHANGED <<roomRule, roomCreator, events, txnMap, redacted, crashes>>

\* store_event of the member event each of them built
MemberStore(s, h, e) ==
    /\ At(s, h, "store")
    /\ Append1(e)
    /\ Finish(s)
    /\ UNCHANGED <<roomRule, roomCreator, txnMap, redacted, crashes>>

JoinStore(s) == MemberStore(s, "join", MemberEvent(slot[s].room, slot[s].user, slot[s].user, "join"))
LeaveStore(s) == MemberStore(s, "leave", MemberEvent(slot[s].room, slot[s].user, slot[s].user, "leave"))
InviteStore(s) == MemberStore(s, "invite", MemberEvent(slot[s].room, slot[s].user, slot[s].peer, "invite"))

-----------------------------------------------------------------------------
(* send_message and edit_message                                           *)

\* send_message starts with get_room_membership
MsgStart(s, u, r, x) ==
    /\ slot[s] = Idle
    /\ CanStart(1)
    /\ slot' = [slot EXCEPT ![s] = [Call("send", "membership", u, r) EXCEPT !.txn = x]]
    /\ UNCHANGED <<roomRule, roomCreator, events, txnMap, redacted, crashes>>

\* edit_message: get_event_by_id, the original must be the sender's; then
\* send_message in the room the request names, with m.relates_to m.replace
\* pointing at the original
EditStart(s, u, r, e, x) ==
    /\ slot[s] = Idle
    /\ CanStart(1)
    /\ e \in DOMAIN events
    /\ events[e].sender = u
    /\ slot' = [slot EXCEPT ![s] = [Call("send", "membership", u, r)
                                      EXCEPT !.txn = x, !.ev = e]]
    /\ UNCHANGED <<roomRule, roomCreator, events, txnMap, redacted, crashes>>

\* "is not in room" unless joined; get_event_by_txn_id only with a txn_id
MsgMembership(s) ==
    /\ At(s, "send", "membership")
    /\ IF Membership(slot[s].user, slot[s].room) # "join" THEN Finish(s)
       ELSE IF slot[s].txn = NoTxn THEN GoTo(s, "store_event")
       ELSE GoTo(s, "txn_lookup")
    /\ UNCHANGED <<roomRule, roomCreator, events, txnMap, redacted, crashes>>

\* an event already sent with this txn_id is returned instead
MsgTxnLookup(s) ==
    /\ At(s, "send", "txn_lookup")
    /\ IF TxnEvent(slot[s].user, slot[s].room, slot[s].txn) # 0
          THEN Finish(s) ELSE GoTo(s, "store_event")
    /\ UNCHANGED <<roomRule, roomCreator, events, txnMap, redacted, crashes>>

\* store_event of the m.room.message event ...
MsgStoreEvent(s) ==
    /\ At(s, "send", "store_event")
    /\ Append1([PlainEvent("message", slot[s].room, slot[s].user)
                   EXCEPT !.txn = slot[s].txn, !.rel = slot[s].ev])
    /\ IF slot[s].txn = NoTxn
          THEN Finish(s)
          ELSE slot' = [slot EXCEPT ![s].pc = "store_txn", ![s].ev = NewEventId]
    /\ UNCHANGED <<roomRule, roomCreator, txnMap, redacted, crashes>>

\* ... and, with a txn_id, store_txn_id_mapping afterwards
MsgStoreTxn(s) ==
    /\ At(s, "send", "store_txn")
    /\ txnMap' = [txnMap EXCEPT ![<<slot[s].user, slot[s].room, slot[s].txn>>] = slot[s].ev]
    /\ Finish(s)
    /\ UNCHANGED <<roomRule, roomCreator, events, redacted, crashes>>

-----------------------------------------------------------------------------
(* react_to_message and redact_message                                     *)

\* react_to_message: get_event_by_id; no membership, room or txn_id check
ReactStart(s, u, r, e) ==
    /\ slot[s] = Idle
    /\ CanStart(1)
    /\ e \in DOMAIN events
    /\ slot' = [slot EXCEPT ![s] = [Call("react", "store", u, r) EXCEPT !.ev = e]]
    /\ UNCHANGED <<roomRule, roomCreator, events, txnMap, redacted, crashes>>

ReactStore(s) ==
    /\ At(s, "react", "store")
    /\ Append1([PlainEvent("reaction", slot[s].room, slot[s].user) EXCEPT !.rel = slot[s].ev])
    /\ Finish(s)
    /\ UNCHANGED <<roomRule, roomCreator, txnMap, redacted, crashes>>

\* redact_message: get_event_by_id; the sender's own event needs no power
RedactStart(s, u, r, e) ==
    /\ slot[s] = Idle
    /\ CanStart(1)
    /\ e \in DOMAIN events
    /\ slot' = [slot EXCEPT ![s] = [Call("redact", IF events[e].sender = u
                                                    THEN "store" ELSE "power", u, r)
                                      EXCEPT !.ev = e]]
    /\ UNCHANGED <<roomRule, roomCreator, events, txnMap, redacted, crashes>>

\* get_user_power_level and get_room_redact_level of the request's room
RedactPower(s) ==
    /\ At(s, "redact", "power")
    /\ IF PowerLevel(slot[s].user, slot[s].room) < RedactLevel
          THEN Finish(s) ELSE GoTo(s, "store")
    /\ UNCHANGED <<roomRule, roomCreator, events, txnMap, redacted, crashes>>

\* store_event of the m.room.redaction event ...
RedactStore(s) ==
    /\ At(s, "redact", "store")
    /\ Append1([PlainEvent("redaction", slot[s].room, slot[s].user) EXCEPT !.rel = slot[s].ev])
    /\ slot' = [slot EXCEPT ![s].pc = "apply", ![s].by = NewEventId]
    /\ UNCHANGED <<roomRule, roomCreator, txnMap, redacted, crashes>>

\* ... then redact_event marks the target
RedactApply(s) ==
    /\ At(s, "redact", "apply")
    /\ redacted' = RedactEvent(slot[s].ev, slot[s].by)
    /\ Finish(s)
    /\ UNCHANGED <<roomRule, roomCreator, events, txnMap, crashes>>

-----------------------------------------------------------------------------
(* Reads and restarts                                                      *)

-----------------------------------------------------------------------------
(* The client API (src/api/room.py, src/api/message.py).  Each handler     *)
(* first resolves the access token with get_user_by_access_token (no token *)
(* state here: a valid token names u, an invalid one is a 401 that changes *)
(* nothing), then calls the room or message handler.                       *)

\* The invite body without user_id.
MissingUser == 0

\* handle_create_room calls create_room(creator_id=...), a keyword
\* create_room does not take: TypeError before any await, answered 500.
ApiCreateRoom(u) == UNCHANGED vars

\* handle_join_room: join_room, then result['success'], a key join_room's
\* result lacks: the join is stored and the answer is 500.
ApiJoinRoom(s, u, r) == JoinStart(s, u, r)

\* handle_leave_room: leave_room; its result is truthy, answered 200.
ApiLeaveRoom(s, u, r) == LeaveStart(s, u, r)

\* handle_invite_user: "Missing user_id" (400), else invite_user.
ApiInviteUser(s, u, t, r) == t # MissingUser /\ InviteStart(s, u, t, r)

\* handle_send_message and handle_redact_event call
\* room_handler.is_user_in_room, which RoomHandler does not define: an
\* AttributeError before the message handler is reached, answered 500.
ApiSendMessage(u, r) == UNCHANGED vars
ApiRedactEvent(u, r) == UNCHANGED vars

\* The same is_user_in_room call comes first in handle_send_reaction,
\* handle_edit_message, handle_typing, handle_receipt, handle_get_messages,
\* handle_get_event and handle_get_event_context, and in
\* handle_get_room_state and handle_get_room_members; handle_get_joined_rooms
\* awaits get_user_joined_rooms, which RoomHandler lacks too.
ApiSendReaction == UNCHANGED vars
ApiEditMessage == UNCHANGED vars
ApiTypingReceipt == UNCHANGED vars
ApiGetMessages == UNCHANGED vars
ApiGetEventContext == UNCHANGED vars
ApiGetRoomState == UNCHANGED vars
ApiGetRoomMembers == UNCHANGED vars

\* handle_set_room_state and handle_kick_user await
\* room_handler.check_user_power_level, which RoomHandler does not define:
\* 500 before send_state_event or kick_user (neither defined either).
ApiSetRoomState == UNCHANGED vars
ApiKickUser == UNCHANGED vars

\* Every API call that ends before the handler writes anything.
ApiNoWrite ==
    \/ ApiSendReaction \/ ApiEditMessage \/ ApiTypingReceipt
    \/ ApiGetMessages \/ ApiGetEventContext \/ ApiGetRoomState
    \/ ApiGetRoomMembers \/ ApiSetRoomState \/ ApiKickUser

\* get_room_state without a user, get_room_members, get_room_messages:
\* reads that store nothing
ReadRoomState(r) == UNCHANGED vars

\* the process stops; every call in flight is lost, the store keeps what
\* was written
Crash ==
    /\ crashes < MaxCrashes
    /\ InFlight # {}
    /\ crashes' = crashes + 1
    /\ slot' = [s \in Slots |-> Idle]
    /\ UNCHANGED <<roomRule, roomCreator, events, txnMap, redacted>>

Next ==
    \/ Crash
    \/ \E r \in RoomIds : ReadRoomState(r)
    \/ ApiNoWrite
    \/ \E u \in Users, r \in RoomIds :
          ApiCreateRoom(u) \/ ApiSendMessage(u, r) \/ ApiRedactEvent(u, r)
    \/ \E s \in Slots, u \in Users, r \in RoomIds :
          \/ ApiJoinRoom(s, u, r) \/ ApiLeaveRoom(s, u, r)
          \/ \E rule \in {"invite", "public"}, n \in CreateExtras :
                CreateStart(s, u, r, rule, n)
          \/ \E t \in Users \cup {MissingUser} : ApiInviteUser(s, u, t, r)
          \/ \E x \in TxnIds \cup {NoTxn} :
                MsgStart(s, u, r, x) \/ \E e \in 1..MaxEvents : EditStart(s, u, r, e, x)
          \/ \E e \in 1..MaxEvents : ReactStart(s, u, r, e) \/ RedactStart(s, u, r, e)
    \/ \E s \in Slots :
          \/ CreateRoomRow(s) \/ CreateStoreEvents(s) \/ CreateStoreExtra(s)
          \/ JoinMembership(s) \/ InviteCheck(s)
          \/ JoinStore(s) \/ LeaveStore(s) \/ InviteStore(s)
          \/ MsgMembership(s) \/ MsgTxnLookup(s) \/ MsgStoreEvent(s) \/ MsgStoreTxn(s)
          \/ ReactStore(s) \/ RedactPower(s) \/ RedactStore(s) \/ RedactApply(s)

Spec == Init /\ [][Next]_vars

-----------------------------------------------------------------------------
(* Properties                                                              *)

\* Types; a txn_id mapping names a message of that sender, room and txn_id,
\* the event send_message stored just before store_txn_id_mapping.
TypeOK ==
    /\ roomRule \in [RoomIds -> {"none", "invite", "public"}]
    /\ roomCreator \in [RoomIds -> Users \cup {0}]
    /\ events \in Seq(Event)
    /\ redacted \subseteq DOMAIN events
    /\ crashes \in 0..MaxCrashes
    /\ txnMap \in [TxnKeys -> 0..Len(events)]
    /\ \A k \in TxnKeys :
          txnMap[k] # 0 =>
             /\ events[txnMap[k]].type = "message"
             /\ <<events[txnMap[k]].sender, events[txnMap[k]].room,
                  events[txnMap[k]].txn>> = k

\* send_message returns the stored event for a txn_id already seen
\* (get_event_by_txn_id), so a retried PUT .../send/{txnId} never stores a
\* second message: per sender, room and txn_id at most one message exists.
TxnIdempotent ==
    \A k \in TxnKeys :
        Cardinality({i \in DOMAIN events :
                        /\ events[i].type = "message"
                        /\ <<events[i].sender, events[i].room, events[i].txn>> = k}) <= 1

\* send_message refuses a sender who is not joined ("is not in room"): every
\* stored message was sent by a user whose membership, in the events stored
\* before it, is join.
MessagesFromMembers ==
    \A i \in DOMAIN events :
        events[i].type = "message" =>
            MembershipAt(events[i].sender, events[i].room, i - 1) = "join"

\* join_room needs the room's row (get_room_by_id) and invite_user and
\* leave_room a joined member, so a membership event is never stored in a
\* room before its m.room.create event (spec 4.3: no create event is a
\* hard rejection).
MembershipAfterCreate ==
    \A i \in DOMAIN events :
        events[i].type = "member" =>
            \E j \in 1..(i - 1) : events[j].type = "create" /\ events[j].room = events[i].room

\* redact_message stores the redaction and then marks its target with
\* redact_event: when no call is in flight, every redaction's target is
\* marked redacted.
RedactionApplied ==
    InFlight = {} =>
        \A i \in DOMAIN events : events[i].type = "redaction" => events[i].rel \in redacted

Log == INSTANCE RoomLog WITH log <- events, marks <- redacted, txns <- txnMap,
                             rule <- roomRule, creator <- roomCreator

\* The handlers' store steps, with calls one at a time and cut short by
\* restarts, implement RoomLog: events are only appended, a room row is
\* written once, redact_event marks only an event whose redaction is
\* stored, and store_txn_id_mapping binds a txn_id once, to that sender's
\* message.  With two concurrent sends of one txn_id the second mapping
\* overwrites the first, which RoomLog forbids (a hazard, not a run).
LogRefinement == Log!Spec

\* create_room records join_rules ("invite" unless the config says
\* otherwise): a user joins a room only as its creator, when it is public,
\* or after being invited.
JoinAllowed ==
    \A i \in DOMAIN events :
        LET u == events[i].target
            r == events[i].room
        IN  events[i].type = "member" /\ events[i].membership = "join" =>
                \/ u = roomCreator[r]
                \/ roomRule[r] = "public"
                \/ MembershipAt(u, r, i - 1) = "invite"

=============================================================================
