# TLA+ models of the synapsecode homeserver

This directory holds TLA+ models of the homeserver in `src/`, and the TLC
configurations that check them. `PROJECT.json` lists several things: each
component and its status, each run and what it checks, the mutants, the
definition-to-source map, the findings and the hazards.

## The system and how its parts interact

Clients call REST servlets (`src/rest/client`, `src/api/*`). A servlet calls a
handler (`src/handlers/*`), and the handler reads and writes the store
(`src/storage/databases/main/*`, `src/storage/__init__.py`).

- **Handlers are `async` coroutines on one event loop.** Two requests interleave
  at every `await`, and each store call is one.
- **Each store call is separate.** Both database engines open their connections
  in autocommit mode (`src/storage/engines/__init__.py`: sqlite
  `isolation_level=None`, postgres `ISOLATION_LEVEL_AUTOCOMMIT`). So every SQL
  statement commits on its own, and a "transaction" function that does a SELECT
  and then an INSERT is two steps that another request can get between.

The components are:

| component | sources | module | status |
|---|---|---|---|
| Friends: requests, friendships, blocks, rate limit, friends-list cache | handlers/friends.py, storage/databases/main/friends.py | Friends, MCFriends | partly |
| Rooms and membership | handlers/room.py | Rooms, MCRooms | partly |
| Messages: txn_id, edit, react, redact | handlers/message.py | Rooms, MCRooms | partly |
| Auth: register, login, logout, password | handlers/auth.py, api/auth.py | Sessions, MCSessions | partly |
| Devices and E2E keys | handlers/device.py, api/device.py | Sessions, MCSessions | partly |
| Media: upload, download, delete, files | handlers/media.py, api/media.py, rest/media/v1 | Media, MediaStore, MCMedia | partly |
| Federation: incoming PDUs, remote join | handlers/federation.py, api/federation.py | Federation, MCFederation | partly |
| Event graph, state resolution, auth rules | spec only | none | not modelled: no code in `src/` implements them |
| Engines, schema, DataStore stubs | storage/* | Friends (autocommit) | partly |
| Password policy, config | config/* | none | not modelled: pure validation |

## Friends (module `Friends`, instantiated by `MCFriends`)

### State

| variable | code |
|---|---|
| `requests` | The `friend_requests` table, as a sequence indexed by `request_id`. Each row holds sender, target, status and `created_ts`. |
| `friendRows` | The `friendships` table, as a bag: pair ↦ number of rows. The count makes duplicate rows visible. |
| `blockRows` | The `user_blocks` table, as a bag in the same form. |
| `clock` | `time.time()` / `clock.time_msec()`, in abstract ticks. |
| `rateCache` | `FriendsHandler._rate_limit_cache` |
| `listCache` | The `@cached` `get_friends_list`, per user. `NoCache` means no entry. |
| `slot` | The in-flight handler calls: the handler, its `pc` (the next await), and the values it has read so far. |

### Actions

There is one action per step between two awaits:

- `SendStart`: `send_friend_request` up to and including the rate limit and the self-check.
- `SendCheckBlocked`, `SendCheckFriendship`, `SendCheckRequest`: the handler's three reads.
- `SendStoreCheck`, `SendStoreInsert`: the SELECT and the INSERT of `_create_friend_request_txn`.
- `RespondStart`, `RespondUpdate`: `respond_to_friend_request`'s read and checks, then the unconditional UPDATE.
- `RespondFriendCheck`, `RespondFriendInsert`: the two statements of `create_friendship`, including the cache invalidation.
- `RemoveStart`, `RemoveDelete`: `remove_friend`.
- `BlockStart`, `BlockRemoveFriendship`, `BlockCheck`, `BlockInsert`: `block_user` and `create_user_block`.
- `UnblockUser`: `unblock_user` (a single statement).
- `StatementFails`: the statement a call awaits raises instead. The store re-raises every database error as `StoreError`, and the handler answers 500. Nothing of that statement is written, and the call ends. What its earlier autocommitted statements wrote stays.
- `GetFriendsList`: a cache fill. It is enabled only when the user has no friends, because for any other user the code raises `KeyError` at handlers/friends.py:308.
- `Tick`: time advances.

The REST servlets of `src/rest/client/friends.py` are the entry points: `Next`
calls the handler actions only through them.

- `OnPostFriendRequest`, `OnPostBlock`, `OnPostUnblock` answer 400 for a missing `user_id` (the model value `NoParam`) before any handler call.
- `OnPostResponse` answers 400 unless `accept` is a boolean.
- `OnDeleteFriend` calls `remove_friend` directly.
- `OnGetFriends` is the cache fill above. `OnGetReads` (search and the read servlets) changes nothing.

### Bounds

- The model has two users. Crossing requests, a block, and a stale cache each need only two.
- `MaxRequests = 3` request rows. That is enough for a rejected request, then a re-send, then a duplicate.
- `MaxPerHour = 2` and `RateWindow = 2`, so the rate limit is reached and the window expires within `MaxClock = 2` ticks.
- `Slots` is the number of calls in flight. `{1}` runs calls one at a time, and `{1,2}` lets two interleave.

### Time

Time moves only when no call is in flight. The real window is an hour, and a
call lasts milliseconds. Ticks can fall between any two calls, and in the code
two calls can have equal timestamps; the model allows both.

### Fairness

None. The properties so far are safety properties.

### Runs

| run | cfg | expect | what it shows |
|---|---|---|---|
| friends_serial | FriendsSerial.cfg | pass | With one call at a time, and any store statement allowed to fail, checked over every sequence of operations (1.84M states): TypeOK, at most one pending request per pair, at most one friendship row per pair, every friendship justified by an accepted request, the rate limit respected, and a request leaving `pending` only once (StatusFinal). |
| friends_double_send | FriendsDoubleSend.cfg | violation | Two concurrent sends insert two pending requests. Neither the handler's check nor the store's check is atomic with the insert. |
| friends_stale_cache | FriendsStaleCache.cfg | violation | Serially, an accept invalidates only the accepter's cached list, so the sender's cached list stays empty. |
| friends_blocked_accept | FriendsBlockedAccept.cfg | violation | Serially: A sends to B, A blocks B, and B accepts. The result is a friendship across a block. |

Each finding is listed in `PROJECT.json` under "findings".

Store failures add no state to the serial run: the count stays at 1,835,656.
A respond whose `create_friendship` fails leaves an accepted request without a
friendship, and accept followed by `remove_friend` reaches the same state. The
handler writes the status first, so the partial state never contradicts
FriendshipJustified, and a new request repairs it, because
`send_friend_request` refuses only a pending request. A block whose
`create_user_block` fails leaves the friendship deleted and no block. That is
the state `remove_friend` leaves, so no state property can tell the two apart.
What is lost is the caller's intent to block.

Two more concurrency failures were found while modelling, and each is kept as
a hazard note rather than as a run. In the first, an accept and a reject of one
request both pass the pending check: the request ends `rejected` but the
friendship exists, so StatusFinal and FriendshipJustified fail with two slots.
In the second, two users accept each other's crossing requests at once, and
FriendRowUnique fails with two slots. Reproduce either with
`FriendsSerial.cfg`, `Slots <- TwoSlots` and that one property.

TypeOK states that a user's rate-limit list never holds more than the limit. Each property of the passing run has a mutant that reproduces a plausible bug and that TLC catches:

| mutant | breaks |
|---|---|
| `>` instead of `>=` in the rate limit | TypeOK |
| no store re-check | AtMostOnePending. This only happens through two requests with the same `created_ts`, which `ORDER BY created_ts DESC` returns in either order. |
| no pair normalisation | FriendRowUnique |
| a friendship on reject | FriendshipJustified |
| `>` instead of `>=` in the rate limit | RateLimitRespected |
| no `pending` check | StatusFinal |

## Rooms and messages (module `Rooms`, instantiated by `MCRooms`)

### The store these handlers call

`RoomHandler` and `MessageHandler` call many store methods that have no code
under `src/`, such as `get_room_membership`, `get_event_by_txn_id`,
`store_txn_id_mapping`, `get_user_power_level` and `redact_event`.
(`DataStore` in `src/storage/__init__.py` is a placeholder.) The model gives
these methods the meaning that spec.md section 4 and their callers give them,
and `PROJECT.json` marks them `spec_modelled`:

- A user's membership is that of the latest `m.room.member` event with the user as its target.
- Power levels are the ones `_create_power_levels_event` writes: the creator at 100, everyone else at 0, and redact and invite each needing 50.

The `api/` layer above these handlers calls methods that do not exist, such as
`RoomHandler.is_user_in_room` and `MessageHandler.get_event_by_txn_id`. It is
not modelled. The model calls the handlers directly.

### State

| variable | code |
|---|---|
| `roomRule`, `roomCreator` | `store.create_room(room_config)` rows |
| `events` | `store_event`; an event id is its position |
| `txnMap` | `store_txn_id_mapping` |
| `redacted` | `redact_event` |
| `crashes` | process restarts |
| `slot` | calls in flight, as in Friends |

### Actions

There is one action per store await:

- **create_room:** `CreateStart`, then `CreateRoomRow`, then `CreateStoreEvents` (three steps: create, join, power_levels), then `CreateStoreExtra` (name and topic).
- **join_room:** `JoinStart`, `JoinMembership`, `JoinStore`.
- **leave_room:** `LeaveStart`, `LeaveStore`.
- **invite_user:** `InviteStart`, `InviteCheck`, `InviteStore`.
- **send_message** and **edit_message:** `MsgStart` or `EditStart`, then `MsgMembership`, `MsgTxnLookup`, `MsgStoreEvent`, `MsgStoreTxn`.
- **react_to_message:** `ReactStart`, `ReactStore`.
- **redact_message:** `RedactStart`, `RedactPower`, `RedactStore`, `RedactApply`.
- **Reads:** `ReadRoomState` (get_room_state and the other reads).
- **Restart:** `Crash` ends every call in flight. Stored rows stay, and a client may then retry.

The API classes of `src/api/room.py` and `src/api/message.py` are composed in as `Api*` actions:

- `ApiCreateRoom` changes nothing, because `RoomAPI.create_room` passes `creator_id=` to a handler that has no such parameter, so every call raises `TypeError` before any write.
- `ApiJoinRoom` is `JoinStart`. The join is stored, and the API then reads `result['success']` from a handler that returns no such key, so the client gets a 500 for a join that happened.
- `ApiLeaveRoom` and `ApiInviteUser` call the handler. The invite answers 400 for a missing `user_id` first.
- `ApiSendMessage` and `ApiRedactEvent` change nothing, because every `MessageAPI` endpoint first calls `is_user_in_room`, which the handler does not have.
- The other endpoints also change nothing. `ApiGetMessages`, `ApiGetEventContext`, `ApiSendReaction`, `ApiEditMessage` and `ApiTypingReceipt` fail on the same `is_user_in_room`. `ApiGetRoomState` and `ApiGetRoomMembers` (which also covers joined rooms) are reads or fail on it. `ApiSetRoomState` and `ApiKickUser` await `check_user_power_level`, `send_state_event` or `kick_user`, which are missing on `RoomHandler`. They are grouped as `ApiNoWrite` in `Next`. Checking `ApiNoWrite` shows that none of these endpoints can move the store.

### Refinement

`RoomLog` is what the handlers promise of the store, with one atomic step per change:

- the events of all rooms form an append-only log;
- a room's row is written once;
- an event is marked redacted only after a redaction pointing at it is in the log;
- a txn_id is bound once, to a message of that sender, room and txn_id.

`Rooms` implements it under the identity mapping of the store variables; the
slots are hidden. `LogRefinement` checks this in `rooms_crash`, with calls one at a time and restarts.
With two slots the binding part fails: two concurrent sends with the same
txn_id both miss the lookup and both store a mapping. That is the same race the
txn_id hazard names.

### Bounds

- Two users, one room (two for the plan's cross-room questions), and one txn_id.
- `MaxEvents = 6`, enough for a room's three creation events plus three more.
- `CreateExtras = {0, 1}`.

### Runs

| run | cfg | expect | what it shows |
|---|---|---|---|
| rooms_serial | RoomsSerial.cfg | pass | With calls one at a time and no restart: TxnIdempotent (a txn_id never stores two messages), MessagesFromMembers, MembershipAfterCreate (no membership before `m.room.create`), and RedactionApplied (when idle, every redaction's target is marked). |
| rooms_crash | RoomsCrash.cfg | pass | `LogRefinement`: with calls one at a time, every behaviour, with a restart between any two awaits, is a behaviour of `RoomLog`. With two slots it fails on the txn_id race described above. |
| rooms_txn_crash | RoomsTxnCrash.cfg | violation | A restart after `store_event` and before `store_txn_id_mapping` makes the client's retry store the message twice. |
| rooms_join_invite_only | RoomsJoinInviteOnly.cfg | violation | `join_room` never reads `join_rules`, so anyone joins a room whose join rule is the default `invite`. |

Mutants of the passing runs, each caught by TLC:

| mutant | breaks |
|---|---|
| a new event's id off by one | TypeOK (a txn_id maps to an event of another kind) |
| a txn_id lookup that never hits | TxnIdempotent |
| membership read from the oldest member event | MessagesFromMembers |
| `get_room_by_id` always found | MembershipAfterCreate |
| `redact_event` arguments swapped | RedactionApplied; in rooms_crash, LogRefinement (a mark without its redaction) |

### Further failures, kept as hazards

These were found while modelling. Each is recorded as a hazard, not a run:

- **Concurrent sends with one txn_id** both store a message. This breaks `TxnIdempotent` with two slots.
- **A leave between `send_message`'s membership check and its store** breaks `MessagesFromMembers` with two slots.
- **A join during `create_room`** stores a membership before `m.room.create`. This breaks `MembershipAfterCreate` with two slots.
- **A restart between the redaction and `redact_event`** breaks `RedactionApplied`.
- **Missing checks:**
  - `redact_message` checks power in the request's room, not in the target event's room;
  - `react_to_message` checks neither membership nor room;
  - `invite_user` checks membership only, not the invite power level.

## Media (modules `Media` and `MediaStore`, instantiated by `MCMedia`)

`MediaHandler` (`src/handlers/media.py`) keeps each local media item as a file
at `_get_media_path(media_id)` plus a row in the media table. The store methods
it awaits (`store_local_media`, `get_local_media`, `delete_local_media`) have no
code under `src/`; the model gives them the obvious meaning of insert, select
and delete of one row.

### State

- `files`: media id → the body in its file (`"partial"` for a file cut short, `"nofile"`).
- `rows`: media id → the body its row describes (`"norow"`).
- `usedIds`: ids `_generate_media_id` has returned.
- Ghost variables, for the properties:
  - `uploads` and `acked`: bodies written and bodies acknowledged;
  - `deleted`: ids a delete was called for;
  - `served`: download results.
- `slot`: one in-flight handler call per slot, as in `Rooms`.

### Actions

Each action is the code between two awaits of one handler call.

| Action | Code it models |
|---|---|
| `UploadStart` | The size check, `_generate_media_id` and the synchronous file write. All of this runs before the first await. |
| `UploadStore` | `store_local_media` |
| `UploadReturn` | Return of the content_uri. `_generate_thumbnails` writes nothing, because `_generate_single_thumbnail` returns `None`. |
| `DownloadStart` | `get_local_media` |
| `DownloadRead` | Row check, `os.path.exists`, read |
| `DeleteStart` | `os.remove` of the file (the thumbnails never exist) |
| `DeleteRow` | `delete_local_media` |
| `GetMediaInfo`, `GetThumbnail` | Reads that change nothing. `get_thumbnail` always ends in `FileNotFoundError`. |
| `Crash` | Kills every in-flight call. |
| `CrashInWrite` | A crash inside `f.write`, which leaves a truncated file. |

A caller deletes only ids it learnt from a content_uri.

### Refinement

`MediaStore` states what callers are promised, as an atomic store:

- each id is reserved once;
- it gets one body;
- it keeps that body until it is deleted;
- a download answers with the current body, or 404.

`Media` maps its state onto that store:

- a body is visible from the moment its row is stored until its file is removed;
- an id that was handed out but has no row is "reserved".

`StoreRefinement` (`Store!Spec` under `INSTANCE MediaStore WITH media <- AbstractMedia`)
is checked as a `PROPERTY`. It holds across crashes: a truncated or orphan file
has no row, and `_download_local_media` checks the row first, so such a file is
never served.

### Runs

| Run | Expect | What it shows |
|---|---|---|
| `media_crash` | pass | Bounds: 2 slots, 3 ids, 2 bodies, 1 crash, with symmetry. No acknowledged upload is lost or changed (`AckedAvailable`), and the handler refines `MediaStore`. 324k states. |
| `media_delete_crash` | violation | `RecordHasFile`. Upload, delete start, crash: the row outlives its file, so `get_media_info` describes media that `download_media` cannot serve. |

Mutants:

- a download that skips `os.path.exists` (`TypeOK`);
- an id generator that only avoids ids with a row (`AckedAvailable`: a second upload overwrites an acknowledged body);
- a download that serves the file without a row (`StoreRefinement`: a truncated file is served).

The client API of `src/api/media.py` is composed in as `Api*` actions:

- `ApiUploadMedia` and `ApiDownloadMedia` are `UploadStart` and `DownloadStart`.
- `ApiGetThumbnail` and `ApiGetMediaInfo` are the handler's reads.
- `ApiPreviewConfig` answers from constants.
- `ApiDeleteMedia` and `ApiQuarantineMedia` change nothing. Both await `auth_handler.is_server_admin`, which `AuthHandler` does not have, so they answer 500 before `delete_media` is reached.

So no endpoint of this API reaches the handler's `delete_media`. `DeleteStart`
stays a handler action, for any other caller, and `media_delete_crash` is a
finding about the handler.

Not modelled:

- remote media: nothing ever caches it, and `_download_remote_media` raises `NotImplementedError`;
- `quarantine_media`: the handler has no such method;
- `rest/media/v1`: `_base.py` holds HTTP response helpers, and nothing under `src/` calls `MediaStorage`.

## Federation (module `Federation`, instantiated by `MCFederation`)

Remote servers push events through `handle_send_transaction`
(`src/api/federation.py`), which runs `handle_incoming_event` for each event of
the transaction in turn and answers with the ids it accepted.

`FederationHandler` (`src/handlers/federation.py`) writes remote events to the
event store on four paths:

- `handle_incoming_event`;
- `join_room_via_federation`, through `_store_room_state`;
- `backfill_events`;
- `invite_user_to_room`.

What sits outside `src/`, and how the model treats it:

- **`federation_client` and `event_auth`:** neither has code here. A remote call answers, answers `None`, or raises. `check_auth_rules_for_event` accepts exactly the constant set `Authorized`.
- **`store_event` and `get_event_by_id`:** these have the meaning `spec.md` gives `EventStore`: an idempotent persist and a lookup by id.
- **The remote sender:** modelled from `spec.md` ("Failure semantics"). It retries an event until it gets an answer. It does not retry an event answered `False`, since that is a rejection.

### State

- `stored`: remote events in the store.
- `ownEvents`: our join and invite events.
- `outbox`: what the sender still tries to deliver.
- `accepted`: servers that accepted our `send_join`.
- `acked`: events a transaction response has reported to the sender as accepted.
- `invites`, `crashes`, `lost`: bounded counters.
- `slot`: in-flight calls.

### Actions

| Action | Code it models |
|---|---|
| `TxnStart` | `handle_send_transaction` receives a non-empty subset of the outbox. |
| `IncomingStart` | The next event of the transaction (`Remaining`), its origin and `_validate_event`. An invalid event is answered `False`. |
| `IncomingLookup` | `get_event_by_id`. An event already stored is answered `True`. |
| `IncomingStore` | `store_event`, then `True`. |
| `IncomingFail` | `get_event_by_id` or `store_event` raises (at most `MaxStoreFails` events). The `except` clause answers `False`, the same answer as for an unauthorized event. |
| `TxnReturn` | The response with the accepted ids. It may be lost (`Answer`), and then the sender resends the whole transaction. |
| `OnGetEvent`, `OnGetState`, `OnGetHistory`, `OnQuery`, `OnMakeJoin`, `OnSendJoin`, `OnMakeLeave`, `OnSendLeave`, `OnInvite` | The other `FederationAPI` endpoints. Each awaits a `FederationHandler` method that does not exist (`get_event_for_federation`, `make_join_event`, `handle_join_event` and others) and answers 500, or it answers from constants. None of them changes state, so a remote server can neither read our events nor join, leave or invite through us. |
| `JoinStart`, `JoinGetState`, `JoinMake`, `JoinSend` | One remote call each. On `None` or an exception, `FailOver` moves to the next server, or raises `RuntimeError` after the last. `send_join` may raise after the server accepted. |
| `JoinStoreState` | One validated state event. |
| `JoinStoreEvent` | The join event. |
| `BackfillStart`, `BackfillStore` | One step for the remote call, then one step per event. |
| `InviteStart`, `InviteStore` | The remote call, then the store. |
| `Crash` | The loss of every in-flight call. |

Any answer may be lost on its way to the sender, at most `MaxLost` times.
The sender then delivers again, even while the first delivery is still running.

### Fairness

`FairSpec` adds two kinds of fairness:

- **Weak fairness on `Continue(s)`, every step after a call's first await.** The asyncio loop resumes every coroutine whose await has completed, and every remote call ends with an answer or a timeout exception.
- **Strong fairness on delivering each pushed event.** The sender retries as long as it has no answer. Slots may be busy with joins and backfills, so the delivery is only enabled again and again, never continuously.

Starting a join, a backfill or an invite is not fair: nobody has to make those calls.

### Runs

| Run | Expect | What it shows |
|---|---|---|
| `federation_fair` | pass | Bounds: 3 events (one unauthorized), 2 servers whose state and history overlap the pushed events, 2 slots, 1 crash, 1 lost answer, 1 failed store call, 1 invite. 1.17M states. `AckedStored`: every event a transaction response acknowledged is in the store. `StoredAuthorized`: no path stores an event that fails the auth check. `EventuallyStoredOrFailed`: every authorized pushed event is eventually stored, unless its lookup or store raised and it was answered `False`. So the `except` path is the only way the sender loses an authorized event. Without the fairness, this property fails. |

Mutants:

- a server loop that reads one past the list (`TypeOK`);
- a duplicate check that accepts an event whenever anything is stored (`AckedStored`);
- a `_validate_event` that skips the auth check (`StoredAuthorized`);
- a transaction loop that stops after its first event (`EventuallyStoredOrFailed`: the rest are never stored, whatever the sender retries).

Kept as hazards, not runs (the run budget is spent):

- **`send_join` times out after the server accepted.** The loop joins through the next server too. TLC reaches `accepted = {v1, v2}` in one call.
- **`False` means two things.** `handle_incoming_event` answers `False` both for a rejected event and for any exception. A sender honouring the spec's "rejections are not retried" would drop an authorized event after a transient store error.

## Sessions (module `Sessions`, instantiated by `MCSessions`)

`AuthHandler` (`src/handlers/auth.py`) and `DeviceHandler`
(`src/handlers/device.py`) share the same tables: users with a password hash,
access tokens, devices, device keys and one-time keys. The store methods they
await have no code under `src/`. The model gives each one the meaning of one
statement on the table its name gives.

### State

- `pw`: the user's current password, or `NoUser`. Hashes are abstracted to the passwords they hash: `_verify_password` answers true exactly when the passwords are equal.
- `tokens`: records `[id, user, dev, pw]`. `pw` is the password that was current when `login_user` checked it.
- `devices`, `keys`, `otks`: sets of `<<user, device>>` pairs.
- `usedTokens`: ids `_generate_access_token` has handed out.
- `slot`: one in-flight handler call per slot, with its program counter.

### Actions

There is one action per stretch of code between two awaits.

- `register_user`: `RegisterCheck` (`check_user_exists`), then `RegisterCreate`.
- `login_user`: `LoginStart` (password check), `LoginToken` (`store_access_token`), `LoginDevice` (`store_device`).
- `change_password`: `ChangeStart`, `ChangeUpdate` (new hash), `ChangeInvalidate` (the user's tokens deleted).
- `delete_device`: `DeleteCheck`, `DeleteTokens`, `DeleteKeys`, `DeleteDevice`.
- `upload_device_keys`: `UploadCheck`, `UploadKeys`, and `UploadOtks` when one-time keys come with the upload.
- `register_device`: `DeviceRegisterCheck`, then `DeviceRegisterWrite`.
- Single steps: `logout_user`, `claim_one_time_keys`. The reads `get_user_by_access_token`, `get_device_keys` and `update_device` change nothing the model keeps, because display names are not kept.

The model has no crash action. Its one run is serial, and a crash between two
awaits ends in the same states the two-slot races below reach.

### Runs

| Run | Expect | What it shows |
|---|---|---|
| `sessions_serial` | pass | Bounds: 2 users, 2 passwords, 2 devices, 3 token ids, one call at a time, with symmetry over all four sets. 211k states. `TokensPostdatePassword`: once `change_password` has finished, every token carries the current password. `TokenHasDevice`: once `login_user` has finished, every token's device exists. `KeysHaveDevice`: no device keys or one-time keys outlive their device. |

Mutants:

- a token generator that may repeat an id (`TypeOK`);
- a `change_password` that revokes no token (`TokensPostdatePassword`);
- a `delete_device` that deletes no token (`TokenHasDevice`);
- an upload that checks the device of any user (`KeysHaveDevice`).

Kept as hazards, not runs (the run budget is spent). With `Slots <- TwoSlots`,
TLC breaks each of the three properties:

- **`login_user` races `change_password`.** The password is checked, the change runs to its end, and then the token is stored. The result is a token for the old password. The code calls the invalidation "optional" (`auth.py:328`).
- **`login_user` races `delete_device`.** The token is stored after the device's tokens are deleted, and the device is stored before it is deleted.
- **`upload_device_keys` races `delete_device`.** The device check passes, and the keys are stored after `delete_device_keys`.

The `api/auth.py` and `api/device.py` layers are composed in as `Api*` actions:

- `ApiRegister`, `ApiLogin`, `ApiLogout` and `ApiChangePassword` change nothing. Each raises before any write: a wrong keyword argument, or a handler method that does not exist (`validate_login`, `delete_access_token`).
- `ApiDeleteDevice` changes nothing, because it needs the missing `validate_login`.
- `ApiClaimKeys` and `ApiUpdateDevice` reach the handler.
- `ApiLogoutAll` changes nothing: it needs the missing `delete_all_access_tokens`. `ApiDeleteDevices` answers 401 without auth, and otherwise needs `validate_login`. `ApiUploadKeys` answers 400, because the user row has no `device_id`. `ApiWhoami`, `ApiAuthReads`, `ApiDeviceReads`, `ApiKeyReads` and `ApiKeyChanges` are reads. They are grouped as `ApiNoWrite`.

The password policy of `validate_password_strength` is left out: it
changes no state.

## Not modelled yet, and why

Store failures are modelled in `Friends` and in `Federation`. In `Federation`, a failing
`store_event` makes `handle_incoming_event` answer `False`, the answer for a
rejection. A sender that follows spec.md and does not retry a rejection then
drops an authorized event. `EventuallyStoredOrFailed` shows that this is the only
way it is lost. Showing the loss itself needs a run of `EventuallyStored`, and the
run budget is spent. It stays a hazard note.

The other items are left out:

- **Read-only handlers** (`get_friend_requests`, `search_users`, `get_blocked_users`): they change no state.
- **Growth of `_rate_limit_cache` keys:** unbounded, so outside a finite model.
- **`src/rest/media/v1`:** `_base.py` is HTTP response helpers. `MediaStorage.store_file` is called by nothing.
- **`src/storage/schema`:** `SchemaManager` is called by nothing under `src/`. No model assumes its UNIQUE constraints.
- **EventGraph, StateResolver, AuthRuleEngine, EventStore** from spec.md: `src/` contains only the `DataStore` stub, with no DAG, resolution or auth rules to translate.

## Plan

The run set is capped at twelve runs, and all twelve are used. The violation
runs are spent on the findings that need state or a restart to show. Later
work replaces shallower runs instead of adding more.

1. **Friends (done, with store failures).**
2. **Rooms (done, with the `RoomLog` refinement).** Next, add a property for rooms left half-created by a restart.
3. **Sessions (done).** Next, add a crash action. That needs a second run, because a crash breaks the two token properties at once.
4. **Media (done)**, with the first refinement (`MediaStore`).
5. **Federation (done, with every FederationAPI endpoint).** Store failures are modelled (`IncomingFail`). Next, a violation run of `EventuallyStored`, if a run slot frees.
