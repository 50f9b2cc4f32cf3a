------------------------------- MODULE Friends -------------------------------
(***************************************************************************)
(* The friends subsystem: FriendsHandler (src/handlers/friends.py) over    *)
(* FriendsWorkerStore (src/storage/databases/main/friends.py).             *)
(*                                                                         *)
(* Every handler call is an asyncio coroutine; it yields at each `await`   *)
(* on the store, so calls of several users interleave between store       *)
(* statements.  A call in progress occupies a slot; each action below is   *)
(* the code between two awaits.  The store runs every statement in         *)
(* autocommit (src/storage/engines/__init__.py sets autocommit on both     *)
(* engines), so the SELECT-then-INSERT "transactions" of the store are two *)
(* steps.  With one slot the calls run one after the other.               *)
(*                                                                         *)
(* Data is abstracted: users are small naturals (the store orders user ids *)
(* with `>`), a request id is an index into `requests`, a timestamp is a   *)
(* tick of `clock`; messages, profiles and log lines are left out.         *)
(***************************************************************************)
EXTENDS Naturals, Sequences, FiniteSets

CONSTANTS
    Users,        \* user ids
    Slots,        \* handler calls that may be in progress at once
    MaxRequests,  \* bound on rows of friend_requests
    MaxClock,     \* bound on the clock
    MaxPerHour,   \* FriendsHandler._max_requests_per_hour
    RateWindow,   \* FriendsHandler._rate_limit_window, in ticks
    NoCache,      \* model value: no entry in the get_friends_list cache
    NoParam       \* model value: a parameter the request body leaves out

ASSUME Users \subseteq Nat \ {0}
ASSUME MaxPerHour >= 1 /\ RateWindow >= 1

VARIABLES
    requests,    \* friend_requests rows; request_id = index
    friendRows,  \* user_friendships: number of rows per (user1_id, user2_id)
    blockRows,   \* user_blocks: number of rows per (blocker, blocked)
    clock,       \* wall clock (time.time() and clock.time_msec())
    rateCache,   \* FriendsHandler._rate_limit_cache
    listCache,   \* @cached get_friends_list, keyed by requesting user
    slot         \* the handler call running in each slot

vars == <<requests, friendRows, blockRows, clock, rateCache, listCache, slot>>

Status == {"pending", "accepted", "rejected"}
Request == [sender: Users, target: Users, status: Status, ts: 0..MaxClock]
Handler == {"idle", "send", "respond", "remove", "block"}
Idle == [h |-> "idle", pc |-> "idle", user |-> 0, peer |-> 0, req |-> 0,
         accept |-> FALSE, ts |-> 0]
Call(h, pc, u, t) == [Idle EXCEPT !.h = h, !.pc = pc, !.user = u, !.peer = t]
Pairs == Users \X Users

-----------------------------------------------------------------------------
(* Store queries                                                           *)

\* get_friendship: a row in either order
FriendRowsBetween(a, b) == friendRows[<<a, b>>] + friendRows[<<b, a>>]

\* is_user_blocked(blocker, blocked): a user_blocks row
IsUserBlocked(blocker, blocked) == blockRows[<<blocker, blocked>>] > 0

\* get_user_friendships: every user with a row with u in either column
FriendsOf(u) == {v \in Users : FriendRowsBetween(u, v) > 0}

Between(i, u, t) == requests[i].sender = u /\ requests[i].target = t

\* get_friend_request: ORDER BY created_ts DESC LIMIT 1; rows with equal
\* created_ts come back in an unspecified order
LatestRequests(u, t) ==
    LET ids == {i \in DOMAIN requests : Between(i, u, t)}
    IN  {i \in ids : \A j \in ids : requests[j].ts <= requests[i].ts}

\* the check inside _create_friend_request_txn
NoPendingCheck(u, t) == FALSE
PendingExists(u, t) ==
    \E i \in DOMAIN requests : Between(i, u, t) /\ requests[i].status = "pending"

\* create_friendship keeps user1_id < user2_id
NormalizeNoSwap(a, b) == <<a, b>>
Normalize(a, b) == IF a > b THEN <<b, a>> ELSE <<a, b>>

\* remove_friendship: DELETE ... WHERE (a, b) OR (b, a)
DeletePair(a, b) == [friendRows EXCEPT ![<<a, b>>] = 0, ![<<b, a>>] = 0]

-----------------------------------------------------------------------------
(* FriendsHandler helpers                                                  *)

\* _check_rate_limit: drop timestamps older than the window ...
Pruned(u) == SelectSeq(rateCache[u], LAMBDA ts : clock - ts < RateWindow)

\* ... and refuse when the window is full
RateLimitedOffByOne(u) == Len(Pruned(u)) > MaxPerHour
RateLimited(u) == Len(Pruned(u)) >= MaxPerHour

\* respond_to_friend_request: only the target answers, only while pending
AnswerableAnyStatus(r, u) == r.target = u
Answerable(r, u) == r.target = u /\ r.status = "pending"

NewStatus(accept) == IF accept THEN "accepted" ELSE "rejected"

\* respond_to_friend_request creates the friendship only when accepting
CreatesFriendshipAlways(accept) == TRUE
CreatesFriendship(accept) == accept

\* the bound on friend_requests rows, counting sends still in progress
CanStartSend ==
    Len(requests) + Cardinality({s \in Slots : slot[s].h = "send"}) < MaxRequests

-----------------------------------------------------------------------------
Init ==
    /\ requests = <<>>
    /\ friendRows = [p \in Pairs |-> 0]
    /\ blockRows = [p \in Pairs |-> 0]
    /\ clock = 0
    /\ rateCache = [u \in Users |-> <<>>]
    /\ listCache = [u \in Users |-> NoCache]
    /\ slot = [s \in Slots |-> Idle]

Finish(s) == slot' = [slot EXCEPT ![s] = Idle]
GoTo(s, pc) == slot' = [slot EXCEPT ![s].pc = pc]
At(s, h, pc) == slot[s].h = h /\ slot[s].pc = pc

-----------------------------------------------------------------------------
(* send_friend_request                                                     *)

\* validation and rate limiting run before the first await; the attempt is
\* recorded before the self-request check
SendStart(s, u, t) ==
    /\ slot[s] = Idle
    /\ CanStartSend
    /\ \/ /\ RateLimited(u)
          /\ rateCache' = [rateCache EXCEPT ![u] = Pruned(u)]
          /\ UNCHANGED slot
       \/ /\ ~RateLimited(u)
          /\ rateCache' = [rateCache EXCEPT ![u] = Append(Pruned(u), clock)]
          /\ IF u = t
                THEN UNCHANGED slot
                ELSE slot' = [slot EXCEPT ![s] = Call("send", "is_blocked", u, t)]
    /\ UNCHANGED <<requests, friendRows, blockRows, clock, listCache>>

\* is_user_blocked(target, sender)
SendCheckBlocked(s) ==
    /\ At(s, "send", "is_blocked")
    /\ IF IsUserBlocked(slot[s].peer, slot[s].user)
          THEN Finish(s)
          ELSE GoTo(s, "get_friendship")
    /\ UNCHANGED <<requests, friendRows, blockRows, clock, rateCache, listCache>>

\* get_friendship(sender, target)
SendCheckFriendship(s) ==
    /\ At(s, "send", "get_friendship")
    /\ IF FriendRowsBetween(slot[s].user, slot[s].peer) > 0
          THEN Finish(s)
          ELSE GoTo(s, "get_request")
    /\ UNCHANGED <<requests, friendRows, blockRows, clock, rateCache, listCache>>

\* get_friend_request(sender, target): refuse when the latest is pending
SendCheckRequest(s) ==
    /\ At(s, "send", "get_request")
    /\ LET latest == LatestRequests(slot[s].user, slot[s].peer) IN
       \/ /\ latest = {}
          /\ GoTo(s, "store_check")
       \/ \E i \in latest :
            IF requests[i].status = "pending"
               THEN Finish(s)
               ELSE GoTo(s, "store_check")
    /\ UNCHANGED <<requests, friendRows, blockRows, clock, rateCache, listCache>>

\* create_friend_request: created_ts is read when the call is made; the
\* transaction's SELECT for a pending request refuses with 409
SendStoreCheck(s) ==
    /\ At(s, "send", "store_check")
    /\ IF PendingExists(slot[s].user, slot[s].peer)
          THEN Finish(s)
          ELSE slot' = [slot EXCEPT ![s].pc = "store_insert", ![s].ts = clock]
    /\ UNCHANGED <<requests, friendRows, blockRows, clock, rateCache, listCache>>

\* the transaction's INSERT ... 'pending'
SendStoreInsert(s) ==
    /\ At(s, "send", "store_insert")
    /\ requests' = Append(requests, [sender |-> slot[s].user,
                                     target |-> slot[s].peer,
                                     status |-> "pending",
                                     ts |-> slot[s].ts])
    /\ Finish(s)
    /\ UNCHANGED <<friendRows, blockRows, clock, rateCache, listCache>>

-----------------------------------------------------------------------------
(* respond_to_friend_request                                               *)

\* get_friend_request_by_id and the target / pending checks; a call that
\* fails them changes nothing
RespondStart(s, u, i, accept) ==
    /\ slot[s] = Idle
    /\ i \in DOMAIN requests
    /\ Answerable(requests[i], u)
    /\ slot' = [slot EXCEPT ![s] = [Call("respond", "update_status", u, 0)
                                      EXCEPT !.req = i, !.accept = accept]]
    /\ UNCHANGED <<requests, friendRows, blockRows, clock, rateCache, listCache>>

\* update_friend_request_status: UPDATE ... WHERE request_id = ?, whatever
\* the status is now
RespondUpdate(s) ==
    /\ At(s, "respond", "update_status")
    /\ requests' = [requests EXCEPT ![slot[s].req].status = NewStatus(slot[s].accept)]
    /\ IF CreatesFriendship(slot[s].accept)
          THEN GoTo(s, "friend_check")
          ELSE Finish(s)
    /\ UNCHANGED <<friendRows, blockRows, clock, rateCache, listCache>>

\* create_friendship: normalise the pair, SELECT for an existing row; on
\* an existing row it returns and the handler invalidates its cache
RespondFriendCheck(s) ==
    /\ At(s, "respond", "friend_check")
    /\ LET r == requests[slot[s].req] IN
       IF friendRows[Normalize(r.sender, r.target)] > 0
          THEN /\ listCache' = [listCache EXCEPT ![slot[s].user] = NoCache]
               /\ Finish(s)
          ELSE /\ GoTo(s, "friend_insert")
               /\ UNCHANGED listCache
    /\ UNCHANGED <<requests, friendRows, blockRows, clock, rateCache>>

\* create_friendship INSERT, then get_friends_list.invalidate((requester,))
RespondFriendInsert(s) ==
    /\ At(s, "respond", "friend_insert")
    /\ LET r == requests[slot[s].req]
           p == Normalize(r.sender, r.target)
       IN  friendRows' = [friendRows EXCEPT ![p] = @ + 1]
    /\ listCache' = [listCache EXCEPT ![slot[s].user] = NoCache]
    /\ Finish(s)
    /\ UNCHANGED <<requests, blockRows, clock, rateCache>>

-----------------------------------------------------------------------------
(* remove_friend                                                           *)

\* get_friendship; NotFound changes nothing
RemoveStart(s, u, f) ==
    /\ slot[s] = Idle
    /\ FriendRowsBetween(u, f) > 0
    /\ slot' = [slot EXCEPT ![s] = Call("remove", "delete", u, f)]
    /\ UNCHANGED <<requests, friendRows, blockRows, clock, rateCache, listCache>>

\* remove_friendship, then invalidate the remover's cache entry
RemoveDelete(s) ==
    /\ At(s, "remove", "delete")
    /\ friendRows' = DeletePair(slot[s].user, slot[s].peer)
    /\ listCache' = [listCache EXCEPT ![slot[s].user] = NoCache]
    /\ Finish(s)
    /\ UNCHANGED <<requests, blockRows, clock, rateCache>>

-----------------------------------------------------------------------------
(* block_user                                                              *)

\* self-block is refused; get_friendship decides whether to remove first
BlockStart(s, u, t) ==
    /\ slot[s] = Idle
    /\ u # t
    /\ slot' = [slot EXCEPT ![s] =
                  Call("block", IF FriendRowsBetween(u, t) > 0
                                   THEN "remove_friendship"
                                   ELSE "block_check", u, t)]
    /\ UNCHANGED <<requests, friendRows, blockRows, clock, rateCache, listCache>>

\* remove_friendship (no cache invalidation here)
BlockRemoveFriendship(s) ==
    /\ At(s, "block", "remove_friendship")
    /\ friendRows' = DeletePair(slot[s].user, slot[s].peer)
    /\ GoTo(s, "block_check")
    /\ UNCHANGED <<requests, blockRows, clock, rateCache, listCache>>

\* create_user_block: SELECT for an existing block ...
BlockCheck(s) ==
    /\ At(s, "block", "block_check")
    /\ IF blockRows[<<slot[s].user, slot[s].peer>>] > 0
          THEN Finish(s)
          ELSE GoTo(s, "block_insert")
    /\ UNCHANGED <<requests, friendRows, blockRows, clock, rateCache, listCache>>

\* ... and INSERT
BlockInsert(s) ==
    /\ At(s, "block", "block_insert")
    /\ blockRows' = [blockRows EXCEPT ![<<slot[s].user, slot[s].peer>>] = @ + 1]
    /\ Finish(s)
    /\ UNCHANGED <<requests, friendRows, clock, rateCache, listCache>>

-----------------------------------------------------------------------------
(* Store failures                                                          *)

\* The statement a call awaits raises instead (the store re-raises any
\* database error as StoreError; the handler re-raises it, or wraps it as
\* SynapseError 500).  Nothing of that statement is written, and the call
\* ends; what its earlier statements committed stays, each having run in
\* autocommit.
StatementFails(s) ==
    /\ slot[s].h # "idle"
    /\ Finish(s)
    /\ UNCHANGED <<requests, friendRows, blockRows, clock, rateCache, listCache>>

-----------------------------------------------------------------------------
(* unblock_user and get_friends_list: a single store statement each       *)

\* remove_user_block; NotFound when nothing was deleted
UnblockUser(u, t) ==
    /\ blockRows[<<u, t>>] > 0
    /\ blockRows' = [blockRows EXCEPT ![<<u, t>>] = 0]
    /\ UNCHANGED <<requests, friendRows, clock, rateCache, listCache, slot>>

\* A cache miss runs get_user_friendships.  The handler then reads
\* friendship["user1_id"], a key the store's rows do not have, so a user with
\* a friend gets a KeyError and nothing is cached; an empty list is cached.
GetFriendsList(u) ==
    /\ listCache[u] = NoCache
    /\ FriendsOf(u) = {}
    /\ listCache' = [listCache EXCEPT ![u] = {}]
    /\ UNCHANGED <<requests, friendRows, blockRows, clock, rateCache, slot>>

\* The window is an hour and a handler call takes milliseconds: time only
\* advances between calls.
Tick ==
    /\ clock < MaxClock
    /\ \A s \in Slots : slot[s] = Idle
    /\ clock' = clock + 1
    /\ UNCHANGED <<requests, friendRows, blockRows, rateCache, listCache, slot>>

-----------------------------------------------------------------------------
(* REST servlets (src/rest/client/friends.py).  get_user_by_req resolves   *)
(* the requester u (the auth layer is not under src); each servlet checks  *)
(* its body and calls one handler method.  A refused request is a 400 and  *)
(* changes nothing, so it is a stuttering step.                            *)

\* FriendRequestServlet.on_POST: "Missing user_id" unless the body names one.
OnPostFriendRequest(s, u, t) == t # NoParam /\ SendStart(s, u, t)

\* FriendRequestResponseServlet.on_POST: accept must be present and a bool.
OnPostResponse(s, u, i, accept) == accept \in BOOLEAN /\ RespondStart(s, u, i, accept)

\* FriendRemoveServlet.on_DELETE: the user id comes from the path.
OnDeleteFriend(s, u, f) == RemoveStart(s, u, f)

\* UserBlockServlet.on_POST and UserUnblockServlet.on_POST.
OnPostBlock(s, u, t) == t # NoParam /\ BlockStart(s, u, t)
OnPostUnblock(u, t) == t # NoParam /\ UnblockUser(u, t)

\* FriendsListServlet.on_GET.
OnGetFriends(u) == GetFriendsList(u)

\* FriendRequestsServlet, FriendSearchServlet (limit within 1..100) and
\* BlockedUsersServlet: reads only.
OnGetReads(u) == UNCHANGED vars

Params == Users \cup {NoParam}

-----------------------------------------------------------------------------
Next ==
    \/ Tick
    \/ \E u \in Users, t \in Params :
          \/ OnPostUnblock(u, t)
          \/ \E s \in Slots : OnPostFriendRequest(s, u, t) \/ OnPostBlock(s, u, t)
    \/ \E u, f \in Users, s \in Slots : OnDeleteFriend(s, u, f)
    \/ \E u \in Users : OnGetFriends(u) \/ OnGetReads(u)
    \/ \E s \in Slots, u \in Users, i \in 1..MaxRequests, a \in BOOLEAN \cup {NoParam} :
          OnPostResponse(s, u, i, a)
    \/ \E s \in Slots :
          \/ SendCheckBlocked(s) \/ SendCheckFriendship(s)
          \/ SendCheckRequest(s) \/ SendStoreCheck(s) \/ SendStoreInsert(s)
          \/ RespondUpdate(s) \/ RespondFriendCheck(s) \/ RespondFriendInsert(s)
          \/ RemoveDelete(s)
          \/ BlockRemoveFriendship(s) \/ BlockCheck(s) \/ BlockInsert(s)
          \/ StatementFails(s)

Spec == Init /\ [][Next]_vars

-----------------------------------------------------------------------------
(* Properties                                                              *)

\* Types; the rate-limit list of a user holds at most the limit's timestamps,
\* since _check_rate_limit appends only below it.
TypeOK ==
    /\ requests \in Seq(Request)
    /\ friendRows \in [Pairs -> Nat]
    /\ blockRows \in [Pairs -> Nat]
    /\ clock \in 0..MaxClock
    /\ rateCache \in [Users -> Seq(0..MaxClock)]
    /\ \A u \in Users : Len(rateCache[u]) <= MaxPerHour
    /\ listCache \in [Users -> SUBSET Users \cup {NoCache}]
    /\ slot \in [Slots -> [h: Handler, pc: STRING, user: Users \cup {0},
                           peer: Users \cup {0}, req: 0..MaxRequests,
                           accept: BOOLEAN, ts: 0..MaxClock]]

\* send_friend_request refuses a second request while one from the same
\* sender to the same target is pending (the handler's get_friend_request
\* check and the store's SELECT inside create_friend_request): at no time
\* are two requests from one user to another both pending.
AtMostOnePending ==
    \A u, t \in Users :
        Cardinality({i \in DOMAIN requests :
                        Between(i, u, t) /\ requests[i].status = "pending"}) <= 1

\* create_friendship stores a pair once, in user1_id < user2_id order, and
\* skips an existing row: two users never have more than one friendship row,
\* whichever of them accepted and in whatever order requests crossed.
FriendRowUnique ==
    \A a, b \in Users : a < b => FriendRowsBetween(a, b) <= 1

\* A friendship row is only written by accepting a request
\* (respond_to_friend_request): whenever two users are friends, a request
\* between them is recorded as accepted.
FriendshipJustified ==
    \A a, b \in Users :
        FriendRowsBetween(a, b) > 0 =>
            \E i \in DOMAIN requests :
                /\ Between(i, a, b) \/ Between(i, b, a)
                /\ requests[i].status = "accepted"

\* respond_to_friend_request answers only pending requests ("Friend request
\* is no longer pending"): once accepted or rejected, a request's status
\* never changes again, and rows are never removed.
StatusFinal ==
    [][/\ Len(requests') >= Len(requests)
       /\ \A i \in DOMAIN requests :
            requests[i].status # "pending" =>
                requests'[i].status = requests[i].status]_requests

\* _check_rate_limit admits at most _max_requests_per_hour requests per
\* sender in any window: the stored requests a user created in the current
\* window never exceed the limit.
RateLimitRespected ==
    \A u \in Users :
        Cardinality({i \in DOMAIN requests :
                        /\ requests[i].sender = u
                        /\ clock - requests[i].ts < RateWindow}) <= MaxPerHour

\* block_user removes an existing friendship before recording the block
\* ("如果存在好友关系，先删除"), and a blocked user may not send requests:
\* two users with a block between them are never friends.
NoFriendshipAcrossBlock ==
    \A a, b \in Users : blockRows[<<a, b>>] > 0 => FriendRowsBetween(a, b) = 0

\* A cached get_friends_list result is the user's current friends list:
\* every change of user_friendships invalidates the entries it affects.
CacheCoherent ==
    \A u \in Users : listCache[u] # NoCache => listCache[u] = FriendsOf(u)

=============================================================================
