------------------------------- MODULE Sessions -------------------------------
(***************************************************************************)
(* AuthHandler (src/handlers/auth.py) and DeviceHandler                    *)
(* (src/handlers/device.py): user rows with a password, access tokens,     *)
(* devices, device keys and one-time keys.  Every handler call runs in a   *)
(* slot and a step is the code between two awaits.  The store methods the  *)
(* handlers await have no code under src; each is one autocommit          *)
(* statement on the table its name gives (insert, update, delete, select).*)
(* Process crashes are left out: the one run of this module is serial,    *)
(* and what a crash between two awaits does is plain from the code.       *)
(***************************************************************************)
EXTENDS Naturals, FiniteSets

CONSTANTS
    Users,        \* user ids
    Passwords,    \* passwords (their hashes compare equal iff they are equal)
    DeviceIds,    \* device ids, client-chosen or from _generate_device_id
    TokenIds,     \* access tokens _generate_access_token may return
    Slots         \* concurrent handler calls

NoUser == "nouser"

VARIABLES
    pw,           \* user -> password of its row, or NoUser
    tokens,       \* access token rows [id, user, dev, pw]; pw is the password
                  \* the login that issued the token checked (a ghost field)
    devices,      \* device rows <<user, device>>
    keys,         \* device key rows <<user, device>>
    otks,         \* <<user, device>> pairs holding an unclaimed one-time key
    usedTokens,   \* tokens already generated
    slot

vars == <<pw, tokens, devices, keys, otks, usedTokens, slot>>

Idle == [h |-> "idle", pc |-> "none", u |-> NoUser, d |-> NoUser,
         p |-> NoUser, k |-> NoUser, otk |-> FALSE]

(***************************************************************************)
(* Helpers                                                                 *)
(***************************************************************************)

\* check_user_exists: get_user_by_id finds a row.
UserExists(u) == pw[u] # NoUser

\* validate_password: the user row exists and _verify_password matches.
ValidatePassword(u, p) == UserExists(u) /\ pw[u] = p

\* _generate_access_token: 32 random bytes, never an earlier token.
FreshTokenAny(k) == TRUE
FreshToken(k) == k \notin usedTokens

\* get_device(user_id, device_id) finds a row.
DeviceExistsAnyUser(u, d) == \E v \in Users : <<v, d>> \in devices
DeviceExists(u, d) == <<u, d>> \in devices

\* invalidate_user_access_tokens(user_id) removes token t.
RevokedByNone(t, u) == FALSE
RevokedBy(t, u) == t.user = u

\* delete_access_tokens_for_device(user_id, device_id) removes token t.
OfDeviceNone(t, u, d) == FALSE
OfDevice(t, u, d) == t.user = u /\ t.dev = d

Start(s, h, pc, u, d) ==
    slot' = [slot EXCEPT ![s] = [Idle EXCEPT !.h = h, !.pc = pc, !.u = u, !.d = d]]
Dev(s) == <<slot[s].u, slot[s].d>>
GoTo(s, pc) == slot' = [slot EXCEPT ![s].pc = pc]
Finish(s) == slot' = [slot EXCEPT ![s] = Idle]
At(s, h, pc) == slot[s].h = h /\ slot[s].pc = pc

Init ==
    /\ pw = [u \in Users |-> NoUser]
    /\ tokens = {}
    /\ devices = {}
    /\ keys = {}
    /\ otks = {}
    /\ usedTokens = {}
    /\ slot = [s \in Slots |-> Idle]

(***************************************************************************)
(* AuthHandler                                                             *)
(***************************************************************************)

\* register_user: check_user_exists (get_user_by_id) finds no row; the
\* password policy passes; await create_user.
RegisterCheck(s, u, p) ==
    /\ slot[s].h = "idle"
    /\ ~UserExists(u)
    /\ slot' = [slot EXCEPT ![s] = [Idle EXCEPT !.h = "register", !.pc = "create",
                                               !.u = u, !.p = p]]
    /\ UNCHANGED <<pw, tokens, devices, keys, otks, usedTokens>>

\* create_user inserts the row; an existing row makes the insert fail and
\* register_user raise RuntimeError.
RegisterCreate(s) ==
    /\ At(s, "register", "create")
    /\ pw' = IF pw[slot[s].u] = NoUser THEN [pw EXCEPT ![slot[s].u] = slot[s].p] ELSE pw
    /\ Finish(s)
    /\ UNCHANGED <<tokens, devices, keys, otks, usedTokens>>

\* login_user: validate_password (get_user_by_id), a fresh token, the given
\* or a generated device id; await store_access_token.
LoginStart(s, u, p, d, k) ==
    /\ slot[s].h = "idle"
    /\ ValidatePassword(u, p)
    /\ FreshToken(k)
    /\ usedTokens' = usedTokens \cup {k}
    /\ slot' = [slot EXCEPT ![s] = [Idle EXCEPT !.h = "login", !.pc = "token",
                                               !.u = u, !.d = d, !.p = p, !.k = k]]
    /\ UNCHANGED <<pw, tokens, devices, keys, otks>>

\* store_access_token inserts the token; await store_device.
LoginToken(s) ==
    /\ At(s, "login", "token")
    /\ tokens' = tokens \cup {[id |-> slot[s].k, user |-> slot[s].u,
                               dev |-> slot[s].d, pw |-> slot[s].p]}
    /\ GoTo(s, "device")
    /\ UNCHANGED <<pw, devices, keys, otks, usedTokens>>

\* store_device writes the device row; the token is returned.
LoginDevice(s) ==
    /\ At(s, "login", "device")
    /\ devices' = devices \cup {<<slot[s].u, slot[s].d>>}
    /\ Finish(s)
    /\ UNCHANGED <<pw, tokens, keys, otks, usedTokens>>

\* logout_user: one await, delete_access_token.
Logout(k) ==
    /\ tokens' = {t \in tokens : t.id # k}
    /\ UNCHANGED <<pw, devices, keys, otks, usedTokens, slot>>

\* get_user_by_access_token: reads, and update_access_token_last_used,
\* whose timestamp the model does not keep.
GetUserByAccessToken(k) == UNCHANGED vars

\* change_password: validate_password with the old password, the policy
\* passes, the new hash; await update_user_password.
ChangeStart(s, u, old, new) ==
    /\ slot[s].h = "idle"
    /\ ValidatePassword(u, old)
    /\ slot' = [slot EXCEPT ![s] = [Idle EXCEPT !.h = "change", !.pc = "update",
                                               !.u = u, !.p = new]]
    /\ UNCHANGED <<pw, tokens, devices, keys, otks, usedTokens>>

\* update_user_password succeeds; await invalidate_user_access_tokens.
ChangeUpdate(s) ==
    /\ At(s, "change", "update")
    /\ pw' = [pw EXCEPT ![slot[s].u] = slot[s].p]
    /\ GoTo(s, "invalidate")
    /\ UNCHANGED <<tokens, devices, keys, otks, usedTokens>>

\* invalidate_user_access_tokens removes the user's tokens; True returned.
ChangeInvalidate(s) ==
    /\ At(s, "change", "invalidate")
    /\ tokens' = {t \in tokens : ~RevokedBy(t, slot[s].u)}
    /\ Finish(s)
    /\ UNCHANGED <<pw, devices, keys, otks, usedTokens>>

(***************************************************************************)
(* DeviceHandler                                                           *)
(***************************************************************************)

\* register_device: await get_device.
DeviceRegisterCheck(s, u, d) ==
    /\ slot[s].h = "idle"
    /\ Start(s, "regdevice", IF DeviceExists(u, d) THEN "update" ELSE "create", u, d)
    /\ UNCHANGED <<pw, tokens, devices, keys, otks, usedTokens>>

\* update_device of the row found (a no-op if it was deleted meanwhile), or
\* create_device; the device is returned.
DeviceRegisterWrite(s) ==
    /\ slot[s].h = "regdevice"
    /\ devices' = IF slot[s].pc = "create" THEN devices \cup {Dev(s)} ELSE devices
    /\ Finish(s)
    /\ UNCHANGED <<pw, tokens, keys, otks, usedTokens>>

\* delete_device: get_device finds the row (else ValueError);
\* await delete_access_tokens_for_device.
DeleteCheck(s, u, d) ==
    /\ slot[s].h = "idle"
    /\ DeviceExists(u, d)
    /\ Start(s, "delete", "tokens", u, d)
    /\ UNCHANGED <<pw, tokens, devices, keys, otks, usedTokens>>

DeleteTokens(s) ==
    /\ At(s, "delete", "tokens")
    /\ tokens' = {t \in tokens : ~OfDevice(t, slot[s].u, slot[s].d)}
    /\ GoTo(s, "keys")
    /\ UNCHANGED <<pw, devices, keys, otks, usedTokens>>

\* delete_device_keys: the device's keys and one-time keys.
DeleteKeys(s) ==
    /\ At(s, "delete", "keys")
    /\ keys' = keys \ {Dev(s)}
    /\ otks' = otks \ {Dev(s)}
    /\ GoTo(s, "device")
    /\ UNCHANGED <<pw, tokens, devices, usedTokens>>

\* delete_device removes the row; True returned.
DeleteDevice(s) ==
    /\ At(s, "delete", "device")
    /\ devices' = devices \ {Dev(s)}
    /\ Finish(s)
    /\ UNCHANGED <<pw, tokens, keys, otks, usedTokens>>

\* upload_device_keys: get_device finds the row (else ValueError), the
\* keys pass _validate_device_keys; await store_device_keys.
UploadCheck(s, u, d, otk) ==
    /\ slot[s].h = "idle"
    /\ DeviceExists(u, d)
    /\ slot' = [slot EXCEPT ![s] = [Idle EXCEPT !.h = "upload", !.pc = "keys",
                                               !.u = u, !.d = d, !.otk = otk]]
    /\ UNCHANGED <<pw, tokens, devices, keys, otks, usedTokens>>

\* store_device_keys; then store_one_time_keys when the upload has some.
UploadKeys(s) ==
    /\ At(s, "upload", "keys")
    /\ keys' = keys \cup {Dev(s)}
    /\ IF slot[s].otk THEN GoTo(s, "otks") ELSE Finish(s)
    /\ UNCHANGED <<pw, tokens, devices, otks, usedTokens>>

UploadOtks(s) ==
    /\ At(s, "upload", "otks")
    /\ otks' = otks \cup {Dev(s)}
    /\ Finish(s)
    /\ UNCHANGED <<pw, tokens, devices, keys, usedTokens>>

\* claim_one_time_keys for one device: one await, claim_one_time_key,
\* which takes the key (the claim is a single statement).
ClaimKey(u, d) ==
    /\ otks' = otks \ {<<u, d>>}
    /\ UNCHANGED <<pw, tokens, devices, keys, usedTokens, slot>>

\* update_device: get_device, then update_device of the display name, which
\* the model does not keep; get_device_keys: reads only.
UpdateDevice(u, d) == UNCHANGED vars
GetDeviceKeys(u) == UNCHANGED vars

(***************************************************************************)
(* The client API (src/api/auth.py, src/api/device.py).  A handler first   *)
(* resolves the access token with get_user_by_access_token; a valid token  *)
(* names the user u, an invalid one is a 401 that changes nothing.         *)
(***************************************************************************)

\* handle_register calls register_user(username=..., password=...), a
\* keyword register_user does not take: TypeError before any await, 500.
ApiRegister(u) == UNCHANGED vars

\* handle_login and handle_delete_device (which asks for a password first)
\* call auth_handler.validate_login, which AuthHandler does not define:
\* AttributeError before login_user or delete_device is reached, 500.
ApiLogin(u) == UNCHANGED vars
ApiDeleteDevice(u, d) == UNCHANGED vars

\* handle_logout: AuthHandler has no delete_access_token; AttributeError
\* after the token lookup, 500, and the token stays valid.
ApiLogout(k) == UNCHANGED vars

\* handle_change_password calls change_password without old_password:
\* TypeError, 500, the password and the tokens stay.
ApiChangePassword(u) == UNCHANGED vars

\* handle_logout_all awaits delete_all_access_tokens, which AuthHandler
\* does not define: 500, every token stays valid.
ApiLogoutAll == UNCHANGED vars

\* handle_delete_devices answers 401 without auth data and otherwise
\* awaits the missing validate_login (500): delete_devices is never reached.
ApiDeleteDevices == UNCHANGED vars

\* handle_upload_keys takes device_id from get_user_by_access_token, which
\* returns the users row: it has no device_id, so the answer is 400.
ApiUploadKeys == UNCHANGED vars

\* Reads: handle_whoami; handle_login_flows and handle_register_available
\* (check_user_exists); handle_get_devices and handle_get_device;
\* handle_query_keys (get_device_keys); handle_key_changes.
ApiWhoami == UNCHANGED vars
ApiAuthReads == UNCHANGED vars
ApiDeviceReads == UNCHANGED vars
ApiKeyReads == UNCHANGED vars
ApiKeyChanges == UNCHANGED vars

\* Every API call that ends before the handler writes anything.
ApiNoWrite ==
    \/ ApiLogoutAll \/ ApiDeleteDevices \/ ApiUploadKeys
    \/ ApiWhoami \/ ApiAuthReads \/ ApiDeviceReads \/ ApiKeyReads \/ ApiKeyChanges

\* handle_claim_keys: claim_one_time_keys for the requested device.
ApiClaimKeys(u, d) == ClaimKey(u, d)

\* handle_update_device: update_device of the display name.
ApiUpdateDevice(u, d) == UpdateDevice(u, d)

Next ==
    \/ \E s \in Slots :
        \/ \E u \in Users, p \in Passwords : RegisterCheck(s, u, p)
        \/ \E u \in Users, p \in Passwords, d \in DeviceIds, k \in TokenIds :
               LoginStart(s, u, p, d, k)
        \/ \E u \in Users, old, new \in Passwords : ChangeStart(s, u, old, new)
        \/ \E u \in Users, d \in DeviceIds :
               \/ DeviceRegisterCheck(s, u, d) \/ DeleteCheck(s, u, d)
               \/ \E otk \in BOOLEAN : UploadCheck(s, u, d, otk)
        \/ RegisterCreate(s) \/ LoginToken(s) \/ LoginDevice(s)
        \/ ChangeUpdate(s) \/ ChangeInvalidate(s) \/ DeviceRegisterWrite(s)
        \/ DeleteTokens(s) \/ DeleteKeys(s) \/ DeleteDevice(s)
        \/ UploadKeys(s) \/ UploadOtks(s)
    \/ \E k \in TokenIds : Logout(k) \/ GetUserByAccessToken(k) \/ ApiLogout(k)
    \/ \E u \in Users, d \in DeviceIds : ApiClaimKeys(u, d) \/ ApiUpdateDevice(u, d)
                                        \/ ApiDeleteDevice(u, d)
    \/ \E u \in Users : GetDeviceKeys(u) \/ ApiRegister(u) \/ ApiChangePassword(u)
                      \/ ApiLogin(u)
    \/ ApiNoWrite

Spec == Init /\ [][Next]_vars

(***************************************************************************)
(* Properties                                                              *)
(***************************************************************************)

InFlight(h) == \E s \in Slots : slot[s].h = h

\* Token rows form a function of the token: no two rows share a token.
TypeOK ==
    /\ pw \in [Users -> Passwords \cup {NoUser}]
    /\ tokens \subseteq [id : TokenIds, user : Users, dev : DeviceIds, pw : Passwords]
    /\ \A t1, t2 \in tokens : t1.id = t2.id => t1 = t2
    /\ devices \cup keys \cup otks \subseteq Users \X DeviceIds

\* Once change_password has returned, no access token issued under the old
\* password is still valid: every token was issued by a login that checked
\* the user's current password.
TokensPostdatePassword ==
    ~InFlight("change") =>
        \A t \in tokens : t.pw = pw[t.user]

\* Whenever no login_user call is between its two stores, every access
\* token belongs to an existing device: delete_device removes the device's
\* tokens before the device.
TokenHasDevice ==
    ~InFlight("login") =>
        \A t \in tokens : <<t.user, t.dev>> \in devices

\* Device keys and one-time keys exist only for existing devices:
\* upload_device_keys checks the device and delete_device removes the keys
\* before the device, so nobody can claim a key of a deleted device.
KeysHaveDevice == keys \cup otks \subseteq devices
==============================================================================
