------------------------------- MODULE RoomLog -------------------------------
(***************************************************************************)
(* What the room and message handlers promise of the store, as one atomic  *)
(* step per change: the events of all rooms form an append-only log; a     *)
(* room's row (join rule and creator) is written once; an event is marked  *)
(* redacted only after a redaction of it is in the log; a client txn_id is *)
(* bound once, to a message of that sender, room and txn_id.  Rooms        *)
(* implements this specification under the identity mapping of its store  *)
(* variables, the slots of the calls in flight being hidden.               *)
(***************************************************************************)
EXTENDS Naturals, Sequences

CONSTANTS RoomIds, Users, TxnKeys

VARIABLES log, marks, txns, rule, creator

absVars == <<log, marks, txns, rule, creator>>

Init ==
    /\ log = <<>>
    /\ marks = {}
    /\ txns = [k \in TxnKeys |-> 0]
    /\ rule = [r \in RoomIds |-> "none"]
    /\ creator = [r \in RoomIds |-> 0]

\* A room gets its row once.
Open(r, u, jr) ==
    /\ rule[r] = "none"
    /\ rule' = [rule EXCEPT ![r] = jr]
    /\ creator' = [creator EXCEPT ![r] = u]
    /\ UNCHANGED <<log, marks, txns>>

\* One event is appended; nothing stored before it changes.
Add ==
    /\ Len(log') = Len(log) + 1
    /\ SubSeq(log', 1, Len(log)) = log
    /\ UNCHANGED <<marks, txns, rule, creator>>

\* Event i is marked redacted once a redaction pointing at it is logged.
Mark(i) ==
    /\ \E j \in DOMAIN log : log[j].type = "redaction" /\ log[j].rel = i
    /\ marks' = marks \cup {i}
    /\ UNCHANGED <<log, txns, rule, creator>>

\* An unbound txn_id key is bound to a logged message carrying that key.
Bind(k, i) ==
    /\ txns[k] = 0
    /\ i \in DOMAIN log
    /\ log[i].type = "message"
    /\ <<log[i].sender, log[i].room, log[i].txn>> = k
    /\ txns' = [txns EXCEPT ![k] = i]
    /\ UNCHANGED <<log, marks, rule, creator>>

Next ==
    \/ \E r \in RoomIds, u \in Users, jr \in {"invite", "public"} : Open(r, u, jr)
    \/ Add
    \/ \E i \in DOMAIN log : Mark(i)
    \/ \E k \in TxnKeys, i \in DOMAIN log : Bind(k, i)

Spec == Init /\ [][Next]_absVars
==============================================================================
