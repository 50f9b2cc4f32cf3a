------------------------------ MODULE MediaStore ------------------------------
(***************************************************************************)
(* What the media repository promises its callers, with no files, rows or  *)
(* awaits: each media id is handed out once, gets one body, keeps it until *)
(* it is deleted, and a download returns the body it holds at that moment, *)
(* or 404 (a download that races an upload or a delete may miss).          *)
(***************************************************************************)
CONSTANTS MediaIds, Contents, NotFound

Unused == "unused"
Reserved == "reserved"
Deleted == "deleted"

VARIABLES media, served

vars == <<media, served>>

Init ==
    /\ media = [m \in MediaIds |-> Unused]
    /\ served = {}

\* An id is drawn for an upload; no body is visible yet.
Reserve(m) ==
    /\ media[m] = Unused
    /\ media' = [media EXCEPT ![m] = Reserved]
    /\ UNCHANGED served

\* The body becomes visible under its id, once.
Put(m, c) ==
    /\ media[m] = Reserved
    /\ media' = [media EXCEPT ![m] = c]
    /\ UNCHANGED served

\* The body goes away for good.
Delete(m) ==
    /\ media[m] \in Contents
    /\ media' = [media EXCEPT ![m] = Deleted]
    /\ UNCHANGED served

\* A download answers with the current body, or 404.
Download(m) ==
    /\ \E r \in ({media[m]} \cap Contents) \cup {NotFound} :
           served' = served \cup {<<m, r>>}
    /\ UNCHANGED media

Next ==
    \E m \in MediaIds :
        \/ Reserve(m) \/ Delete(m) \/ Download(m)
        \/ \E c \in Contents : Put(m, c)

Spec == Init /\ [][Next]_vars
==============================================================================
