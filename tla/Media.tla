-------------------------------- MODULE Media --------------------------------
(***************************************************************************)
(* MediaHandler (src/handlers/media.py): local media kept as a file under  *)
(* media_store_path plus a row in the media table.  upload_media writes    *)
(* the file synchronously and then awaits store_local_media; delete_media  *)
(* removes the file synchronously and then awaits delete_local_media.      *)
(* Every handler call runs in a slot; a step is the code between two       *)
(* awaits.  A crash loses every in-flight call and keeps the disk and the  *)
(* database.  A crash can also strike inside the synchronous write of      *)
(* upload_media, which leaves a truncated file.                            *)
(*                                                                         *)
(* Thumbnails are never written: _generate_single_thumbnail returns None,  *)
(* so no thumbnail file ever exists and their removal in delete_media is   *)
(* a no-op.  No remote media is ever cached, so only local media is kept.  *)
(***************************************************************************)
EXTENDS Naturals, FiniteSets

CONSTANTS
    MediaIds,     \* ids secrets.token_urlsafe(24) may return
    Contents,     \* upload bodies, all within max_upload_size
    Slots,        \* concurrent handler calls
    MaxCrashes    \* bound on process crashes

\* A file cut short by a crash inside f.write, and the absence of a file/row.
Partial == "partial"
NoFile == "nofile"
NoRow == "norow"
NotFound == "notfound"

VARIABLES
    files,     \* media id -> content of the file at _get_media_path
    rows,      \* media id -> content_hash column of its media row
    usedIds,   \* ids already handed out by _generate_media_id
    uploads,   \* <<id, content>> of every upload_media call that wrote
    acked,     \* <<id, content>> of every upload_media call that returned
    deleted,   \* ids for which delete_media was called
    served,    \* <<id, result>> of every finished _download_local_media
    crashes,
    slot

vars == <<files, rows, usedIds, uploads, acked, deleted, served, crashes, slot>>

Idle == [h |-> "idle", pc |-> "none", m |-> NoFile, c |-> NoFile, row |-> NoRow]

(***************************************************************************)
(* Helpers                                                                 *)
(***************************************************************************)

\* _generate_media_id: 24 random bytes, never a repeat of an earlier id.
FreshIdByRow(m) == rows[m] = NoRow
FreshId(m) == m \notin usedIds

\* _download_local_media: "if not media_info: raise FileNotFoundError".
ServableAnyRow(row) == TRUE
Servable(row) == row # NoRow

\* _download_local_media, after the row is read: the file at file_path (or
\* at the rebuilt path, the same path here), else FileNotFoundError.
ReadResultNoExistsCheck(m, row) ==
    IF Servable(row) THEN files[m] ELSE NotFound
ReadResult(m, row) ==
    IF Servable(row) /\ files[m] # NoFile THEN files[m] ELSE NotFound

\* A caller learns a media id only from a returned content_uri.
KnownIds == {p[1] : p \in acked}

(***************************************************************************)
(* State machine                                                           *)
(***************************************************************************)

Init ==
    /\ files = [m \in MediaIds |-> NoFile]
    /\ rows = [m \in MediaIds |-> NoRow]
    /\ usedIds = {}
    /\ uploads = {}
    /\ acked = {}
    /\ deleted = {}
    /\ served = {}
    /\ crashes = 0
    /\ slot = [s \in Slots |-> Idle]

\* upload_media up to its first await: size check, media id, file written.
UploadStart(s, m, c) ==
    /\ slot[s].h = "idle"
    /\ FreshId(m)
    /\ files' = [files EXCEPT ![m] = c]
    /\ usedIds' = usedIds \cup {m}
    /\ uploads' = uploads \cup {<<m, c>>}
    /\ slot' = [slot EXCEPT ![s] = [Idle EXCEPT !.h = "upload", !.pc = "store",
                                               !.m = m, !.c = c]]
    /\ UNCHANGED <<rows, acked, deleted, served, crashes>>

\* await self.store.store_local_media(...): the row is inserted.
UploadStore(s) ==
    /\ slot[s].h = "upload" /\ slot[s].pc = "store"
    /\ rows' = [rows EXCEPT ![slot[s].m] = slot[s].c]
    /\ slot' = [slot EXCEPT ![s].pc = "return"]
    /\ UNCHANGED <<files, usedIds, uploads, acked, deleted, served, crashes>>

\* The coroutine resumes: _generate_thumbnails writes nothing (no
\* thumbnail content), and the content_uri is returned.
UploadReturn(s) ==
    /\ slot[s].h = "upload" /\ slot[s].pc = "return"
    /\ acked' = acked \cup {<<slot[s].m, slot[s].c>>}
    /\ slot' = [slot EXCEPT ![s] = Idle]
    /\ UNCHANGED <<files, rows, usedIds, uploads, deleted, served, crashes>>

\* download_media for a local id: await self.store.get_local_media(media_id).
DownloadStart(s, m) ==
    /\ slot[s].h = "idle"
    /\ slot' = [slot EXCEPT ![s] = [Idle EXCEPT !.h = "download", !.pc = "read",
                                               !.m = m, !.row = rows[m]]]
    /\ UNCHANGED <<files, rows, usedIds, uploads, acked, deleted, served, crashes>>

\* The coroutine resumes: row check, os.path.exists, file read, result.
DownloadRead(s) ==
    /\ slot[s].h = "download" /\ slot[s].pc = "read"
    /\ served' = served \cup {<<slot[s].m, ReadResult(slot[s].m, slot[s].row)>>}
    /\ slot' = [slot EXCEPT ![s] = Idle]
    /\ UNCHANGED <<files, rows, usedIds, uploads, acked, deleted, crashes>>

\* delete_media up to its await: os.remove of the file when it exists and
\* the (absent) thumbnails.
DeleteStart(s, m) ==
    /\ slot[s].h = "idle"
    /\ m \in KnownIds
    /\ files' = [files EXCEPT ![m] = NoFile]
    /\ deleted' = deleted \cup {m}
    /\ slot' = [slot EXCEPT ![s] = [Idle EXCEPT !.h = "delete", !.pc = "row", !.m = m]]
    /\ UNCHANGED <<rows, usedIds, uploads, acked, served, crashes>>

\* await self.store.delete_local_media(media_id); return True.
DeleteRow(s) ==
    /\ slot[s].h = "delete" /\ slot[s].pc = "row"
    /\ rows' = [rows EXCEPT ![slot[s].m] = NoRow]
    /\ slot' = [slot EXCEPT ![s] = Idle]
    /\ UNCHANGED <<files, usedIds, uploads, acked, deleted, served, crashes>>

\* get_media_info: one read of the row; it changes nothing.
GetMediaInfo(m) == UNCHANGED vars

\* get_thumbnail: the thumbnail file never exists and
\* _generate_single_thumbnail returns None, so it always raises
\* FileNotFoundError after reading the row; it changes nothing.
GetThumbnail(m) == UNCHANGED vars

\* The process dies: every in-flight call is lost, disk and rows persist.
Crash ==
    /\ crashes < MaxCrashes
    /\ crashes' = crashes + 1
    /\ slot' = [s \in Slots |-> Idle]
    /\ UNCHANGED <<files, rows, usedIds, uploads, acked, deleted, served>>

\* The process dies inside the synchronous f.write of an upload_media call
\* that had got its media id: the file is left truncated.
CrashInWrite(m) ==
    /\ crashes < MaxCrashes
    /\ FreshId(m)
    /\ \E s \in Slots : slot[s].h = "idle"
    /\ files' = [files EXCEPT ![m] = Partial]
    /\ usedIds' = usedIds \cup {m}
    /\ crashes' = crashes + 1
    /\ slot' = [s \in Slots |-> Idle]
    /\ UNCHANGED <<rows, uploads, acked, deleted, served>>

(***************************************************************************)
(* The client API (src/api/media.py).  An invalid access token is a 401    *)
(* that changes nothing; a valid one reaches the handler.                  *)
(***************************************************************************)

\* handle_upload_media: upload_media(content, content_type, filename,
\* user_id), answered with its content_uri.
ApiUploadMedia(s, m, c) == UploadStart(s, m, c)

\* handle_download_media: download_media(server_name, media_id).
ApiDownloadMedia(s, m) == DownloadStart(s, m)

\* handle_get_thumbnail and handle_get_media_info: the handler's reads.
ApiGetThumbnail(m) == GetThumbnail(m)
ApiGetMediaInfo(m) == GetMediaInfo(m)

\* handle_get_url_preview and handle_get_config answer from constants.
ApiPreviewConfig == UNCHANGED vars

\* handle_delete_media and handle_quarantine_media await
\* auth_handler.is_server_admin, which AuthHandler does not have: the
\* AttributeError is answered 500 before delete_media is reached.
ApiDeleteMedia(m) == UNCHANGED vars
ApiQuarantineMedia(m) == UNCHANGED vars

Next ==
    \/ \E s \in Slots :
        \/ \E m \in MediaIds, c \in Contents : ApiUploadMedia(s, m, c)
        \/ UploadStore(s) \/ UploadReturn(s)
        \/ \E m \in MediaIds : ApiDownloadMedia(s, m) \/ DeleteStart(s, m)
        \/ DownloadRead(s) \/ DeleteRow(s)
    \/ \E m \in MediaIds :
        \/ ApiGetMediaInfo(m) \/ ApiGetThumbnail(m)
        \/ ApiDeleteMedia(m) \/ ApiQuarantineMedia(m)
        \/ CrashInWrite(m)
    \/ ApiPreviewConfig
    \/ Crash

Spec == Init /\ [][Next]_vars

(***************************************************************************)
(* Properties                                                              *)
(***************************************************************************)

FileValues == Contents \cup {Partial, NoFile}

TypeOK ==
    /\ files \in [MediaIds -> FileValues]
    /\ rows \in [MediaIds -> Contents \cup {NoRow}]
    /\ usedIds \subseteq MediaIds
    /\ served \subseteq MediaIds \X (Contents \cup {Partial, NotFound})
    /\ crashes \in 0..MaxCrashes
    /\ \A s \in Slots : slot[s].h \in {"idle", "upload", "download", "delete"}

\* Once upload_media has returned a content_uri, the media keeps its row and
\* its file with the uploaded body until delete_media is called for it,
\* whatever other uploads, downloads and crashes happen meanwhile.
AckedAvailable ==
    \A p \in acked : p[1] \notin deleted =>
        /\ rows[p[1]] = p[2]
        /\ files[p[1]] = p[2]

\* The state of each id as MediaStore sees it: a body is visible once its
\* row is stored and until delete_media removes its file.
AbstractMedia ==
    [m \in MediaIds |->
        IF m \in deleted THEN "deleted"
        ELSE IF rows[m] # NoRow /\ files[m] # NoFile THEN rows[m]
        ELSE IF m \in usedIds THEN "reserved"
        ELSE "unused"]

Store == INSTANCE MediaStore WITH media <- AbstractMedia

\* upload_media, delete_media and _download_local_media, interleaved and
\* interrupted by crashes, implement the atomic media store: every id gets
\* one body, keeps it until deleted, and a download returns the current body
\* or 404.
StoreRefinement == Store!Spec

\* Whenever no delete_media call is in flight, every media row has its file:
\* get_media_info never reports a media that download_media cannot serve.
RecordHasFile ==
    (\A s \in Slots : slot[s].h # "delete") =>
        \A m \in MediaIds : rows[m] # NoRow => files[m] # NoFile
==============================================================================
