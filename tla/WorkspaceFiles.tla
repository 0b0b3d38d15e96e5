--------------------------- MODULE WorkspaceFiles ---------------------------
(***************************************************************************)
(* One folder, its files and their trash: the handlers of routes/files.ts, *)
(* routes/folders.ts and routes/permissions.ts over the folders, files and *)
(* folder_permissions tables, and the rooms that the WebSocket layer opens *)
(* on the files.  A handler is split at its statements, so requests of     *)
(* several persons interleave.  Listing and renaming change nothing here.  *)
(***************************************************************************)
EXTENDS Naturals, FiniteSets

CONSTANTS Person,    \* users, each with one request at a time
          Doc        \* file ids

VARIABLES folderHere,  \* the folder's row exists
          roleOf,      \* folder_permissions: person -> role, "none" without a row
          file,        \* file -> "absent", "here", "trashed", or without a row
                       \* again: "purged" by itself, "gone" with its folder
          inRoom,      \* file -> the persons connected to its room
          ask,         \* person -> the request under way
          unseen       \* history: files that the closing of rooms could not see

fileVars == <<folderHere, roleOf, file, inRoom, ask, unseen>>

FileOp == {"trash", "restore", "purge", "join"}
FolderOp == {"create", "share", "drop"}
NoAsk == [op |-> "none", doc |-> {}, stage |-> "none", listed |-> {}]

Stage(p, reached) == ask[p].stage = reached
Turn(p, next) == ask' = [ask EXCEPT ![p].stage = next]
Answered(p) == ask' = [ask EXCEPT ![p] = NoAsk]

\* A file handler ends with the file it was asked for.
Allowed(p, op) == Stage(p, "allowed") /\ ask[p].op = op

FilesInit ==
  /\ folderHere = TRUE
  /\ \E owner \in Person :
       roleOf \in {r \in [Person -> {"owner", "editor", "viewer", "none"}] :
                   \A p \in Person : r[p] = "owner" <=> p = owner}
  /\ file \in [Doc -> {"absent", "here"}]
  /\ inRoom = [d \in Doc |-> {}]
  /\ ask = [p \in Person |-> NoAsk]
  /\ unseen = {}

-----------------------------------------------------------------------------
\* A request, or the auth message of a WebSocket, reaches the server.
Ask(p) ==
  /\ Stage(p, "none")
  /\ \/ \E op \in FileOp, d \in Doc :
          ask' = [ask EXCEPT ![p] = [NoAsk EXCEPT !.op = op, !.doc = {d}, !.stage = "asked"]]
     \/ \E op \in FolderOp :
          ask' = [ask EXCEPT ![p] = [NoAsk EXCEPT !.op = op, !.stage = "found"]]
  /\ UNCHANGED <<folderHere, roleOf, file, inRoom, unseen>>

\* getFolderIdForFile(): a file in the trash has no folder.
FindFolder(p) ==
  /\ Stage(p, "asked")
  /\ Turn(p, IF \E d \in ask[p].doc : file[d] = "here" THEN "found" ELSE "refused")
  /\ UNCHANGED <<folderHere, roleOf, file, inRoom, unseen>>

Entitled(op) ==
  CASE op \in {"purge", "share", "drop"} -> {"owner"}
    [] op \in {"trash", "restore", "create"} -> {"owner", "editor"}
    [] op = "join" -> {"owner", "editor", "viewer"}

\* getRole() and its comparison in canRead(), canWrite() and isOwner().
CheckRole(p) ==
  /\ Stage(p, "found")
  /\ Turn(p, IF roleOf[p] \in Entitled(ask[p].op) THEN "allowed" ELSE "refused")
  /\ UNCHANGED <<folderHere, roleOf, file, inRoom, unseen>>

\* 404, or auth_error and a close.
Refusal(p) ==
  /\ Stage(p, "refused") /\ Answered(p)
  /\ UNCHANGED <<folderHere, roleOf, file, inRoom, unseen>>

\* softDelete(); the room stays open.
Trash(p) ==
  /\ Allowed(p, "trash") /\ Answered(p)
  /\ file' = [d \in Doc |-> IF d \in ask[p].doc /\ file[d] = "here" THEN "trashed" ELSE file[d]]
  /\ UNCHANGED <<folderHere, roleOf, inRoom, unseen>>

\* restore()
Restore(p) ==
  /\ Allowed(p, "restore") /\ Answered(p)
  /\ file' = [d \in Doc |-> IF d \in ask[p].doc /\ file[d] = "trashed" THEN "here" ELSE file[d]]
  /\ UNCHANGED <<folderHere, roleOf, inRoom, unseen>>

\* permanentDelete(); the room stays open here too.
Purge(p) ==
  /\ Allowed(p, "purge") /\ Answered(p)
  /\ file' = [d \in Doc |-> IF d \in ask[p].doc /\ file[d] \in {"here", "trashed"}
                            THEN "purged" ELSE file[d]]
  /\ UNCHANGED <<folderHere, roleOf, inRoom, unseen>>

\* create(): without its folder the INSERT violates a foreign key.
Create(p) ==
  /\ Allowed(p, "create") /\ Answered(p)
  /\ \/ /\ folderHere
        /\ \E d \in Doc : /\ file[d] = "absent"
                          /\ file' = [file EXCEPT ![d] = "here"]
                          /\ unseen' = IF \E q \in Person : Stage(q, "listed")
                                     THEN unseen \cup {d} ELSE unseen
     \/ ~folderHere /\ UNCHANGED <<file, unseen>>
  /\ UNCHANGED <<folderHere, roleOf, inRoom>>

\* grantRole(), revokeRole(): never one's own role.
Share(p) ==
  /\ Allowed(p, "share") /\ Answered(p)
  /\ \E q \in Person \ {p}, r \in {"editor", "viewer", "none"} :
       roleOf' = IF folderHere THEN [roleOf EXCEPT ![q] = r] ELSE roleOf
  /\ UNCHANGED <<folderHere, file, inRoom, unseen>>

\* The room is loaded and joined, whatever has become of the file since.
JoinFile(p) ==
  /\ Allowed(p, "join") /\ Answered(p)
  /\ inRoom' = [d \in Doc |-> IF d \in ask[p].doc THEN inRoom[d] \cup {p} ELSE inRoom[d]]
  /\ unseen' = unseen \cup {d \in ask[p].doc : file[d] = "gone"}
  /\ UNCHANGED <<folderHere, roleOf, file>>

LeaveFile(p, d) ==
  /\ p \in inRoom[d]
  /\ inRoom' = [inRoom EXCEPT ![d] = @ \ {p}]
  /\ UNCHANGED <<folderHere, roleOf, file, ask, unseen>>

-----------------------------------------------------------------------------
(* DELETE /api/folders/:folderId *)

\* SELECT id FROM files: the files in the trash too.
FilesOfFolder == {d \in Doc : file[d] \in {"here", "trashed"}}

ListFiles(p) ==
  /\ Allowed(p, "drop")
  /\ ask' = [ask EXCEPT ![p].stage = "listed", ![p].listed = FilesOfFolder]
  /\ UNCHANGED <<folderHere, roleOf, file, inRoom, unseen>>

\* remove(): the row goes, and with it files and permissions.
RemoveFolder(p) ==
  /\ Stage(p, "listed")
  /\ folderHere' = FALSE
  /\ roleOf' = [q \in Person |-> "none"]
  /\ file' = [d \in Doc |-> IF file[d] \in {"here", "trashed"} THEN "gone" ELSE file[d]]
  /\ Turn(p, "removed")
  /\ UNCHANGED <<inRoom, unseen>>

\* Fault: the files are listed when the folder is gone.
CloseListedLate(p) ==
  /\ Stage(p, "removed") /\ Answered(p)
  /\ inRoom' = [d \in Doc |-> IF d \in FilesOfFolder THEN {} ELSE inRoom[d]]
  /\ UNCHANGED <<folderHere, roleOf, file, unseen>>

\* The activity is logged, and closeRoomsForFolder() closes the listed rooms.
CloseRooms(p) ==
  /\ Stage(p, "removed") /\ Answered(p)
  /\ inRoom' = [d \in Doc |-> IF d \in ask[p].listed THEN {} ELSE inRoom[d]]
  /\ UNCHANGED <<folderHere, roleOf, file, unseen>>

\* The activity cannot be logged: a 500, and the rooms are not closed.
LogFails(p) ==
  /\ Stage(p, "removed") /\ Answered(p)
  /\ unseen' = unseen \cup ask[p].listed
  /\ UNCHANGED <<folderHere, roleOf, file, inRoom>>

FilesNext ==
  \E p \in Person :
    \/ Ask(p) \/ FindFolder(p) \/ CheckRole(p) \/ Refusal(p)
    \/ Trash(p) \/ Restore(p) \/ Purge(p) \/ Create(p) \/ Share(p) \/ JoinFile(p)
    \/ \E d \in Doc : LeaveFile(p, d)
    \/ ListFiles(p) \/ RemoveFolder(p) \/ CloseRooms(p) \/ LogFails(p)

FilesSpec == FilesInit /\ [][FilesNext]_fileVars

-----------------------------------------------------------------------------
\* Types.
Asks == [op : FileOp \cup FolderOp \cup {"none"}, doc : SUBSET Doc, listed : SUBSET Doc,
         stage : {"none", "asked", "found", "refused", "allowed", "listed", "removed"}]

FilesTypeOK ==
  /\ folderHere \in BOOLEAN
  /\ roleOf \in [Person -> {"owner", "editor", "viewer", "none"}]
  /\ file \in [Doc -> {"absent", "here", "trashed", "purged", "gone"}]
  /\ inRoom \in [Doc -> SUBSET Person]
  /\ ask \in [Person -> Asks]
  /\ unseen \subseteq Doc

\* Nobody keeps editing a file that went with its folder: once the deletion is
\* over its room is empty, whether the file was in the trash or not, unless it
\* was created between the list and the delete, somebody was on the way in when
\* the rooms were closed, or the deletion failed half-way.
RoomsOfFolderClosed ==
  \A d \in Doc : file[d] = "gone" /\ inRoom[d] # {} =>
    d \in unseen \/ \E p \in Person : Stage(p, "removed")

\* "Restore from trash": a writer who asks for a file in the trash gets it back.
RestoreServed ==
  [][\A p \in Person :
       ask[p].op = "restore" /\ roleOf[p] \in Entitled("restore")
                             /\ (\E d \in ask[p].doc : file[d] = "trashed")
         => ask'[p].stage # "refused"]_fileVars
=============================================================================
