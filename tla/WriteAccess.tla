---------------------------- MODULE WriteAccess ----------------------------
(***************************************************************************)
(* The right of one user to write, as the sockets of a node remember it:   *)
(* the role read at authentication, the write block that a revocation puts *)
(* on every socket of the user at once, and its undo for the files of other*)
(* folders.  There is one file per folder.  The hook runs in the node that *)
(* served the request; other nodes keep what they read.                    *)
(***************************************************************************)
EXTENDS Naturals, FiniteSets

CONSTANTS
  Link,       \* the user's sockets
  Folder,     \* the folders; a socket has the file of one of them open
  MaxChanges  \* bound on the changes of permissions

VARIABLES
  folderOf,   \* the folder of the file a socket is for
  dbRole,     \* folder_permissions
  linkAt,     \* how far a socket is
  readRole,   \* what getRoleForFile() returned to handleAuthMessage()
  role,       \* conn.role
  revoked,    \* revokedConnections
  hooks,      \* committed changes whose hook has not run yet
  checks,     \* the closures of disconnectUserFromFolder() under way
  changes,    \* how many changes there were
  missed,     \* history: sockets that a hook found before conn.userId was set
  doubled     \* history: sockets on which two of those closures overlapped

accessVars == <<folderOf, dbRole, linkAt, readRole, role, revoked, hooks, checks,
                changes, missed, doubled>>

Role == {"editor", "viewer", "none"}
Live(c) == linkAt[c] \in {"open", "closing"}

AccessInit ==
  /\ folderOf \in [Link -> Folder]
  /\ dbRole = [f \in Folder |-> "editor"]
  /\ linkAt = [c \in Link |-> "new"]
  /\ readRole = [c \in Link |-> "none"] /\ role = [c \in Link |-> "none"]
  /\ revoked = {} /\ hooks = {} /\ checks = {} /\ changes = 0
  /\ missed = {} /\ doubled = {}

---------------------------------------------------------------------------
ReadRole(c) ==
  /\ linkAt[c] = "new" /\ dbRole[folderOf[c]] # "none"
  /\ linkAt' = [linkAt EXCEPT ![c] = "reading"]
  /\ readRole' = [readRole EXCEPT ![c] = dbRole[folderOf[c]]]
  /\ UNCHANGED <<folderOf, dbRole, role, revoked, hooks, checks, changes, missed, doubled>>

OpenLink(c) ==
  /\ linkAt[c] = "reading"
  /\ linkAt' = [linkAt EXCEPT ![c] = "open"]
  /\ role' = [role EXCEPT ![c] = readRole[c]]
  /\ UNCHANGED <<folderOf, dbRole, readRole, revoked, hooks, checks, changes, missed, doubled>>

\* grantRole() and revokeRole(): the statement commits; only a revocation and a
\* downgrade to viewer call the hook, in a later turn.
ChangeRole(f, r) ==
  /\ changes < MaxChanges /\ changes' = changes + 1
  /\ dbRole' = [dbRole EXCEPT ![f] = r]
  /\ hooks' = IF r = "editor" THEN hooks ELSE hooks \cup {[id |-> changes', folder |-> f]}
  /\ UNCHANGED <<folderOf, linkAt, readRole, role, revoked, checks, missed, doubled>>

\* disconnectUserFromFolder() up to its first await.
DisconnectUserFromFolder(h) ==
  /\ h \in hooks /\ hooks' = hooks \ {h}
  /\ LET open == {c \in Link : Live(c)}
     IN  /\ role' = [c \in Link |-> IF c \in open THEN "viewer" ELSE role[c]]
         /\ revoked' = revoked \cup open
         /\ checks' = checks \cup {[id |-> h.id, folder |-> h.folder, link |-> c,
                                    at |-> "confirming", got |-> "none"] : c \in open}
         /\ doubled' = doubled \cup {k.link : k \in checks}
  /\ missed' = missed \cup {c \in Link : linkAt[c] = "reading"}
  /\ UNCHANGED <<folderOf, dbRole, linkAt, readRole, changes>>

\* handlePermissionRevoked(): a closed socket may still deliver frames.
HandlePermissionRevoked(k) ==
  /\ k \in checks /\ k.at = "confirming" /\ folderOf[k.link] = k.folder
  /\ checks' = checks \ {k}
  /\ LET hit == {c \in Link : Live(c) /\ folderOf[c] = k.folder}
     IN  /\ linkAt' = [c \in Link |-> IF c \in hit THEN "closing" ELSE linkAt[c]]
         /\ role' = [c \in Link |-> IF c \in hit THEN "viewer" ELSE role[c]]
         /\ revoked' = revoked \cup hit
  /\ UNCHANGED <<folderOf, dbRole, readRole, hooks, changes, missed, doubled>>

\* The file is in another folder: the block goes, and the role is read again.
UndoRevocation(k) ==
  /\ k \in checks /\ k.at = "confirming" /\ folderOf[k.link] # k.folder
  /\ checks' = (checks \ {k}) \cup {[k EXCEPT !.at = "rereading"]}
  /\ revoked' = revoked \ {k.link}
  /\ UNCHANGED <<folderOf, dbRole, linkAt, readRole, role, hooks, changes, missed, doubled>>

RereadRole(k) ==
  /\ k \in checks /\ k.at = "rereading"
  /\ checks' = (checks \ {k}) \cup
                 {[k EXCEPT !.at = "restoring", !.got = dbRole[folderOf[k.link]]]}
  /\ UNCHANGED <<folderOf, dbRole, linkAt, readRole, role, revoked, hooks, changes,
                 missed, doubled>>

\* Fault: the role that the socket had when it was opened comes back.
RestoredFirst(k) == readRole[k.link]

Restored(k) == k.got

RestoreRole(k) ==
  /\ k \in checks /\ k.at = "restoring" /\ checks' = checks \ {k}
  /\ role' = IF Restored(k) = "none" THEN role
             ELSE [role EXCEPT ![k.link] = Restored(k)]
  /\ UNCHANGED <<folderOf, dbRole, linkAt, readRole, revoked, hooks, changes, missed, doubled>>

\* A database error: the socket stays as it is.
CheckFails(k) ==
  /\ k \in checks /\ checks' = checks \ {k}
  /\ UNCHANGED <<folderOf, dbRole, linkAt, readRole, role, revoked, hooks, changes,
                 missed, doubled>>

LinkCloses(c) ==
  /\ Live(c) /\ linkAt' = [linkAt EXCEPT ![c] = "closed"]
  /\ revoked' = revoked \ {c}
  /\ UNCHANGED <<folderOf, dbRole, readRole, role, hooks, checks, changes, missed, doubled>>

AccessNext ==
  \/ \E c \in Link : ReadRole(c) \/ OpenLink(c) \/ LinkCloses(c)
  \/ \E f \in Folder, r \in Role : ChangeRole(f, r)
  \/ \E h \in hooks : DisconnectUserFromFolder(h)
  \/ \E k \in checks : \/ HandlePermissionRevoked(k) \/ UndoRevocation(k)
                       \/ RereadRole(k) \/ RestoreRole(k) \/ CheckFails(k)

AccessSpec == AccessInit /\ [][AccessNext]_accessVars

---------------------------------------------------------------------------
AccessTypeOK ==
  /\ folderOf \in [Link -> Folder] /\ dbRole \in [Folder -> Role]
  /\ linkAt \in [Link -> {"new", "reading", "open", "closing", "closed"}]
  /\ readRole \in [Link -> Role] /\ role \in [Link -> Role]
  /\ revoked \subseteq Link /\ missed \subseteq Link /\ doubled \subseteq Link
  /\ hooks \subseteq [id : Nat, folder : Folder]
  /\ checks \subseteq [id : Nat, folder : Folder, link : Link, got : Role,
                       at : {"confirming", "rereading", "restoring"}]

\* handleDataMessage(): canWrite and Guard 6.
CanWrite(c) == Live(c) /\ role[c] = "editor" /\ c \notin revoked

\* Once the hook of a revocation has run, no socket writes to a file whose role
\* no longer allows it, unless it was authenticating when the hook ran, or the
\* undos of two other revocations overlapped on it.
RevocationHolds ==
  \A c \in Link \ (missed \cup doubled) :
    /\ dbRole[folderOf[c]] # "editor"
    /\ \A h \in hooks : h.folder # folderOf[c]
    => ~CanWrite(c)
=============================================================================
