------------------------------ MODULE SdkRoom ------------------------------
(***************************************************************************)
(* A PeerGridRoom of the SDK from joinRoom() to leave(), with the server's *)
(* end of its socket: routing, reconnection, the frames that authenticate, *)
(* and the sync handshake.  A Y.Doc is a set of updates and a state vector *)
(* the set it covers.  The server logs and merges an update in one step;   *)
(* its backpressure is left out.                                           *)
(***************************************************************************)
EXTENDS Naturals, Sequences

CONSTANTS
  OwnEdit,      \* updates that the application makes in room.doc
  PeerEdit,     \* updates of other users
  MaxAttempts,  \* reconnect.maxAttempts
  MaxConnects   \* bound on the sockets that are opened

ASSUME SdkAssumption ==
  OwnEdit \cap PeerEdit = {} /\ MaxAttempts \in Nat /\ MaxConnects \in Nat

VARIABLES
  joinCall,   \* joinRoom(): "no", "routing", "thrown", then its promise:
              \* "pending", "resolved", "rejected"
  sdkClosed,  \* _closed
  wire,       \* "idle", "resolving" (_connecting), "opening", "open",
              \* "waiting" (_reconnectTimer)
  sdkSynced,  \* _synced
  attempt,    \* _reconnectAttempt
  sdkDoc,     \* room.doc
  peerAt,     \* the server's end: "none", "fresh", "verifying", "entering",
              \* "joined" (in the room), "live" (session tracked), "closing"
  serverDoc,  \* the room's document on the server
  toServer, toClient,  \* frames on their way
  opened,     \* sockets opened so far, for the bound
  late        \* history: updates dropped since the last answer to a SyncStep1

sdkVars == <<joinCall, sdkClosed, wire, sdkSynced, attempt, sdkDoc, peerAt, serverDoc,
             toServer, toClient, opened, late>>

Msg(type, set) == [type |-> type, set |-> set]
Control(type) == Msg(type, {})

\* Fault: the two documents are swapped.
DiffSwapped(have, vector) == vector \ have

\* Y.encodeStateAsUpdate(doc, vector)
Diff(have, vector) == have \ vector

SdkInit ==
  /\ joinCall = "no" /\ sdkClosed = FALSE /\ wire = "idle" /\ sdkSynced = FALSE
  /\ attempt = 0 /\ sdkDoc = {} /\ peerAt = "none" /\ serverDoc = {}
  /\ toServer = << >> /\ toClient = << >> /\ opened = 0 /\ late = {}

---------------------------------------------------------------------------
(* joinRoom(), _connect() and the reconnection *)

JoinRoom ==
  /\ joinCall = "no" /\ joinCall' = "routing"
  /\ UNCHANGED <<sdkClosed, wire, sdkSynced, attempt, sdkDoc, peerAt, serverDoc,
                 toServer, toClient, opened, late>>

\* _resolveWebsocketUrlWithRetry() answers; the room resolves once more itself.
RouteFound ==
  /\ joinCall = "routing"
  /\ \/ joinCall' = "pending" /\ wire' = "resolving"
     \/ joinCall' = "thrown" /\ UNCHANGED wire
  /\ UNCHANGED <<sdkClosed, sdkSynced, attempt, sdkDoc, peerAt, serverDoc,
                 toServer, toClient, opened, late>>

ScheduleReconnect ==
  IF attempt < MaxAttempts THEN wire' = "waiting" /\ attempt' = attempt + 1
                           ELSE wire' = "idle" /\ UNCHANGED attempt

ResolveUrl ==
  /\ wire = "resolving"
  /\ \/ /\ opened < MaxConnects
        /\ wire' = IF sdkClosed THEN "idle" ELSE "opening"
        /\ opened' = IF sdkClosed THEN opened ELSE opened + 1
        /\ UNCHANGED attempt
     \/ /\ IF sdkClosed THEN wire' = "idle" /\ UNCHANGED attempt ELSE ScheduleReconnect
        /\ UNCHANGED opened
  /\ UNCHANGED <<joinCall, sdkClosed, sdkSynced, sdkDoc, peerAt, serverDoc, toServer,
                 toClient, late>>

ReconnectTimer ==
  /\ wire = "waiting" /\ wire' = "resolving"
  /\ UNCHANGED <<joinCall, sdkClosed, sdkSynced, attempt, sdkDoc, peerAt, serverDoc,
                 toServer, toClient, opened, late>>

\* _onOpen(): the auth frame, and SyncStep1 right after it.
OnOpen ==
  /\ wire = "opening" /\ wire' = "open" /\ attempt' = 0
  /\ toServer' = <<Control("auth"), Msg("step1", sdkDoc)>>
  /\ peerAt' = "fresh"
  /\ UNCHANGED <<joinCall, sdkClosed, sdkSynced, sdkDoc, serverDoc, toClient, opened, late>>

\* Nothing is on its way any more, and the server forgets the socket.
Unplugged == peerAt' = "none" /\ toServer' = << >> /\ toClient' = << >>

\* _onClose(): the network fails, or the server's close arrives after its frames.
OnClose ==
  /\ wire \in {"opening", "open"}
  /\ Unplugged /\ sdkSynced' = FALSE
  /\ ScheduleReconnect
  /\ UNCHANGED <<joinCall, sdkClosed, sdkDoc, serverDoc, opened, late>>

\* leave(): listeners, timer and socket go.  A promise of joinRoom() that is
\* pending stays so.
LeaveSdkRoom ==
  /\ joinCall \in {"pending", "resolved"} /\ ~sdkClosed
  /\ sdkClosed' = TRUE /\ Unplugged
  /\ wire' = IF wire = "resolving" THEN wire ELSE "idle"
  /\ UNCHANGED <<joinCall, sdkSynced, attempt, sdkDoc, serverDoc, opened, late>>

---------------------------------------------------------------------------
(* The frames at the client *)

\* _onLocalUpdate(): nothing is sent before the handshake is over.
EditDoc(e) ==
  /\ joinCall \in {"pending", "resolved"} /\ ~sdkClosed /\ e \notin sdkDoc
  /\ sdkDoc' = sdkDoc \cup {e}
  /\ IF sdkSynced /\ wire = "open"
     THEN toServer' = Append(toServer, Msg("update", {e})) /\ UNCHANGED late
     ELSE late' = late \cup {e} /\ UNCHANGED toServer
  /\ UNCHANGED <<joinCall, sdkClosed, wire, sdkSynced, attempt, peerAt, serverDoc,
                 toClient, opened>>

\* _handleSync()
OnSync ==
  /\ wire = "open" /\ toClient # << >> /\ Head(toClient).type # "auth_error"
  /\ toClient' = Tail(toClient)
  /\ LET m == Head(toClient)
     IN  IF m.type = "step1"
         THEN /\ toServer' = Append(toServer, Msg("step2", Diff(sdkDoc, m.set)))
              /\ late' = {}
              /\ UNCHANGED <<joinCall, sdkSynced, sdkDoc>>
         ELSE /\ sdkDoc' = sdkDoc \cup m.set
              /\ IF m.type = "step2"
                 THEN sdkSynced' = TRUE
                      /\ joinCall' = IF joinCall = "pending" THEN "resolved" ELSE joinCall
                 ELSE UNCHANGED <<sdkSynced, joinCall>>
              /\ UNCHANGED <<toServer, late>>
  /\ UNCHANGED <<sdkClosed, wire, attempt, peerAt, serverDoc, opened>>

\* _handleJsonFrame(): for good, whatever the reason.
OnAuthError ==
  /\ wire = "open" /\ toClient # << >> /\ Head(toClient).type = "auth_error"
  /\ sdkClosed' = TRUE /\ wire' = "idle" /\ Unplugged
  /\ joinCall' = IF joinCall = "pending" THEN "rejected" ELSE joinCall
  /\ UNCHANGED <<sdkSynced, attempt, sdkDoc, serverDoc, opened, late>>

---------------------------------------------------------------------------
(* The server's end: handleAuthMessage(), handleDataMessage() *)

RefuseSocket ==
  /\ peerAt' = "closing"
  /\ toClient' = Append(toClient, Control("auth_error"))

\* A binary frame before conn.userId is set is not an auth message; one before
\* the session is tracked is dropped.
ServerReceives ==
  /\ peerAt # "none" /\ toServer # << >> /\ toServer' = Tail(toServer)
  /\ LET m == Head(toServer)
     IN  \/ /\ m.type = "auth" /\ peerAt = "fresh" /\ peerAt' = "verifying"
            /\ UNCHANGED <<serverDoc, toClient>>
         \/ /\ m.type # "auth" /\ peerAt \in {"fresh", "verifying"}
            /\ RefuseSocket /\ UNCHANGED serverDoc
         \/ /\ peerAt \in {"entering", "joined", "closing"}
            /\ UNCHANGED <<peerAt, serverDoc, toClient>>
         \/ /\ m.type = "step1" /\ peerAt = "live"
            /\ toClient' = Append(toClient, Msg("step2", Diff(serverDoc, m.set)))
            /\ UNCHANGED <<peerAt, serverDoc>>
         \/ /\ m.type \in {"step2", "update"} /\ peerAt = "live"
            /\ serverDoc' = serverDoc \cup m.set
            /\ UNCHANGED <<peerAt, toClient>>
  /\ UNCHANGED <<joinCall, sdkClosed, wire, sdkSynced, attempt, sdkDoc, opened, late>>

\* The token and the role are verified, or a database error has the socket
\* refused with the same auth_error.
ServerVerifies ==
  /\ peerAt = "verifying"
  /\ \/ peerAt' = "entering" /\ UNCHANGED toClient
     \/ RefuseSocket
  /\ UNCHANGED <<joinCall, sdkClosed, wire, sdkSynced, attempt, sdkDoc, serverDoc,
                 toServer, opened, late>>

\* The room is there: startYjsSync().
ServerJoins ==
  /\ peerAt = "entering" /\ peerAt' = "joined"
  /\ toClient' = Append(toClient, Msg("step1", serverDoc))
  /\ UNCHANGED <<joinCall, sdkClosed, wire, sdkSynced, attempt, sdkDoc, serverDoc,
                 toServer, opened, late>>

\* getFolderIdForFile() resolves: the session is tracked.
ServerTracks ==
  /\ peerAt = "joined" /\ peerAt' = "live"
  /\ UNCHANGED <<joinCall, sdkClosed, wire, sdkSynced, attempt, sdkDoc, serverDoc,
                 toServer, toClient, opened, late>>

PeerEdits(e) ==
  /\ e \notin serverDoc /\ serverDoc' = serverDoc \cup {e}
  /\ toClient' = IF peerAt \in {"joined", "live"}
                 THEN Append(toClient, Msg("update", {e})) ELSE toClient
  /\ UNCHANGED <<joinCall, sdkClosed, wire, sdkSynced, attempt, sdkDoc, peerAt,
                 toServer, opened, late>>

SdkNext ==
  \/ JoinRoom \/ RouteFound \/ ResolveUrl \/ ReconnectTimer \/ OnOpen \/ OnClose
  \/ LeaveSdkRoom \/ OnSync \/ OnAuthError
  \/ \E e \in OwnEdit : EditDoc(e)
  \/ ServerReceives \/ ServerVerifies \/ ServerJoins \/ ServerTracks
  \/ \E e \in PeerEdit : PeerEdits(e)

SdkSpec == SdkInit /\ [][SdkNext]_sdkVars

---------------------------------------------------------------------------
SdkUpdates == OwnEdit \cup PeerEdit
SdkFrame == [type : {"auth", "auth_error", "step1", "step2", "update"}, set : SUBSET SdkUpdates]

SdkTypeOK ==
  /\ joinCall \in {"no", "routing", "thrown", "pending", "resolved", "rejected"}
  /\ sdkClosed \in BOOLEAN /\ sdkSynced \in BOOLEAN
  /\ wire \in {"idle", "resolving", "opening", "open", "waiting"}
  /\ attempt \in 0..MaxAttempts /\ opened \in 0..MaxConnects
  /\ sdkDoc \subseteq SdkUpdates /\ serverDoc \subseteq SdkUpdates /\ late \subseteq OwnEdit
  /\ peerAt \in {"none", "fresh", "verifying", "entering", "joined", "live", "closing"}
  /\ toServer \in Seq(SdkFrame) /\ toClient \in Seq(SdkFrame)
  /\ sdkClosed => wire \in {"idle", "resolving"}

\* 'synced': the room and the server hold the same updates whenever nothing is on
\* its way between them, over any number of reconnections, except what the user
\* typed after the room answered the server's SyncStep1 and before the server
\* answered its own: that waits for the next connection.
SyncedIsConsistent ==
  sdkSynced /\ wire = "open" /\ peerAt = "live" /\ toServer = << >> /\ toClient = << >>
    => sdkDoc \ late \subseteq serverDoc /\ serverDoc \subseteq sdkDoc
=============================================================================
