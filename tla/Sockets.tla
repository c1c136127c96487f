------------------------------- MODULE Sockets ------------------------------
(***************************************************************************)
(* Connections side by side: accepting them, the main loop's watch of      *)
(* each, the writing of commands byte by byte, and what is shared by all,  *)
(* the global client_state and the views (src/src/server.c 684-727,        *)
(* 809-856, 1123-1188, 1199-1359).  Accepting is never stopped, so the     *)
(* engine may connect again before the first connection is over.           *)
(*                                                                         *)
(* What the action lists do is DbgpClient's matter: here a document either *)
(* makes the client issue a command or it does not, and it may fill the    *)
(* views.  The user opens variables and presses buttons.                   *)
(***************************************************************************)
EXTENDS Naturals, Sequences

CONSTANTS
    NULL,
    Conns,          \* connections, of which each is made once
    Size,           \* strlen of a command
    MaxCommands     \* bound on the commands of a connection

ASSUME SocketsAssumption ==
    /\ Size \in Nat \ {0}
    /\ MaxCommands \in Nat
    /\ NULL \notin Conns \cup Nat

VARIABLES
    state,      \* the ClientState of each connection
    path,       \* the path_string of each
    global,     \* the global client_state
    sources,    \* the watches the main loop has
    next_id,    \* the id of the next of them
    view,       \* whose variables are shown; NULL: no rows
    framed,     \* the connections whose stack has been shown
    stream,     \* the bytes on their way to each engine
    received,   \* the commands each engine has read, as it found them
    documents,  \* how many documents each engine has under way
    written,    \* the commands of each connection regarded as written
    shortened,  \* the connections with a write that was short
    overlapped, \* two connections have been open at the same time
    ended       \* how the program ended, or "no"

client == <<state, path, global, sources, next_id, view, framed>>
engines == <<stream, received, documents>>
history == <<written, shortened, overlapped>>
vars == <<client, engines, history, ended>>

NewState(id) ==
    [ life |-> "open", watch |-> id, out |-> FALSE, command |-> NULL, tid |-> 0,
      fetching |-> FALSE ]

Opened == {c \in Conns : state[c].life = "open"}

(* The bytes of a command, the last of which is NUL. *)
Bytes(tid) == [at \in 1..(Size + 1) |-> <<tid, at>>]
IsNul(byte) == byte[2] = Size + 1
-----------------------------------------------------------------------------
(* The engine of a connection takes commands from NUL to NUL, and answers. *)
EngineReads(c) ==
    /\ state[c].life = "open"
    /\ \E k \in DOMAIN stream[c] :
          /\ IsNul(stream[c][k])
          /\ \A i \in 1..(k - 1) : ~ IsNul(stream[c][i])
          /\ received' = [received EXCEPT ![c] = Append(@, SubSeq(stream[c], 1, k))]
          /\ stream' = [stream EXCEPT ![c] = SubSeq(@, k + 1, Len(@))]
    /\ documents' = [documents EXCEPT ![c] = @ + 1]
    /\ UNCHANGED <<client, history, ended>>
-----------------------------------------------------------------------------
(* g_source_remove of the watch of c, then g_io_add_watch: main loop s.     *)
WatchAdded(s, c) == s           \* faulty: the old one stays
WatchRemoved(s, c) == {w \in s : w.id # state[c].watch}

Watch(c, out) == [id |-> next_id, conn |-> c, out |-> out]

(* s becomes the ClientState of c, and the watch follows the flags.  The    *)
(* main loop itself drops a watch whose callback returns FALSE.            *)
Rewatches(c, s, dropped) ==
    /\ state' = [state EXCEPT ![c] = [s EXCEPT !.watch = next_id]]
    /\ sources' = WatchRemoved(sources \ dropped, c) \cup {Watch(c, s.out)}
    /\ next_id' = next_id + 1

Updates(c, s, watch) ==
    IF s.out = state[c].out
    THEN state' = [state EXCEPT ![c] = s] /\ UNCHANGED <<sources, next_id>>
    ELSE Rewatches(c, s, {watch})

(* A command takes the place of one that still waits to be written.        *)
Issued(s) == [s EXCEPT !.tid = @ + 1, !.command = s.tid + 1, !.out = TRUE]
-----------------------------------------------------------------------------
WatchedOnlyNew(c) == {Watch(c, FALSE)}      \* faulty: unwatches the other
WatchedToo(c) == sources \cup {Watch(c, FALSE)}

async_accept(c) ==
    /\ state[c].life = "none"
    /\ state' = [state EXCEPT ![c] = NewState(next_id)]
    /\ global' = c
    /\ sources' = WatchedToo(c)
    /\ next_id' = next_id + 1
    /\ documents' = [documents EXCEPT ![c] = 1]
    /\ overlapped' = (overlapped \/ Opened # {})
    /\ UNCHANGED <<path, view, framed, stream, received, written, shortened, ended>>

Ends(how) ==
    /\ ended' = how
    /\ UNCHANGED <<client, engines, history>>

(* async_accept without a connection, and async_sig_int. *)
Exits == Ends("exit")
-----------------------------------------------------------------------------
(* process_fetched_property takes the row from the global client_state, and *)
(* frees the path there, but does not forget it.                           *)
RowLost(c) ==
    state[c].fetching /\ (state[global].life # "open" \/ path[global] # "set")

RowTaken(c) ==
    path' = IF state[c].fetching THEN [path EXCEPT ![global] = "freed"] ELSE path

(* What a document of c leaves behind: the ClientState, and whose rows are *)
(* shown.                                                                  *)
Processed(c) ==
    LET s == state[c]
    IN  IF s.fetching THEN {[s EXCEPT !.fetching = FALSE]}
        ELSE {s} \cup {Issued(t) : t \in {u \in {s} : u.tid < MaxCommands}}

Shown(c) == IF state[c].fetching THEN {view} ELSE {view, c}

Takes(c) ==
    /\ documents[c] > 0
    /\ ~ RowLost(c)
    /\ documents' = [documents EXCEPT ![c] = @ - 1]
    /\ RowTaken(c)
    /\ view' \in Shown(c)
    /\ framed' = framed \cup ({view'} \ {NULL})

(* g_io_channel_write writes n bytes of a command; the command is freed.   *)
WithoutNul(tid, n) == SubSeq(Bytes(tid), 1, IF n > Size THEN Size ELSE n)   \* faulty
WithNul(tid, n) == SubSeq(Bytes(tid), 1, n)

(* OUT stays watched after a write of nothing, although nothing is left.   *)
Written(s, n) == [s EXCEPT !.command = NULL, !.out = (n = 0)]

Writes(c, s, watch) ==
    /\ s.command # NULL
    /\ \E n \in 0..(Size + 1) :
          /\ stream' = [stream EXCEPT ![c] = @ \o WithNul(s.command, n)]
          /\ written' = [written EXCEPT ![c] = Append(@, s.command)]
          /\ shortened' = IF n < Size + 1 THEN shortened \cup {c} ELSE shortened
          /\ Updates(c, Written(s, n), watch)

(* async_client_iofunc without an error: it reads, writes, or does both,   *)
(* and then OUT was in the flags and leaves them once.                     *)
ReadsOnly(watch) ==
    LET c == watch.conn
    IN  /\ Takes(c)
        /\ \E s \in Processed(c) : Updates(c, s, watch)
        /\ UNCHANGED <<global, stream, received, history, ended>>

WritesOnly(watch) ==
    LET c == watch.conn
    IN  /\ watch.out
        /\ Writes(c, state[c], watch)
        /\ UNCHANGED <<global, path, view, framed, received, documents, overlapped, ended>>

ReadsAndWrites(watch) ==
    LET c == watch.conn
    IN  /\ watch.out
        /\ Takes(c)
        /\ \E s \in Processed(c) : Writes(c, s, watch)
        /\ UNCHANGED <<global, received, overlapped, ended>>

ReadsIntoNoRow(watch) ==
    /\ documents[watch.conn] > 0
    /\ RowLost(watch.conn)
    /\ Ends(IF state[global].life = "open" /\ path[global] = "none"
            THEN "no_path" ELSE "use_after_free")

(* strlen of the command that a write of nothing has freed. *)
WritesNoCommand(watch) ==
    /\ watch.out
    /\ state[watch.conn].command = NULL
    /\ Ends("null_dereference")

Serves(watch) ==
    \/ ReadsOnly(watch)
    \/ WritesOnly(watch)
    \/ ReadsAndWrites(watch)
    \/ ReadsIntoNoRow(watch)
    \/ WritesNoCommand(watch)

(* Errors, a hang-up, and reading nothing: clientstate_delete, and both    *)
(* views are emptied, whoever filled them.  A write may fail after a       *)
(* document was read in the same call.                                     *)
ViewsKept == view               \* faulty
ViewsEmptied == NULL

clientstate_delete(c) ==
    /\ state[c].life = "open"
    /\ state' = [state EXCEPT ![c].life = "freed"]
    /\ sources' = WatchRemoved(sources, c)
    /\ view' = ViewsEmptied
    /\ stream' = [stream EXCEPT ![c] = << >>]
    /\ documents' = [documents EXCEPT ![c] = 0]
    /\ \/ UNCHANGED path
       \/ state[c].out /\ documents[c] > 0 /\ ~ RowLost(c) /\ RowTaken(c)
    /\ UNCHANGED <<global, next_id, framed, received, history, ended>>
-----------------------------------------------------------------------------
(* The user opens a row: a command goes to where the global points.        *)
varview_selection_function ==
    LET c == global
    IN  /\ view # NULL
        /\ state[c].life = "open" /\ state[c].tid < MaxCommands
        /\ path' = [path EXCEPT ![c] = "set"]
        /\ Rewatches(c, [Issued(state[c]) EXCEPT !.fetching = TRUE], {})
        /\ UNCHANGED <<global, view, framed, engines, history, ended>>

SelectsForTheFreed ==
    /\ view # NULL
    /\ state[global].life = "freed"
    /\ Ends("use_after_free")

(* A button, while the buttons are active.  It needs no rows.              *)
process_a_button ==
    LET c == global
    IN  /\ c # NULL /\ state[c].life = "open" /\ c \in framed
        /\ state[c].tid < MaxCommands
        /\ Rewatches(c, Issued(state[c]), {})
        /\ UNCHANGED <<global, path, view, framed, engines, history, ended>>

(* The frames are read before anything is checked: there is no connection  *)
(* yet, or no stack_info, or the connection is over and its state freed.   *)
PressesTooEarly ==
    /\ global # NULL => state[global].life = "open" /\ global \notin framed
    /\ Ends("null_dereference")

PressesForTheFreed ==
    /\ global # NULL
    /\ state[global].life = "freed"
    /\ Ends("freed_button")
-----------------------------------------------------------------------------
Init ==
    /\ state = [c \in Conns |-> [NewState(0) EXCEPT !.life = "none"]]
    /\ path = [c \in Conns |-> "none"]
    /\ global = NULL
    /\ sources = {} /\ next_id = 1
    /\ view = NULL
    /\ framed = {}
    /\ stream = [c \in Conns |-> << >>]
    /\ received = [c \in Conns |-> << >>]
    /\ documents = [c \in Conns |-> 0]
    /\ written = [c \in Conns |-> << >>]
    /\ shortened = {}
    /\ overlapped = FALSE
    /\ ended = "no"

Running == ended = "no"

Next ==
    /\ Running
    /\ \/ \E c \in Conns : async_accept(c)
       \/ \E watch \in sources : Serves(watch)
       \/ \E c \in Conns : EngineReads(c)
       \/ \E c \in Conns : clientstate_delete(c)
       \/ varview_selection_function
       \/ SelectsForTheFreed
       \/ process_a_button
       \/ PressesTooEarly
       \/ PressesForTheFreed
       \/ Exits

Spec == Init /\ [][Next]_vars

(* The main loop comes to every watch whose condition holds.               *)
ServesTo(c) == Running /\ \E watch \in sources : watch.conn = c /\ Serves(watch)

Fairness == \A c \in Conns : WF_vars(ServesTo(c))

FairSpec == Spec /\ Fairness
-----------------------------------------------------------------------------
(* An open connection has one watch, which its ClientState knows and which *)
(* has its flags, and a freed one has none: a watch too many would call    *)
(* back with memory that is gone (g_source_remove at 835, 850, 1125, 1287, *)
(* 1328 and the FALSE that the callback returns).                          *)
OneWatchEach ==
    /\ \A c \in Opened :
          {w \in sources : w.conn = c}
              = {[id |-> state[c].watch, conn |-> c, out |-> state[c].out]}
    /\ \A w \in sources : w.conn \in Opened

(* The bytes are those of the commands, one after the other. *)
AreBytes(bytes, commands) ==
    /\ Len(bytes) = Len(commands) * (Size + 1)
    /\ \A i \in DOMAIN commands, at \in 1..(Size + 1) :
          bytes[(i - 1) * (Size + 1) + at] = Bytes(commands[i])[at]

(* What the engine of c has read, and what is still on its way to it, are  *)
(* the commands written for c.                                             *)
WholeCommands(c) ==
    LET read == Len(received[c])
    IN  /\ read <= Len(written[c])
        /\ \A i \in 1..read : received[c][i] = Bytes(written[c][i])
        /\ AreBytes(stream[c], SubSeq(written[c], read + 1, Len(written[c])))

(* Unless a write to it was short, what an engine has read and what is     *)
(* still on its way are the commands written for its own connection, whole *)
(* and in order: no write takes the commands apart, glues them together or *)
(* sends one to the other engine (1302-1320).                              *)
WholeCommandsInOrder == \A c \in Opened \ shortened : WholeCommands(c)

(* Whatever the global points to by now, a connection's documents are read *)
(* and its command is handed to a write, until it is closed or the program *)
(* ends.                                                                   *)
Waits(c) == documents[c] > 0 \/ (state[c].life = "open" /\ state[c].command # NULL)
EveryConnectionServed ==
    \A c \in Conns : Waits(c) ~> (~ Waits(c) \/ ~ Running)

(* Rows and documents use a ClientState that was freed, and look up a row  *)
(* without a path, only once two connections were open together (1155).    *)
(* The buttons need no second connection for it (700), but until there was *)
(* one, only when the last connection is over: while it is open, a sole    *)
(* connection is safe from all of them.                                    *)
SoleConnectionIsSafe ==
    \/ overlapped
    \/ /\ ended \notin {"use_after_free", "no_path"}
       /\ ended = "freed_button" => Opened = {}
=============================================================================
