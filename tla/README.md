# gtkdbgp in TLA+

gtkdbgp is a GTK debugger client for PHP. It listens on a TCP port; Xdebug, the
debug engine inside a PHP process, connects to it when a script starts and the two
speak DBGp: the client sends one-line commands, the engine sends XML documents.
This directory models the client's protocol machine together with the engine and
the user, the framing of documents and the writing of commands below it, the reading of
their XML, the view of variables and the settings it depends on, and the containers and
strings everything is made of; checks them with TLC on small instances, and proves part of it with TLAPS
for every instance.

Line numbers are those of `src/src/server.c` unless another file is named.

## 1. Inventory

### Components

| component | state | operations | interacts with |
|---|---|---|---|
| session protocol (`server.c`, `globals.h`) | the global `client_state`: `server_state`, `action_list_ptr`, `command`, `last_tid`, `message`, `last_source_file`, `last_selected_stack_frame`, `path_string`, arrow, buttons | `process_request` 1055, `process_state_input` 976, `process_state_init` 1021, the `do_*` and `process_*` items 111-600, the five action lists 604-669 | called by the socket callback; calls the views |
| socket callback (1199-1352) | the watch and its flags, the packet buffer (`first_packet`, `more_coming`, `expected_length`, `current_pos`) | read and frame a document, write a command, clean up on error | GLib main loop, GNet |
| connections (1084-1188) | listening socket, `client_state` | `start_server`, `async_accept`, `clientstate_delete` | GNet |
| source notebook (858-951) | `code_tabs_hash`, pages, current page, arrow | `add_source_file`, `_process_select_file_line_for_*` | session protocol |
| stack view (549-600, 783-807) | rows, selected row | `process_update_stack`, `stack_selection_function` | user, session protocol |
| variable view (205-223, 397-546, 809-856) | rows, hints, pages fetched | `add_property`, `process_fetched_property`, `varview_selection_function` | user, session protocol |
| buttons (684-762) | `buttons_active`, saved open rows | `process_a_button` and its six callers | user, session protocol |
| XML parser (`xdebug_xml.c`, `xdebug_xml_reader.c`) | tree, stack of 32 open elements | SAX callbacks, `parse_message` | socket callback |
| containers (`xdebug_llist.c`, `xdebug_hash.c`) | lists, hash slots | insert, remove, find, add, update | notebook, breakpoints |
| string buffer (`xdebug_str.c`) | length, allocation, bytes | append, chop, `xdebug_sprintf` | commands, the writer of XML |
| helpers (`usefulstuff.c`) | none (the line reader keeps a buffer) | explode, join, search, URL encoding, line reader | notebook (`xdebug_explode`) |
| preferences (`callbacks.c`, `main.c`) | GConf keys, dialog | defaults, load, save, revert | `do_set_feature`, `process_jump`, `add_property` |

### How they interact

The program is single threaded. GLib's main loop calls back when the socket is
readable, writable or broken, when a connection arrives, and when the user presses a
button or selects a row. A readable socket yields a document; the document either
starts an action list (when `server_state` is INPUT) or resumes the one that was
interrupted to wait for it. List items either issue a command and return INTERACTIVE
(the loop stops, the socket is watched for writing) or use the document and return
NON_INTERACTIVE (the loop goes on). Nothing in a document is compared with what was
asked: **only the order of documents ties an answer to the item that uses it**.
Buttons and selections issue commands too, at any time, and selections replace the
action list. Between any two callbacks the engine may go away.

### What is hard, and what makes each component correct

The complete list, with lines and the properties that address each, is `hazards` in
`PROJECT.json`. The heart of it:

* *order*: a click while an answer is outstanding; an answer handed to the wrong item
  (`LockStep`, `HandlerGetsItsReply`, `TidsIncrease`, `AlternatesRequests`);
* *list arithmetic*: skips (`state->action_list_ptr += param`, 278), jumps with a
  flag packed into the distance (232), lists replaced under way (`PointerInList`,
  `SessionConfigured`);
* *missing answers*: refused sources and stacks, scripts that end at once, four
  functions that fall off their end without a return (320-329, 386-395) and so let the
  compiler decide whether the loop goes on (`NoCrash`, `WaitsForAnAnswer`, `ComesToRest`);
* *lifetime*: `client_state` is neither reset when its memory is freed (1123-1130) nor
  checked before use (700, 792) (`RowsOnlyWhenConnected`, `ButtonsNeedConnection`);
* *framing*: documents cut, joined or too long for the buffer (`DeliversDocuments`,
  `EveryDocumentArrives`, `HandedInOrder`, `NoLeftovers`); a command written in part, or not
  at all (`WholeCommandsInOrder`, `OneWatchEach`);
* *two connections*: accepting goes on while one is open, and the global moves to the new
  one (1155), so that a callback works on one connection and the functions it calls on another
  (`SoleConnectionIsSafe`, `OneWatchEach`, `EveryConnectionServed`);
* *settings in two places*: the engine is told the size of a page once, and only behind the
  first stop (616-617 before 623), the client reads it whenever it shows a property, and divides
  by it (`ChildrenInOrder`, `NothingLeftBehind`, `PageCountForAllArrays`); widgets that cannot
  hold every setting (`OkKeepsTheRest`);
* *stale views*: pages and arrows outlive sessions, selections outlive stops, the row to
  hang children under is remembered across a round trip (`ViewsAgree`,
  `OnePagePerFile`, `PageShowsItsFile`, `OneArrowPerSession`, `KidsUnderTheirParent`,
  `FetchRowIsShown`);
* *data structures*: links of both directions, a size kept beside them, a destructor
  that must run once per value (`WellLinked`, `NoneDestroyedInUse`,
  `ImplementsList`, `ImplementsMap`); trees built from callbacks (`EachNodeOnce`,
  `ImplementsTree`); memory that grows by what is just enough (`TerminatedInside`,
  `ImplementsText`), texts cut at their ends (`SplitsAtDelimiters`, `UrlRoundTrip`).

## 2. Modules

    DbgpWire          commands, documents, the two byte streams
      DbgpClient      the client: ClientState, lists, callbacks      (server.c)
      DebugEngine     the engine, as server.c uses it                (external)
        DbgpSession   client + engine + user; properties, fairness, refinement
          MCDbgpSession        values for TLC
          DbgpSessionProofs    the client by itself, what is under way and the refinement,
                               what is shown
    RequestReply      abstract specification: commands and answers alternate
    PacketFraming     bytes of a connection cut into documents      (server.c 1214-1294)
      MCPacketFraming        values for TLC
      PacketFramingProofs    inductive invariant and theorems, the refinement
    DocumentChannel   abstract specification: documents arrive whole, once, in order
    Sockets           connections side by side, watches, writing    (server.c 684-1359)
      MCSockets              values for TLC
      SocketsProofs          inductive invariant and theorems
    Preferences       settings, their defaults, the dialog          (callbacks.c, main.c)
      VariableView    the tree of variables and its pages           (server.c 397-856)
        MCVariableView       values for TLC
        VariableViewProofs   theorems about the pages, and about the settings
    XmlTree           the tree built from what libxml reports       (xdebug_xml*.c)
      MCXmlTree              values for TLC
      XmlTreeProofs          theorems, the refinement among them
    DocumentTree      abstract specification: the tree the document describes
    XdebugLlist       the doubly linked list                        (xdebug_llist.c)
      MCXdebugLlist          values for TLC
      XdebugLlistProofs      inductive invariant and theorems, the refinement
    ValueList         abstract specification: a sequence of values
    XdebugHash        the table of chains                           (xdebug_hash.c)
      MCXdebugHash           values for TLC
      XdebugHashProofs       inductive invariant and theorems, the refinement
    KeyValueMap       abstract specification: a map
    XdebugStr         the string that grows                         (xdebug_str.c)
    Text              abstract specification: a text
    UsefulStuff       explode, join, search, URL encoding           (usefulstuff.c)
      StringHelpers   XdebugStr and UsefulStuff, on the same texts
        MCStrings            values for TLC
        StringHelpersProofs  theorems, the refinement among them

**DbgpWire.** A command is its verb, its transaction id and the argument its answer
depends on; a document is its kind, id, and the part a handler reads. The streams are
sequences. A stack or context document also carries the number of the stop it was made
at; the client never reads it, and it lets properties say "out of date".

**DbgpClient.** `cs` is `*client_state`, field by field; `ui` is what the user sees:
`tabs` (pages, each with the file it is labelled with and the file whose text it shows),
`current`, `arrows`, `stack`, `vars`. One action per `do_*`/`process_*` function, per
branch of `process_state_input`, and per callback. `process_state_init` is the one long
callback; it is unrolled one list item per step, with `dispatching` TRUE until the loop
ends, and no other callback is enabled meanwhile, so the unrolling adds no
interleaving. `conn` is what the global denotes (`none`, `open`, `freed`);
a dereference of null or freed memory sets `fault` and ends the run.
Two nondeterministic choices stand for what the code leaves open: the value
the wrappers without a return leave behind (`FallOff`), and the preference
`break_on_warning` read in `process_jump`.
`G_IO_OUT` in the watch flags is `cs.out`. A readable-and-writable callback is the read,
the list items and the write in that order, which are consecutive steps here.

**DebugEngine** (external). Commands are read in order; continuation commands are answered
at the next stop or end of the script, all others at once. It may refuse the verbs in
`Refused`, does not know files it has not got, has no frames except at a stop, and may die
at any time.

**DbgpSession.** Joins them and adds the user. `Patient = FALSE`: any click at any moment
between callbacks. `Patient = TRUE`: clicks only when `Settled`, that is when everything
asked for has been shown and the status bar says "Waiting for input."

**RequestReply.** What a session promises, in five actions: open, ask, answer, die,
close, with consecutive ids. `DbgpSession` implements it under the mapping
`link <- Link, asked <- cs.last_tid, answered <- Answered`.

**PacketFraming.** The read half of `async_client_iofunc` below the level of documents.
A byte is its document and its place in the frame `LEN NUL xml NUL`; `wire` holds bytes
under way, `sock` those that `g_io_channel_read` can return, `buffer` is
`client_state->buffer` up to `current_pos`. `ReadFirst` and `ReadMore` are the two
branches at 1250 and 1265 with everything that follows them; `ReadFirst_underflow` is
`memcpy` with a length of minus one when there was no NUL, `ReadMore_overrun` the one that
leaves the buffer; after either the memory is undefined and the model stops.
`handed` is what `process_request` is called with; it need not be a document: a late
trailing NUL is read as a first packet of length 0. `CutsFrames` and `Pipelined` say
what is asked of the network and of the engine. Where DbgpSession takes whole documents
from a stream, this module says when that is what happens: it implements
**DocumentChannel** (with whole documents) under the assumptions of the run `whole_frames`.

**XmlTree.** What `parse_message` makes of a document. `data` is
`xdebug_xml_reader_priv` with its stack of open elements; `nodes` are the
`xdebug_xml_node`s in the order of their allocation, linked by `child` and `next`. One
action per SAX handler, and one for the end of `parse_message`, which writes the tree to a
log: writing a text that contains `]]>` as base64 leaves an attribute `encoding` with the
node, which the views then see. `Written` and `Freed` are the two recursive walks. An
element opened on a full stack is written behind its end (`start_element_overrun`); the
model stops there. A second text of the same element replaces the first
(`todo: support multiple text nodes` in `xdebug_xml.h`); `SplitsText` says whether libxml
reports such, and the run says it does not, since a second text is lost by design. It
implements **DocumentTree**: every element below the one that was open, with its
attributes and its text.

**XdebugLlist.** `heap` maps allocated addresses to elements; removing an address from it
is `free`. One action per public operation that changes the list, with any element of the list
as argument, or NULL where the code accepts it. `xdebug_llist_empty` is unrolled one round per step, with
`emptying` TRUE until its loop ends. `jump_head` is the walk of
`xdebug_llist_jump`, from which the values of the list are read. It implements **ValueList**.

**XdebugHash.** `table` maps slots to chains; a chain is the sequence that XdebugLlist
implements. `FIND_SLOT` is the constant `Slot`, so that any keys may collide, a string and
a number among them. `released` is what the step passed to the destructor, in the order it did.
The program's own table (`code_tabs_hash`) has no destructor; the run gives it one, which is the
harder case. It implements **KeyValueMap**, where a walk (`xdebug_hash_apply`) visits every value once and
the size is the number of keys.

**Sockets.** The socket callback from below: `sources` are the watches the main loop has,
`state` the `ClientState` of every connection, `global` where `client_state` points. Accepting
is never cancelled (the call is commented out, 1142), so `Conns` may be open together.
The callback works on the `ClientState` it was registered with (its parameter hides the
global), but `process_fetched_property`, the selection handlers and the buttons take the global,
and all share the views: `RowLost` is when the path looked up is not there or not alive,
`SelectsForTheFreed` a click on a row after the connection the global points to is gone. A
button needs no row: `PressesForTheFreed` reads what `clientstate_delete` has freed,
`PressesTooEarly` the null global, or the null `stack_info` of a connection whose stack was
not shown yet (`framed` has the others). `Rewatches`
is `g_source_remove` and `g_io_add_watch`, with `dropped` the watch whose callback returns
FALSE. A command is bytes with a NUL; a write may take some of them, or none, and the rest is
freed (`shortened`); after a write of none OUT stays watched (`Written`), and the next callback
takes the length of no command (`WritesNoCommand`). `ended` says how the program came to its
end: `exit`, freed memory used by a row or a document, or by a button, a row looked up by no
path, or a null pointer. What the action lists do is DbgpClient's matter: here a document makes
the client issue a command or not, and fill the views or not.

**Preferences.** `conf` is GConf, `fields` the widgets. A number passes `%u`, `strtol` and a
`gint` on its way through an entry, and the range of a spin button (`Held`, `ReadBack`). The
entry for the port has room for five characters (`gtkdbgp.xml:508`): of a longer number it keeps
the first digits (`FirstDigits`, with `PortLimit` the first number that is too long), and that is
saved. So `FitsWidget`, the premise of `OkKeepsTheRest`, is about more than the spin buttons: a
negative port, which `%u` prints with ten digits, or one of six is changed by a dialog in which
nobody touched it.
`Starts` is what `main` reads, completes and writes before anything else. `edited` are the
widgets that differ from what was loaded by the user's hand: Revert counts as editing
everything but the fonts, and an edit before it stays one.

**VariableView.** `rows` is the tree store, by the paths of its rows (`GtkTreePath`); a row
has its hint, its page count, the pages fetched and the number of rows below it. `add_property` is the
function of that name, with the early return that leaves a `FETCH_MORE` hint and the
comparison that leaves a `FETCH_PAGES` hint (`Filled`). It calls itself for every child it
appends a row for; these calls change nothing but the rows they append, so that `Nesting` has them level by level.
`session` has the sizes the engine goes by, and `Element` is the answer it makes of them: its own
(`EngineSize`, `EngineDepth`) while the first stop is shown, for `initial_action_list` fetches
that context (616-617) before it sends `max_children` and `max_depth` (623-624); `begun` is how
far this list is. The client's own numbers come from `conf`, which the dialog may change at any
moment. `steady` says that what is shown came in pages of the size the client counts in, and that
later pages will too: it is decided at every stop, and lost when the engine is told another size
(`SetsMaxChildren`) or the setting changes. Of the first stop the properties therefore promise
something only where the engine's own size is the client's; elsewhere its children may be repeated
or never shown. Here the user waits for the end of a list before opening a row, and for one
property before asking for the next; that they may not is DbgpSession's matter. Names may be hidden (`CLASSNAME`): the client does not append them,
but counts them, and the engine counts them too.

**XdebugStr.** `l`, `a` and the bytes at `d`, with JUNK where nothing was written; `realloc`
keeps what was there. It implements **Text**, which knows no memory.
**UsefulStuff.** The helpers as functions of sequences of bytes.

## 3. Runs

| run | user | what it asks | result |
|---|---|---|---|
| `any_user` | impatient | what no order of clicks, refusals and lost connections can break | 8 properties hold, 1.4 million states |
| `patient` | patient | do answers meet their handlers, do the views agree with the script, does the session implement `RequestReply`, does every request come to an end | 10 properties hold, 0.55 million states |
| `whole_frames` | | do documents that fit arrive whole, once, in order and eventually when frames are cut only within their XML | `PacketFraming` implements `DocumentChannel`, 3000 states |
| `any_segments` | | what is left of this when the stream is cut anywhere, documents come together or are too long | order, and connections kept apart; 142 thousand states |
| `sockets` | opens rows, presses buttons | what is left when two connections are open at once: watches, commands, memory | 4 properties hold, 1.5 million states |
| `variable_view` | opens rows, edits settings | are children shown once, in order and all, in any order of opening and paging, where both sides count in pages of one size; does the dialog keep what was not edited and its widgets hold | 3 properties hold, 1.5 million states |
| `xml_tree` | | is the tree the one the document describes, and is every node written and freed once | `XmlTree` implements `DocumentTree`, 40 thousand states |
| `linked_list` | | do links, ends and size agree after any operations | `XdebugLlist` implements `ValueList`, 2300 states |
| `hash_table` | | is a key found exactly until it is replaced or deleted, each value visited once and destroyed once | `XdebugHash` implements `KeyValueMap`, 4400 states |
| `strings` | | is a text kept by growing memory, by splitting and joining, by encoding and decoding | `XdebugStr` implements `Text`, 6500 states |
| `unconnected_click` | impatient | is a button without a connection ignored, as `src/Changelog:40` says | violated: a finding |
| `zero_children` | edits settings | is a page count calculated for all arrays, as `src/Changelog:70` says | violated: a finding |

**Why two users.** The buttons stay active while their command is outstanding and the
selection callbacks do not ask `buttons_active`, so an impatient user can make the client
hand the stack it is sent to the function that shows variables. This is what the code
does, and what it can promise such a user is only what `any_user` checks. What the
program is for (`ViewsAgree` and the rest) is stated for the user who waits.

**Bounds.** Two files, so that a page may be there or missing; stacks of one and two
frames, so that there is a frame to select, in the other file; one or two variables, two
where a property tells them apart; two connections where something outlives a session (pages, arrows,
freed state), else one; two clicks for the impatient user (the second arrives at every
point of the first's handling), three for the patient one (step, select a frame, open a
variable). Every list item, every skip both taken and not, and both sides of `process_jump`
occur. `CHECK_DEADLOCK FALSE`: a run ends when the bounds on clicks and connections are
used up, and when the process has died.
Stacks of more than 128 frames, where `last_selected_stack_frame` (a `char`) wraps, are
outside the bounds of the runs, and of the theorems about views.

*Framing.* `whole_frames`: a buffer of 8 bytes and lengths of two digits, so that the
largest document (7) needs two reads and just fits with its NUL; the sizes leave out
`BufSize - Digits - 1`, where header and XML exactly fill the read buffer and the trailing
NUL is left for the next read. `any_segments`: a buffer of 4, lengths of one digit, documents
of 1 and 2 (the size just named), and of 4 and 6 bytes, which overrun. Three documents on up to two connections in both: one
before, one after and one across a boundary. Behind a lost boundary a chunk may begin in the middle of a
document; what `strtol` reads there is any of the sizes or 0.

*Data structures.* `xml_tree`: four nodes show every shape in which a child can be first, later or
below another; a stack of three shows its last place used and the one behind it.
`linked_list`: four elements, so that an operation in the middle has neighbours that are
not the ends. `hash_table`: three keys in one slot, two of them with the same value and
different types, one key in another slot; one value more than the callers can replace at once.
The list never deadlocks; the table stops when it is destroyed, the tree when it is returned.

*Sockets.* Two connections: a third meets nothing that two do not. Commands of one byte and a NUL,
so that a write can be short or empty; two commands each, so that a short one is followed by another.
`CHECK_DEADLOCK FALSE`: both connections may be over, and the program may end.

*View and settings.* `variable_view`: an object of four members, one hidden and one an array of three,
in pages of one and two and to a depth of 0 to 2, so that rows are cut off, paged, nested and
complete; an engine that begins with pages of two and a depth of 1, so that the first stop agrees with
some of the settings and not with others, and later stops with all that nobody changed; two sessions, two stops, five fetches, two
edits; spin buttons of range 0..2, wide enough to hold the settings of the run; room for two digits
in the entry for the port (`PortLimit` 100), so that the -3 that `-p` may set does not fit it, and a `max_string_length` of -1, which its entry
does hold and gives back through `%u`, `strtol` and a `gint`. `zero_children` gives them the range they have (`gtkdbgp.xml:632` has no adjustment,
so 0..0) and the defaults of `main`.

*Strings.* Memory that grows by two bytes more than is asked (1024 in the code), texts of up to five
bytes: growth in place of every size and in every order; the helpers are tried on all the texts
that arise, made of the bytes their branches tell apart.

**What the engines of the runs may do.** `any_user`: refuse sources and
stacks, end scripts before any stop. `patient`: refuse `step_over` and `property_get`, which
no list depends on, and stop at least once; with refused sources the client
dereferences null (198: `message->text` of an error reply is null), and a script that never
stops makes it ask for the source of "(null)" (163).

**Fairness.** Weak fairness of the socket callbacks and of the list loop: GLib's main loop
calls a ready callback and a callback runs to its end. Weak fairness of the engine: it
answers what it has read, and scripts stop or end. None of the user, of new connections, or of
failures. Where a wrapper without a return has just stopped the loop with no command issued
(`FellOff`), the client waits for ever, and `ComesToRest` and `WaitsForAnAnswer` except
that case, so that they say it is the only one. `Sockets` assumes weak fairness of the callbacks of
each connection, and nothing of the engine.
`whole_frames` assumes that bytes under way arrive and that a readable socket is read.

**The findings.** `process_a_button` reads `client_state->nr_of_stack_frames` (700) before it
asks whether `client_state` is set (716); and `clientstate_delete` resets only its own
parameter (1129), so that after a lost connection the later check would not help either. `Sockets`
has the same callback beside a second connection: `SoleConnectionIsSafe` excepts exactly the button
pressed when the sole connection is over.

`add_property` divides by the setting `max_children` (430). The spin button for it has no
adjustment in `gtkdbgp.xml`, so its range is 0..0: opening the settings loads 0 whatever was
set, OK saves 0, and the next property with children ends the program. `main` puts the
default back, but only at the next start.

## 4. Proofs

Every theorem holds for all values of the constants that satisfy the assumptions named
in the modules that declare them, and, where a table or a paragraph says so, under hypotheses of its own.

### The client by itself: `DbgpSessionProofs`

It proves for all files, variables, stacks, refusals, users and bounds:

| theorem | property |
|---|---|
| `Typing` | `TypeOK` |
| `PointerStaysInList` | `PointerInList` |
| `WatchMatchesCommand` | `OutIffCommand` (proved only) |
| `SelectionsAreConnected` | `RowsOnlyWhenConnected` |
| `PagesAreUnique` | `OnePagePerFile` |
| `FetchesFindTheirRow` | `FetchRowIsShown` |

*The inductive invariant* `IInv` adds three facts to these six, because none of them is
inductive alone: `ListMatchesState` (the pointer and `server_state` speak of the same list,
without which "inside its list" says nothing after a click), `Reading` (a document is only
processed on an open connection, with a document, by a list) and `HintsAreRows` (a
row that can be clicked is a row of the view; hence the row remembered for a fetch is one).

*The argument.* The lists are constants: `ListsGood` computes, for every item of every
list, that its successor is in the list, also after the skip of a selecting item or the
masked jump. `DispatchKeeps` says what an item has to leave behind for `IInv` to survive,
`CallbackKeeps` and `ClickKeeps` the same for the other callbacks, and one lemma per action shows that it does.
`FetchStarts` and `FetchedPlace` are the facts that the row to hang children under
cannot be lost: the variable view is only refilled by lists that end the fetch.
`Inductive` collects the actions, `Invariance` adds time.

*Assumptions*: `NULL` is no file, variable or command (`WireAssumption`,
`NullAssumption`), there is a variable, stacks are not empty sequences of files
(`EngineAssumption`), `FallOff` is a set of the two values (`FallOffAssumption`), and the types of the bounds.

### What is under way: the second part of `DbgpSessionProofs`

| theorem | property | assumes |
|---|---|---|
| `WaitingIsOwed` | `WaitsForAnAnswer` | |
| `IdsIncrease` | `TidsIncrease` | |
| `TakingTurns` | | a user who waits (`Patient`) |
| `OneAtATime` | `LockStep` | `Patient` |
| `SessionIsRequestReply` | `AlternatesRequests`: the session implements `RequestReply` | `Patient` |

Dozens of actions move a command or a document, but in few ways. `StepKinds` reduces every
step of the session to one of ten kinds (an item goes on or asks, a document is received, a
command written, a connection opened or lost, the engine answers, halts or vanishes), and
the theorems look at kinds only. For `IdsIncrease` the invariant `InOrder` puts everything that carries an
id in one order: the answer being processed, the documents, the command a running engine owes
an answer to, the commands it has not read, the one not yet written. For a patient user `Turns`
says that at most one of these places holds anything (`OnePlace`) and that it is the answer
to the last command that is outstanding (`Due`); the refinement follows, with one lemma per kind of step.

### What is shown: its third part

| theorem | property | assumes |
|---|---|---|
| `PagesAreFetchedOnce` | `FetchesOnlyNewFiles` | |
| `PagesShowTheirFiles` | `PageShowsItsFile` | `Patient` |
| `ChildrenAreTheirOwn` | `KidsUnderTheirParent` | `Patient` |
| `HandlersGetTheirReplies` | `HandlerGetsItsReply` | `Patient`, `Cooperative` |
| `ArrowMarksTheStop` | `OneArrowPerSession` | `Patient`, `Cooperative` |
| `ViewsShowTheStop` | `ViewsAgree` | `Patient`, `Cooperative`, contexts not refused |
| `PatientUsersDoNotCrash` | `NoCrash` | `Patient`, `Cooperative`, sources not refused |
| `SessionsAreConfigured` | `SessionConfigured` | `Patient`, `Cooperative`, breakpoints and features not refused |

*Assumptions.* `Cooperative` says that scripts stop before they end, that `step_into` and `stack_get`
are not refused, and that no stack is deeper than 128 frames. All assumptions hold in the run `patient`, and
each names a way in which the code does go wrong. A script that never stops, or a refused
`step_into`, leaves the first list asking for the stack of a script that is not at a stop. A refused
`stack_get` leaves the lists without the frames they work on. Levels are kept in a `char`, and 128
frames are what it can tell apart. The text of a refused source is dereferenced (198). A refused
`context_get` leaves nothing to show, and refused breakpoints and features cannot be set.

*The argument.* An answer names neither the request nor the widget it is meant for, so
the proofs go by places in lists. The lemmas from `InitialPlaces` on compute which item stands where; `StepEffects`
says of every step what it does to the documents and to what is shown, and the theorems rest on it alone.
`NewFiles` (a `source` is only under way for a file without a page) gives the first theorem. With a patient
user, `Conversation` says what is being asked and what the next document answers, at every
place. `PhaseOK` relates the place to where the script is. `UpToDate` says that the answer under way was made
at this stop and level, and `Shown` what the stack, pages, arrow and variables show by then: the
set of places of each is named (`StackPlace` to `VarsPlace`), and each ends in `Calm`, the
user having the stop before him. `ArrowsCounted` allows one arrow for every session before
this one. `Configured` says which settings the engine has acknowledged at which place.

### Below and beside the session

`PacketFramingProofs` proves for all document and buffer sizes, wherever the stream is cut:
`Typing` (`TypeOK`, with `current_pos` inside the buffer), `DocumentsInOrder`
(`HandedInOrder`) and `ConnectionsApart` (`NoLeftovers`). What was handed over says
nothing about what will be, so the invariant `IInv` there orders everything: handed over
before collected before readable before under way (`PiecesInOrder`,
`HandedComesFirst`), and all of it sent on this connection (`SentOnThisConnection`).
The lemmas from `SubSeqWithin` to `FrameIsNew` say what stretches of bytes keep when
they are cut and joined, and `ReceivedKeeps` is the step both kinds of read share.

Under `FramesKeptTogether` it proves `ReadsWithoutFault` (no underflow, no overrun)
and `DocumentsAreDelivered` (`DeliversDocuments`: the framing implements `DocumentChannel`). The
assumption is that of the run `whole_frames`, in four parts, each needed by the code: frames are cut only within their
XML (a length cut short is a wrong length, and a NUL cut off is read as a packet of its own), a
document is sent once the one before is used (what follows in the same read is dropped), the
header fits the first read and the document the buffer, and the first read does not end
between a document and its NUL (`size # BufSize - Digits - 1`). The invariant `OneByOne`: either all was handed over
and nothing is on its way, or the last document is under way, its first `a` bytes arrived and
`r` of them read, and wire, socket and buffer are those stretches of its frame.

`XdebugLlistProofs` proves for any addresses and values, and so for lists of any length:
`Typing` (`TypeOK`: no link leads to a freed element) and `ListStaysLinked`
(`WellLinked`). `WellLinked` speaks of neighbours only and is not inductive: a list of one
element beside a ring of two satisfies it, and does not after that element is removed. So
`IInv` gives every element a place between head and tail that its neighbours' places agree
with (`InPlace`). Both insertions are one statement, `Inserted` between two neighbours or an
end; `InsertedKeeps` and `RemovedKeeps` move the places, and `WritesInserted` and
`RemovesKeeps` show that the code's assignments do what those say. `ListIsASequence`
(`ImplementsList`: `XdebugLlist` implements `ValueList`) adds that the walk by `jump_head` finds at each
place the element that `InPlace` puts there; the values in that order are then the abstract sequence, and an
insertion or removal shifts the places as `ValueList` shifts its sequence.

`StringHelpersProofs` proves for any bytes, strings and growth: `StaysInside`
(`TerminatedInside`) and `Refinement` (`ImplementsText`: `XdebugStr` implements `Text`). The invariant
says that `d` has exactly `a` bytes, that the first `l` are of the text and the next is NUL;
`Inductive` shows in one go that each step keeps it and is a step of the abstract text. Of every text the
buffer holds it proves `SplitsRight` (`SplitsAtDelimiters`) and `RoundTrip` (`UrlRoundTrip`).
`explode` and the decoder begin again behind what they used, so the facts about them run from the end of the text
(`Backwards`): what the decoder does with the rest is known before what it does with the escape in front of it.
For the pieces the number left (the limit) goes down as the text does, and both are in the induction.

`XmlTreeProofs` proves for documents of any number of elements, attributes and texts, nested in any way up to the
stack: `NodesOnce` (`EachNodeOnce`), `EncodingWins` (`EngineEncodingWins`, which rests on the engine writing each name
once in an element, as XML demands: `NamesOnce`) and `TreeIsTheDocument` (`ImplementsTree`: the tree
implements `DocumentTree`). The last assumes `~ SplitsText`, as the run `xml_tree` does: a text
that libxml reports in pieces is not kept. The invariant relates the links to a tree given
independently of them: which node is whose parent, its children in order, and how far the
subtree of each reaches in the order of opening (`ends`). The walks that write and free are
shown to visit exactly that stretch, each node once.

`VariableViewProofs` proves for any variables, nested in any way, pages of any size and any depth the engine
goes by, as long as what is shown came in pages of the size the client counts in (`steady`, in the
properties themselves: from the second stop of a session until `max_children` changes, and at the first if the engine begins with the client's size): `PagesAreInOrder` (`ChildrenInOrder`), `NothingIsLeft` (`NothingLeftBehind`), `PagesHoldTheChildren`
(`PagesCounted`, proved only: with no division by zero, page counts are right, which is the part of
`PageCountForAllArrays` that the finding leaves) and, of the settings,
`UntouchedSettingsStay` (`OkKeepsTheRest`). `ChildrenInOrder` is not inductive, since a prefix may be one too short for the
page that comes. So `IInv` says how many children a row has been given (`Fetched`: whole
pages, or all), that the rows below it are exactly those of them that are not hidden (`InPlace`), and what the hint
must be while not all were given (`Hints`, `NoneLeft`); a row may offer its first page again where the
engine was told to go no deeper than the first stop did, which `Hints` and `NextPage` allow for a depth of 0
(`Told`). That a page joins those before it
rests on `ShownConcat`: what is shown of a list is what is shown of its parts. `AllLevels` says of every
level of `Nesting` that its rows are new and below one of the level above, `AddedIsHung` that `add_property` is then
`Hung`, and `StoreKept` that this keeps the invariant for old rows and new.
*Assumptions*: the constants are sequences of variables and `NULL` is no request or session (`ViewAssumption`), and no size of a page is
negative (`SizeAssumption`): the spin button cannot set one, and `main` does not. A size of 0 is
allowed, and is why the theorems speak of the rows there are when the division stops the program.
For the settings `PrefInv` says that what a widget holds is read as a gint (`GivesBack`), and that an untouched one
holds what its setting became; `ReadsBack` that a number survives the way there and back if its widget can hold it
(`FitsWidget`), for the entry of the port by `DigitsFit`, which says when dropping digits drops none.

`XdebugHashProofs` proves for any keys, slots, values and ways of hashing, with and without a destructor:
`NoneFreedInUse` (`NoneDestroyedInUse`) and `Refinement` (`ImplementsMap`). A search looks at one
chain and stops at its first match, so the invariant says that a key is in its own slot (`KeysInSlots`) and there once
(`KeysOnce`); that no value is found under two keys (`OneKeyEach`), or its destructor
would free what another key finds; and that the size is the number of elements
(`Counted`). `Puts` and `Deletes` are the two ways in which an operation changes what is found.

`SocketsProofs` proves for any number of connections, commands and bytes: `WatchesMatch`
(`OneWatchEach`), `OneAtATimeIsSafe` (`SoleConnectionIsSafe`) and `CommandsStayWhole` (`WholeCommandsInOrder`). `WatchInv` says that the sources are
the watches of the open connections and that no id is used twice or will be (without which
`g_source_remove` could take the watch of another); `GlobalInv` that, until two
connections were open together, the global is the open one, rows are its own, and what it fetches
has a path; so rows, documents and the buttons of an open connection are safe, and only a button
pressed when it is over is not, which the theorem says as well. `Rewatching` is the lemma that all three places share where a watch is replaced. `CommandInv` adds to
`WholeCommandsInOrder` that nothing is under way where there was no connection yet; the lemmas before `CommandsInductive` say at
which places of a stream the bytes of a command are, before and after one is read or appended.

### Induction over data

What a walk, a split or a page does to data of any size needs an induction over it. The
library's induction theorems cannot be cited here, and RECURSIVE operators cannot be reasoned about, so
the models define these functions recursively (`f[i \in S] == ...`), and the proofs do two
things for each. They show that there is such a function, by building it one place further at
a time (`KeptExists`, `NestingExists` and their like); its values are then what the definition says. And they prove facts about all places by contradiction
with the least place at which they fail (`Least`, from `WFMin` and the order of the natural numbers;
`Upwards`, `Backwards` are that argument for sets of numbers that hold 0 and each successor, or an end
and each predecessor).

### Only model-checked

* liveness (`ComesToRest`, `EveryDocumentArrives`, `EveryConnectionServed`): TLAPS does not reason
  about fairness here. Every other property of a run that passes is a theorem.

## 5. Not modelled, and the plan

Not modelled, with the reason:

* the layout of widgets and text, icons and windows (`main.c` after its settings, `support.c`,
  `gtkdbgp.xml`): no state of the program's own;
* the breakpoint window (`callbacks.c`): `gtkdbgp.xml` has no such window and connects none of
  its handlers, so the code cannot run;
* `xdebug_sprintf`: a loop that grows a buffer until `vsnprintf` fits, of no state of its own;
* the buffered line reader, `xdebug_path_from_url`, `xdebug_get_utime`, `xdebug_crc32`: no callers;
* base64 and facets, class names and columns of a property: display only;
* the older copy of the XML reader under `src/src/xmlparser`, which is not linked into the
  program, and build files.

Left out of modules that are there, since the program does not do it: exploding with an empty
delimiter (it would not end), chopping a string never added to (it would write through
NULL), and a `CLASSNAME` that the engine did not count among the children (its row would come to
an end one child early at the edge of a page).

Modules abstract from each other: in DbgpSession there is one connection at a time, documents and commands
are whole, and variables come in one page; PacketFraming, Sockets and VariableView say when
that is what happens.

What is left is a composition of PacketFraming with DbgpSession, in which a document lost at a boundary makes
the client wait: `DocumentsAreDelivered` joins the two for frames kept together, and the case
in which they are not is described by `any_segments` alone.
