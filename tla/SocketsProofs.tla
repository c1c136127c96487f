---------------------------- MODULE SocketsProofs ---------------------------
(***************************************************************************)
(* For any number of connections, of commands and of bytes: an open        *)
(* connection has exactly the watch its ClientState knows; rows and        *)
(* documents use nothing that was freed unless two connections were open   *)
(* together, nor do buttons while a connection is open; and where no write *)
(* is short, commands reach their engine whole and in order.               *)
(***************************************************************************)
EXTENDS Sockets, TLAPS

ClientStates ==
    [ life : {"none", "open", "freed"}, watch : Nat, out : BOOLEAN,
      command : Nat \cup {NULL}, tid : Nat, fetching : BOOLEAN ]

TypeInv ==
    /\ state \in [Conns -> ClientStates]
    /\ path \in [Conns -> {"none", "set", "freed"}]
    /\ next_id \in Nat
    /\ overlapped \in BOOLEAN

WatchOf(c) == [id |-> state[c].watch, conn |-> c, out |-> state[c].out]

(* The sources are the watches of the open connections, and no id is used  *)
(* twice.                                                                  *)
WatchInv ==
    /\ sources = {WatchOf(c) : c \in Opened}
    /\ \A c \in Opened : state[c].watch < next_id
    /\ \A c, e \in Opened : state[c].watch = state[e].watch => c = e

(* As long as no two connections were open together, the global is the one *)
(* that is, rows are shown only for it, and what it fetches has a path.    *)
GlobalInv ==
    overlapped
    \/ /\ \A c \in Opened : c = global
       /\ view # NULL => global \in Opened
       /\ \A c \in Opened : state[c].fetching => path[c] = "set"
       /\ ended \notin {"use_after_free", "no_path"}
       /\ ended = "freed_button" => Opened = {}

(* Where the global points once a connection was made. *)
PointerInv == global \in Conns \/ (global = NULL /\ Opened = {} /\ view = NULL)

IInv == TypeInv /\ WatchInv /\ GlobalInv /\ PointerInv
-----------------------------------------------------------------------------
(* The invariant says what OneWatchEach says. *)
LEMMA WatchesAreTheirs == IInv => OneWatchEach
<1> SUFFICES ASSUME IInv PROVE OneWatchEach
  OBVIOUS
<1>1. ASSUME NEW c \in Opened
      PROVE  {w \in sources : w.conn = c} = {WatchOf(c)}
  <2>1. WatchOf(c) \in sources /\ WatchOf(c).conn = c
    BY DEF IInv, WatchInv, WatchOf
  <2>2. ASSUME NEW w \in sources, w.conn = c PROVE w = WatchOf(c)
    <3>1. PICK e \in Opened : w = WatchOf(e)
      BY DEF IInv, WatchInv
    <3>2. e = c
      BY <2>2, <3>1 DEF WatchOf
    <3> QED  BY <3>1, <3>2
  <2> QED  BY <2>1, <2>2
<1>2. ASSUME NEW w \in sources PROVE w.conn \in Opened
  <2>1. PICK e \in Opened : w = WatchOf(e)
    BY DEF IInv, WatchInv
  <2> QED  BY <2>1 DEF WatchOf
<1> QED  BY <1>1, <1>2 DEF OneWatchEach, WatchOf

(* A source belongs to an open connection. *)
LEMMA SourceIsOpen ==
    ASSUME IInv, NEW w \in sources
    PROVE  w.conn \in Opened /\ w.conn \in Conns /\ w = WatchOf(w.conn)
<1>1. PICK e \in Opened : w = WatchOf(e)
  BY DEF IInv, WatchInv
<1> QED  BY <1>1 DEF WatchOf, Opened

(* Replacing a watch leaves every open connection with one. *)
LEMMA Rewatching ==
    ASSUME IInv, NEW c \in Opened, NEW s \in ClientStates, s.life = "open",
           NEW dropped \in SUBSET {WatchOf(c)}, Rewatches(c, s, dropped)
    PROVE  /\ WatchInv'
           /\ state' \in [Conns -> ClientStates] /\ next_id' \in Nat
           /\ Opened' = Opened
           /\ state'[c].fetching = s.fetching
           /\ \A e \in Conns : e # c => state'[e] = state[e]
<1> DEFINE t == [s EXCEPT !.watch = next_id]
<1>1. c \in Conns /\ state[c].life = "open" /\ next_id \in Nat /\ state \in [Conns -> ClientStates]
  BY DEF Opened, IInv, TypeInv
<1>2. t \in ClientStates /\ t.life = "open" /\ t.watch = next_id /\ t.out = s.out
      /\ t.fetching = s.fetching
  BY <1>1 DEF ClientStates
<1>3. state' = [state EXCEPT ![c] = t] /\ next_id' = next_id + 1
      /\ sources' = WatchRemoved(sources \ dropped, c) \cup {Watch(c, s.out)}
  BY DEF Rewatches
<1> HIDE DEF t
<1>4. state' \in [Conns -> ClientStates] /\ next_id' \in Nat /\ state'[c] = t
      /\ \A e \in Conns : e # c => state'[e] = state[e]
  BY <1>1, <1>2, <1>3
<1>5. Opened' = Opened
  BY <1>1, <1>2, <1>4 DEF Opened
<1>6. WatchOf(c)' = Watch(c, s.out)
  BY <1>2, <1>4 DEF WatchOf, Watch
<1>7. \A e \in Opened : e # c => WatchOf(e)' = WatchOf(e)
  BY <1>4 DEF WatchOf, Opened
<1>8. \A e \in Opened : e # c => WatchOf(e) # WatchOf(c) /\ WatchOf(e).id # state[c].watch
  BY DEF WatchOf, IInv, WatchInv
<1>9. WatchOf(c).id = state[c].watch
  BY DEF WatchOf
<1>10. WatchRemoved(sources \ dropped, c) = {WatchOf(e) : e \in Opened \ {c}}
  BY <1>8, <1>9 DEF WatchRemoved, IInv, WatchInv
<1>11. sources' = {WatchOf(e)' : e \in Opened}
  BY <1>3, <1>6, <1>7, <1>10
<1>12. \A e \in Opened : state'[e].watch < next_id'
  <2> TAKE e \in Opened
  <2>1. e \in Conns /\ state[e].watch \in Nat /\ state[e].watch < next_id
    BY <1>1 DEF Opened, ClientStates, IInv, WatchInv
  <2> QED  BY <2>1, <1>1, <1>2, <1>3, <1>4
<1>13. \A e, f \in Opened : state'[e].watch = state'[f].watch => e = f
  <2> TAKE e \in Opened, f \in Opened
  <2>1. /\ e \in Conns /\ state[e].watch \in Nat /\ state[e].watch < next_id
        /\ f \in Conns /\ state[f].watch \in Nat /\ state[f].watch < next_id
        /\ state[e].watch = state[f].watch => e = f
    BY <1>1 DEF Opened, ClientStates, IInv, WatchInv
  <2> QED  BY <2>1, <1>1, <1>2, <1>4
<1>14. WatchInv'
  BY <1>5, <1>11, <1>12, <1>13 DEF WatchInv
<1> QED  BY <1>2, <1>4, <1>5, <1>14

(* So does the callback, whether the flags changed or not. *)
LEMMA Updating ==
    ASSUME IInv, NEW c \in Opened, NEW s \in ClientStates, s.life = "open",
           s.watch = state[c].watch, Updates(c, s, WatchOf(c))
    PROVE  /\ WatchInv'
           /\ state' \in [Conns -> ClientStates] /\ next_id' \in Nat
           /\ Opened' = Opened
           /\ state'[c].fetching = s.fetching
           /\ \A e \in Conns : e # c => state'[e] = state[e]
<1>1. CASE s.out # state[c].out
  <2>1. Rewatches(c, s, {WatchOf(c)})
    BY <1>1 DEF Updates
  <2> QED  BY <2>1, Rewatching
<1>2. CASE s.out = state[c].out
  <2>1. state' = [state EXCEPT ![c] = s] /\ sources' = sources /\ next_id' = next_id
    BY <1>2 DEF Updates
  <2>2. c \in Conns /\ state[c].life = "open" /\ next_id \in Nat /\ state \in [Conns -> ClientStates]
    BY DEF Opened, IInv, TypeInv
  <2>3. state' \in [Conns -> ClientStates] /\ state'[c] = s
        /\ \A e \in Conns : e # c => state'[e] = state[e]
    BY <2>1, <2>2
  <2>4. Opened' = Opened
    BY <2>2, <2>3 DEF Opened
  <2>5. \A e \in Opened : WatchOf(e)' = WatchOf(e) /\ state'[e].watch = state[e].watch
    BY <1>2, <2>3 DEF WatchOf, Opened
  <2>6. sources' = {WatchOf(e)' : e \in Opened}
    BY <2>1, <2>5 DEF IInv, WatchInv
  <2>7. WatchInv'
    BY <2>1, <2>4, <2>5, <2>6 DEF WatchInv, IInv
  <2> QED  BY <2>1, <2>2, <2>3, <2>4, <2>7
<1> QED  BY <1>1, <1>2
-----------------------------------------------------------------------------
Paths == [Conns -> {"none", "set", "freed"}]

(* A call of the callback that leaves s behind. *)
LEMMA CallingBack ==
    ASSUME IInv, Running, NEW c \in Opened, NEW s \in ClientStates, s.life = "open",
           s.watch = state[c].watch, Updates(c, s, WatchOf(c)),
           s.fetching => state[c].fetching /\ path' = path,
           path' \in Paths, view' = view \/ view' = c,
           UNCHANGED <<global, overlapped, ended>>
    PROVE  IInv'
<1>1. /\ WatchInv'
      /\ state' \in [Conns -> ClientStates] /\ next_id' \in Nat
      /\ Opened' = Opened
      /\ state'[c].fetching = s.fetching
  BY Updating
<1>2. TypeInv'
  BY <1>1 DEF IInv, TypeInv, Paths
<1>3. PointerInv'
  BY DEF IInv, PointerInv
<1>4. CASE overlapped
  BY <1>1, <1>2, <1>3, <1>4 DEF IInv, GlobalInv
<1>5. CASE ~ overlapped
  <2>1. /\ \A e \in Opened : e = global
        /\ view # NULL => global \in Opened
        /\ \A e \in Opened : state[e].fetching => path[e] = "set"
    BY <1>5 DEF IInv, GlobalInv
  <2>2. view' # NULL => global' \in Opened'
    BY <1>1, <2>1
  <2>3. \A e \in Opened' : state'[e].fetching => path'[e] = "set"
    BY <1>1, <2>1
  <2>4. ended' = "no"
    BY DEF Running
  <2> QED  BY <1>1, <1>2, <1>3, <2>1, <2>2, <2>3, <2>4 DEF IInv, GlobalInv
<1> QED  BY <1>4, <1>5

(* Issuing a command, and being done with one, change nothing else. *)
LEMMA Issuing ==
    ASSUME NEW s \in ClientStates
    PROVE  /\ Issued(s) \in ClientStates
           /\ Issued(s).life = s.life /\ Issued(s).watch = s.watch
           /\ Issued(s).fetching = s.fetching
<1>1. s.tid + 1 \in Nat
  BY DEF ClientStates
<1> QED  BY <1>1 DEF ClientStates, Issued

(* A write changes no other field. *)
LEMMA Writing ==
    ASSUME NEW s \in ClientStates, NEW n \in Nat
    PROVE  /\ Written(s, n) \in ClientStates
           /\ Written(s, n).life = s.life /\ Written(s, n).watch = s.watch
           /\ Written(s, n).fetching = s.fetching
  BY DEF ClientStates, Written

(* It may take any number of the bytes of a command. *)
LEMMA BytesTaken ==
    ASSUME NEW c \in Conns, NEW s, NEW watch, Writes(c, s, watch)
    PROVE  \E n \in Nat : Updates(c, Written(s, n), watch)
  BY SocketsAssumption DEF Writes

(* What a document leaves behind is a ClientState that fetches nothing. *)
LEMMA Processing ==
    ASSUME IInv, NEW c \in Opened, NEW s \in Processed(c)
    PROVE  s \in ClientStates /\ s.life = "open" /\ s.watch = state[c].watch /\ ~ s.fetching
<1> DEFINE t == state[c]
<1>1. t \in ClientStates /\ t.life = "open"
  BY DEF Opened, IInv, TypeInv
<1>2. CASE t.fetching
  <2>1. s = [t EXCEPT !.fetching = FALSE]
    BY <1>2 DEF Processed
  <2> QED  BY <1>1, <2>1 DEF ClientStates
<1>3. CASE ~ t.fetching
  <2>1. s = t \/ s = Issued(t)
    BY <1>3 DEF Processed
  <2>2. Issued(t) \in ClientStates /\ Issued(t).life = "open" /\ Issued(t).watch = t.watch
        /\ Issued(t).fetching = t.fetching
    BY <1>1, Issuing
  <2> QED  BY <1>1, <1>3, <2>1, <2>2
<1> QED  BY <1>2, <1>3

(* A row taken leaves paths, and what a document shows is this connection's. *)
LEMMA Taking ==
    ASSUME IInv, NEW c \in Conns, Takes(c)
    PROVE  path' \in Paths /\ (view' = view \/ view' = c)
<1>1. path' \in Paths
  <2>1. path \in Paths
    BY DEF IInv, TypeInv, Paths
  <2>2. path' = path \/ path' = [path EXCEPT ![global] = "freed"]
    BY DEF Takes, RowTaken
  <2> QED  BY <2>1, <2>2 DEF Paths
<1>2. view' = view \/ view' = c
  BY DEF Takes, Shown
<1> QED  BY <1>1, <1>2

(* What the invariant looks at does not change. *)
LEMMA Standing ==
    ASSUME IInv, UNCHANGED <<client, overlapped>>, ended' \in {ended, "exit", "null_dereference"}
    PROVE  IInv'
  BY DEF client, IInv, TypeInv, WatchInv, GlobalInv, PointerInv, WatchOf, Opened

(* Reading, writing, or both. *)
LEMMA Serving ==
    ASSUME IInv, Running, NEW watch \in sources, Serves(watch)
    PROVE  IInv'
<1> DEFINE c == watch.conn
<1>1. c \in Opened /\ c \in Conns /\ watch = WatchOf(c)
  BY SourceIsOpen
<1>2. state[c] \in ClientStates /\ state[c].life = "open"
  BY <1>1 DEF Opened, IInv, TypeInv
<1> HIDE DEF c
<1>3. CASE ReadsOnly(watch)
  <2>1. Takes(c) /\ UNCHANGED <<global, overlapped, ended>>
    BY <1>3 DEF ReadsOnly, history, c
  <2>2. PICK s \in Processed(c) : Updates(c, s, WatchOf(c))
    BY <1>1, <1>3 DEF ReadsOnly, c
  <2>3. s \in ClientStates /\ s.life = "open" /\ s.watch = state[c].watch /\ ~ s.fetching
    BY <1>1, Processing
  <2> QED  BY <1>1, <2>1, <2>2, <2>3, Taking, CallingBack
<1>4. CASE WritesOnly(watch)
  <2>1. Writes(c, state[c], WatchOf(c)) /\ UNCHANGED <<global, path, view, overlapped, ended>>
    BY <1>1, <1>4 DEF WritesOnly, c
  <2>2. PICK n \in Nat : Updates(c, Written(state[c], n), WatchOf(c))
    BY <1>1, <2>1, BytesTaken
  <2>3. path' \in Paths
    BY <2>1 DEF IInv, TypeInv, Paths
  <2>4. /\ Written(state[c], n) \in ClientStates
        /\ Written(state[c], n).life = "open" /\ Written(state[c], n).watch = state[c].watch
        /\ Written(state[c], n).fetching = state[c].fetching
    BY <1>2, Writing
  <2> QED  BY <1>1, <2>1, <2>2, <2>3, <2>4, CallingBack
<1>5. CASE ReadsAndWrites(watch)
  <2>1. Takes(c) /\ UNCHANGED <<global, overlapped, ended>>
    BY <1>5 DEF ReadsAndWrites, c
  <2>2. PICK s \in Processed(c) : Writes(c, s, WatchOf(c))
    BY <1>1, <1>5 DEF ReadsAndWrites, c
  <2>3. s \in ClientStates /\ s.life = "open" /\ s.watch = state[c].watch /\ ~ s.fetching
    BY <1>1, Processing
  <2>4. PICK n \in Nat : Updates(c, Written(s, n), WatchOf(c))
    BY <1>1, <2>2, BytesTaken
  <2>5. /\ Written(s, n) \in ClientStates
        /\ Written(s, n).life = "open" /\ Written(s, n).watch = state[c].watch
        /\ ~ Written(s, n).fetching
    BY <2>3, Writing
  <2>6. path' \in Paths /\ (view' = view \/ view' = c)
    BY <1>1, <2>1, Taking
  <2> QED  BY <1>1, <2>1, <2>4, <2>5, <2>6, CallingBack
<1>6. CASE ReadsIntoNoRow(watch)
  <2>1. RowLost(c) /\ UNCHANGED <<client, engines, history>>
    BY <1>6 DEF ReadsIntoNoRow, Ends, c
  <2>2. overlapped
    <3> SUFFICES ASSUME ~ overlapped PROVE FALSE
      OBVIOUS
    <3>1. c = global /\ (state[c].fetching => path[c] = "set")
      BY <1>1 DEF IInv, GlobalInv
    <3> QED  BY <1>2, <2>1, <3>1 DEF RowLost
  <2> QED  BY <2>1, <2>2 DEF client, history, IInv, TypeInv, WatchInv, GlobalInv, PointerInv, WatchOf, Opened
<1>7. CASE WritesNoCommand(watch)
  <2>1. UNCHANGED <<client, history>> /\ ended' = "null_dereference"
    BY <1>7 DEF WritesNoCommand, Ends
  <2> QED  BY <2>1, Standing DEF history
<1> QED  BY <1>3, <1>4, <1>5, <1>6, <1>7 DEF Serves

(* Accepting: one more open connection, with a watch of a new id. *)
LEMMA Accepting ==
    ASSUME IInv, Running, NEW c \in Conns, async_accept(c)
    PROVE  IInv'
<1> DEFINE n == NewState(next_id)
<1>1. /\ state \in [Conns -> ClientStates] /\ next_id \in Nat /\ state[c].life = "none"
      /\ state' = [state EXCEPT ![c] = n] /\ next_id' = next_id + 1 /\ global' = c
      /\ sources' = sources \cup {Watch(c, FALSE)}
      /\ overlapped' = (overlapped \/ Opened # {})
      /\ UNCHANGED <<path, view, ended>>
  BY DEF async_accept, WatchedToo, IInv, TypeInv
<1>2. n \in ClientStates /\ n.life = "open" /\ n.watch = next_id /\ n.out = FALSE /\ ~ n.fetching
  BY <1>1 DEF NewState, ClientStates
<1> HIDE DEF n
<1>3. state' \in [Conns -> ClientStates] /\ next_id' \in Nat /\ state'[c] = n
      /\ \A e \in Conns : e # c => state'[e] = state[e]
  BY <1>1, <1>2
<1>4. TypeInv'
  BY <1>1, <1>3 DEF IInv, TypeInv
<1>5. c \notin Opened /\ Opened' = Opened \cup {c}
  BY <1>1, <1>2, <1>3 DEF Opened
<1>6. WatchOf(c)' = Watch(c, FALSE)
  BY <1>2, <1>3 DEF WatchOf, Watch
<1>7. \A e \in Opened : WatchOf(e)' = WatchOf(e) /\ state'[e].watch = state[e].watch
  BY <1>3, <1>5 DEF WatchOf, Opened
<1>8. sources' = {WatchOf(e)' : e \in Opened \cup {c}}
  <2>1. sources = {WatchOf(e) : e \in Opened}
    BY DEF IInv, WatchInv
  <2>2. sources = {WatchOf(e)' : e \in Opened}
    BY <1>7, <2>1
  <2>3. sources' = sources \cup {WatchOf(c)'}
    BY <1>1, <1>6
  <2> HIDE DEF WatchOf
  <2> QED  BY <2>2, <2>3
<1>9. \A e \in Opened : state[e].watch \in Nat /\ state[e].watch < next_id
  BY <1>1 DEF Opened, ClientStates, IInv, WatchInv
<1>10. \A e \in Opened \cup {c} : state'[e].watch < next_id'
  <2> TAKE e \in Opened \cup {c}
  <2>1. CASE e = c
    BY <1>1, <1>2, <1>3, <2>1
  <2>2. CASE e \in Opened
    BY <1>1, <1>7, <1>9, <2>2
  <2> QED  BY <2>1, <2>2
<1>11. \A e, f \in Opened \cup {c} : state'[e].watch = state'[f].watch => e = f
  <2> TAKE e \in Opened \cup {c}, f \in Opened \cup {c}
  <2>1. CASE e = c \/ f = c
    BY <1>1, <1>2, <1>3, <1>7, <1>9, <2>1
  <2>2. CASE e \in Opened /\ f \in Opened
    BY <1>7, <2>2 DEF IInv, WatchInv
  <2> QED  BY <2>1, <2>2
<1>12. WatchInv'
  BY <1>5, <1>8, <1>10, <1>11 DEF WatchInv
<1>13. GlobalInv'
  <2>1. CASE overlapped \/ Opened # {}
    BY <1>1, <2>1 DEF GlobalInv
  <2>2. CASE ~ overlapped /\ Opened = {}
    <3>1. ended = "no" /\ view = NULL
      BY <2>2 DEF IInv, GlobalInv, Running
    <3>2. Opened' = {c} /\ ~ state'[c].fetching
      BY <1>2, <1>3, <1>5, <2>2
    <3> QED  BY <1>1, <3>1, <3>2 DEF GlobalInv
  <2> QED  BY <2>1, <2>2
<1>14. PointerInv'
  BY <1>1 DEF PointerInv
<1> QED  BY <1>4, <1>12, <1>13, <1>14 DEF IInv

(* Deleting: its watch goes, and the rows with it. *)
LEMMA Deleting ==
    ASSUME IInv, Running, NEW c \in Conns, clientstate_delete(c)
    PROVE  IInv'
<1> DEFINE s == [state[c] EXCEPT !.life = "freed"]
<1>1. /\ state \in [Conns -> ClientStates] /\ state[c].life = "open" /\ c \in Opened
      /\ state' = [state EXCEPT ![c] = s]
      /\ sources' = WatchRemoved(sources, c) /\ view' = NULL
      /\ UNCHANGED <<global, next_id, overlapped, ended>>
  BY DEF clientstate_delete, ViewsEmptied, history, IInv, TypeInv, Opened
<1>2. s \in ClientStates /\ s.life = "freed"
  BY <1>1 DEF ClientStates
<1> HIDE DEF s
<1>3. state' \in [Conns -> ClientStates] /\ state'[c] = s
      /\ \A e \in Conns : e # c => state'[e] = state[e]
  BY <1>1, <1>2
<1>4. path' \in Paths
  <2>1. path \in Paths
    BY DEF IInv, TypeInv, Paths
  <2>2. path' = path \/ path' = [path EXCEPT ![global] = "freed"]
    BY DEF clientstate_delete, RowTaken
  <2> QED  BY <2>1, <2>2 DEF Paths
<1>5. TypeInv'
  BY <1>1, <1>3, <1>4 DEF IInv, TypeInv, Paths
<1>6. Opened' = Opened \ {c}
  BY <1>1, <1>2, <1>3 DEF Opened
<1>7. \A e \in Opened \ {c} : WatchOf(e)' = WatchOf(e) /\ state'[e].watch = state[e].watch
  BY <1>3 DEF WatchOf, Opened
<1>8. \A e \in Opened : e # c => WatchOf(e).id # state[c].watch
  BY <1>1 DEF WatchOf, IInv, WatchInv
<1>9. WatchOf(c).id = state[c].watch
  BY DEF WatchOf
<1>10. WatchRemoved(sources, c) = {WatchOf(e) : e \in Opened \ {c}}
  BY <1>8, <1>9 DEF WatchRemoved, IInv, WatchInv
<1>11. sources' = {WatchOf(e)' : e \in Opened \ {c}}
  BY <1>1, <1>7, <1>10
<1>12. WatchInv'
  BY <1>1, <1>6, <1>7, <1>11 DEF WatchInv, IInv
<1>13. GlobalInv'
  <2>1. CASE overlapped
    BY <1>1, <2>1 DEF GlobalInv
  <2>2. CASE ~ overlapped
    <3>1. (\A e \in Opened : e = global) /\ ended = "no"
      BY <2>2 DEF IInv, GlobalInv, Running
    <3>2. Opened' = {}
      BY <1>1, <1>6, <3>1
    <3> QED  BY <1>1, <3>1, <3>2 DEF GlobalInv
  <2> QED  BY <2>1, <2>2
<1>14. PointerInv'
  BY <1>1 DEF IInv, PointerInv
<1> QED  BY <1>5, <1>12, <1>13, <1>14 DEF IInv

(* Selecting a row: the command goes to the connection that shows it. *)
LEMMA Selecting ==
    ASSUME IInv, Running, varview_selection_function
    PROVE  IInv'
<1> DEFINE c == global
           s == [Issued(state[c]) EXCEPT !.fetching = TRUE]
<1>1. /\ c \in Opened /\ c \in Conns /\ state[c].life = "open" /\ state[c] \in ClientStates
  <2>1. state[c].life = "open"
    BY DEF varview_selection_function
  <2>2. c \in Conns
    BY DEF varview_selection_function, IInv, PointerInv
  <2> QED  BY <2>1, <2>2 DEF IInv, TypeInv, Opened
<1>2. /\ path' = [path EXCEPT ![c] = "set"]
      /\ Rewatches(c, s, {})
      /\ UNCHANGED <<global, view, overlapped, ended>>
  BY DEF varview_selection_function, history
<1>3. s \in ClientStates /\ s.life = "open"
  <2>1. Issued(state[c]) \in ClientStates /\ Issued(state[c]).life = "open"
    BY <1>1, Issuing
  <2> QED  BY <2>1 DEF ClientStates
<1> HIDE DEF s
<1>4. /\ WatchInv'
      /\ state' \in [Conns -> ClientStates] /\ next_id' \in Nat
      /\ Opened' = Opened
      /\ \A e \in Conns : e # c => state'[e] = state[e]
  <2>1. {} \in SUBSET {WatchOf(c)}
    OBVIOUS
  <2> QED  BY <1>1, <1>2, <1>3, <2>1, Rewatching
<1>5. path' \in Paths /\ path'[c] = "set"
  BY <1>1, <1>2 DEF IInv, TypeInv, Paths
<1>6. TypeInv'
  BY <1>2, <1>4, <1>5 DEF IInv, TypeInv, Paths
<1>7. GlobalInv'
  <2>1. CASE overlapped
    BY <1>2, <2>1 DEF GlobalInv
  <2>2. CASE ~ overlapped
    BY <1>1, <1>2, <1>4, <1>5, <2>2 DEF IInv, GlobalInv, Running
  <2> QED  BY <2>1, <2>2
<1>8. PointerInv'
  BY <1>1, <1>2 DEF PointerInv
<1> QED  BY <1>4, <1>6, <1>7, <1>8 DEF IInv

(* A button: the command goes to the open connection, and nothing else     *)
(* changes there.                                                          *)
LEMMA Pressing ==
    ASSUME IInv, Running, process_a_button
    PROVE  IInv'
<1> DEFINE c == global
           s == Issued(state[c])
<1>1. /\ c \in Opened /\ c \in Conns /\ state[c].life = "open" /\ state[c] \in ClientStates
  <2>1. state[c].life = "open"
    BY DEF process_a_button
  <2>2. c \in Conns
    BY DEF process_a_button, IInv, PointerInv
  <2> QED  BY <2>1, <2>2 DEF IInv, TypeInv, Opened
<1>2. Rewatches(c, s, {}) /\ UNCHANGED <<global, path, view, overlapped, ended>>
  BY DEF process_a_button, history
<1>3. s \in ClientStates /\ s.life = "open" /\ s.fetching = state[c].fetching
  BY <1>1, Issuing
<1> HIDE DEF s
<1>4. /\ WatchInv'
      /\ state' \in [Conns -> ClientStates] /\ next_id' \in Nat
      /\ Opened' = Opened
      /\ state'[c].fetching = state[c].fetching
      /\ \A e \in Conns : e # c => state'[e] = state[e]
  <2>1. {} \in SUBSET {WatchOf(c)}
    OBVIOUS
  <2> QED  BY <1>1, <1>2, <1>3, <2>1, Rewatching
<1>5. TypeInv'
  BY <1>2, <1>4 DEF IInv, TypeInv
<1>6. GlobalInv'
  <2>1. CASE overlapped
    BY <1>2, <2>1 DEF GlobalInv
  <2>2. CASE ~ overlapped
    BY <1>1, <1>2, <1>4, <2>2 DEF IInv, GlobalInv, Running
  <2> QED  BY <2>1, <2>2
<1>7. PointerInv'
  BY <1>1, <1>2 DEF PointerInv
<1> QED  BY <1>4, <1>5, <1>6, <1>7 DEF IInv

(* A button after the connection was freed: as long as there was never a   *)
(* second one, none is open.                                               *)
LEMMA PressingTheFreed ==
    ASSUME IInv, PressesForTheFreed
    PROVE  IInv'
<1>1. overlapped \/ Opened = {}
  BY DEF PressesForTheFreed, IInv, GlobalInv, Opened
<1>2. UNCHANGED <<client, history>> /\ ended' = "freed_button"
  BY DEF PressesForTheFreed, Ends
<1> QED  BY <1>1, <1>2 DEF client, history, IInv, TypeInv, WatchInv, GlobalInv, PointerInv,
                          WatchOf, Opened

(* Selecting after the connection was freed takes two that were open. *)
LEMMA Missing ==
    ASSUME IInv, SelectsForTheFreed
    PROVE  IInv'
<1>1. overlapped
  BY DEF SelectsForTheFreed, IInv, GlobalInv, Opened
<1>2. UNCHANGED <<client, history>>
  BY DEF SelectsForTheFreed, Ends
<1> QED  BY <1>1, <1>2 DEF client, history, IInv, TypeInv, WatchInv, GlobalInv, PointerInv,
                          WatchOf, Opened

(* No connection was made, and nothing is watched. *)
LEMMA Starting == Init => IInv
<1> SUFFICES ASSUME Init PROVE IInv
  OBVIOUS
<1> DEFINE s == [NewState(0) EXCEPT !.life = "none"]
<1>1. s \in ClientStates /\ s.life = "none"
  BY DEF NewState, ClientStates
<1>2. state = [c \in Conns |-> s]
  BY DEF Init
<1> HIDE DEF s
<1>3. TypeInv
  BY <1>1, <1>2 DEF Init, TypeInv
<1>4. Opened = {}
  BY <1>1, <1>2 DEF Opened
<1>5. WatchInv
  BY <1>4 DEF Init, WatchInv
<1>6. GlobalInv /\ PointerInv
  BY <1>4 DEF Init, GlobalInv, PointerInv
<1> QED  BY <1>3, <1>5, <1>6 DEF IInv
-----------------------------------------------------------------------------
(* Accepting, reading, writing, selecting, pressing and deleting, for any  *)
(* number of connections, keep the invariant.                              *)
THEOREM Inductive == IInv /\ [Next]_vars => IInv'
<1> SUFFICES ASSUME IInv, [Next]_vars PROVE IInv'
  OBVIOUS
<1>1. CASE Running /\ \E c \in Conns : async_accept(c)
  BY <1>1, Accepting
<1>2. CASE Running /\ \E watch \in sources : Serves(watch)
  BY <1>2, Serving
<1>3. CASE \E c \in Conns : EngineReads(c)
  <2>1. UNCHANGED <<client, overlapped, ended>>
    BY <1>3 DEF EngineReads, history
  <2> QED  BY <2>1, Standing
<1>4. CASE Running /\ \E c \in Conns : clientstate_delete(c)
  BY <1>4, Deleting
<1>5. CASE Running /\ varview_selection_function
  BY <1>5, Selecting
<1>6. CASE SelectsForTheFreed
  BY <1>6, Missing
<1>7. CASE Exits
  <2>1. UNCHANGED <<client, overlapped>> /\ ended' = "exit"
    BY <1>7 DEF Exits, Ends, history
  <2> QED  BY <2>1, Standing
<1>8. CASE UNCHANGED vars
  <2>1. UNCHANGED <<client, overlapped, ended>>
    BY <1>8 DEF vars, history
  <2> QED  BY <2>1, Standing
<1>9. CASE Running /\ process_a_button
  BY <1>9, Pressing
<1>10. CASE PressesTooEarly
  <2>1. UNCHANGED <<client, overlapped>> /\ ended' = "null_dereference"
    BY <1>10 DEF PressesTooEarly, Ends, history
  <2> QED  BY <2>1, Standing
<1>11. CASE PressesForTheFreed
  BY <1>11, PressingTheFreed
<1> QED  BY <1>1, <1>2, <1>3, <1>4, <1>5, <1>6, <1>7, <1>8, <1>9, <1>10, <1>11 DEF Next

(* The invariant holds for all connections, command sizes and bounds. *)
THEOREM Invariance == Spec => []IInv
<1>1. Init => IInv
  BY Starting
<1>2. IInv /\ [Next]_vars => IInv'
  BY Inductive
<1> QED  BY <1>1, <1>2, PTL DEF Spec

(* However many connections the engine opens at once, the main loop has    *)
(* one watch for each that is open, with its flags, and none for one that  *)
(* is freed: no callback is ever called with a freed ClientState.          *)
THEOREM WatchesMatch == Spec => []OneWatchEach
<1>1. IInv => OneWatchEach
  BY WatchesAreTheirs
<1> QED  BY <1>1, Invariance, PTL

(* As long as the engine closes each connection before it makes the next,  *)
(* rows and documents use no freed ClientState and look up no row without  *)
(* a path, and a button uses a freed one only when no connection is open.  *)
THEOREM OneAtATimeIsSafe == Spec => []SoleConnectionIsSafe
<1>1. IInv => SoleConnectionIsSafe
  BY DEF IInv, GlobalInv, SoleConnectionIsSafe
<1> QED  BY <1>1, Invariance, PTL
-----------------------------------------------------------------------------
Tids == Nat \cup {NULL}
Commands == Seq(Tids)
ByteStreams == Seq(Tids \X Nat)

CommandTypes ==
    /\ state \in [Conns -> ClientStates]
    /\ stream \in [Conns -> ByteStreams]
    /\ written \in [Conns -> Commands]
    /\ received \in [Conns -> Seq(ByteStreams)]

(* Nothing is under way where there was no connection yet. *)
SilentBefore ==
    \A c \in Conns : state[c].life = "none" =>
        stream[c] = << >> /\ written[c] = << >> /\ received[c] = << >>

CommandInv == CommandTypes /\ SilentBefore /\ WholeCommandsInOrder
-----------------------------------------------------------------------------
(* Places of bytes in commands side by side. *)
LEMMA Places ==
    ASSUME NEW n \in Nat, NEW i \in 1..n, NEW s \in Nat, NEW at \in 1..s
    PROVE  /\ (i - 1) * s + at \in 1..(n * s)
           /\ (n + 1) * s = n * s + s
           /\ (i - 1) * s \in Nat
           /\ i * s = (i - 1) * s + s
<1>1. (i - 1) * s \in Nat /\ i * s = (i - 1) * s + s /\ (n + 1) * s = n * s + s
  OBVIOUS
<1>2. n * s = i * s + (n - i) * s /\ (n - i) * s \in Nat
  OBVIOUS
<1> QED  BY <1>1, <1>2

(* A command is a byte for each place and its NUL. *)
LEMMA BytesType ==
    ASSUME NEW tid \in Tids
    PROVE  /\ Bytes(tid) \in ByteStreams /\ Len(Bytes(tid)) = Size + 1
           /\ \A at \in 1..(Size + 1) : Bytes(tid)[at] = <<tid, at>>
  BY SocketsAssumption DEF Bytes, ByteStreams

(* The elements of sequences side by side. *)
LEMMA SideBySide ==
    ASSUME NEW T, NEW s \in Seq(T), NEW t \in Seq(T)
    PROVE  /\ s \o t \in Seq(T)
           /\ Len(s \o t) = Len(s) + Len(t)
           /\ \A k \in 1..Len(s) : (s \o t)[k] = s[k]
           /\ \A k \in 1..Len(t) : (s \o t)[Len(s) + k] = t[k]
  OBVIOUS

(* A sequence with one element more. *)
LEMMA OneMore ==
    ASSUME NEW T, NEW s \in Seq(T), NEW e \in T
    PROVE  /\ Append(s, e) \in Seq(T)
           /\ Len(Append(s, e)) = Len(s) + 1
           /\ \A i \in 1..Len(s) : Append(s, e)[i] = s[i]
           /\ Append(s, e)[Len(s) + 1] = e
  OBVIOUS

(* The end of a sequence, after the first n elements. *)
LEMMA WhatRemains ==
    ASSUME NEW T, NEW s \in Seq(T), NEW n \in 0..Len(s)
    PROVE  /\ SubSeq(s, n + 1, Len(s)) \in Seq(T)
           /\ Len(SubSeq(s, n + 1, Len(s))) = Len(s) - n
           /\ \A i \in 1..(Len(s) - n) : SubSeq(s, n + 1, Len(s))[i] = s[n + i]
  OBVIOUS

(* A sequence without its first element. *)
LEMMA WithoutFirst ==
    ASSUME NEW T, NEW s \in Seq(T), Len(s) > 0
    PROVE  /\ Tail(s) \in Seq(T)
           /\ Len(Tail(s)) = Len(s) - 1
           /\ \A i \in 1..(Len(s) - 1) : Tail(s)[i] = s[i + 1]
  OBVIOUS

(* Sequences that agree everywhere are the same. *)
LEMMA SameSequence ==
    ASSUME NEW T, NEW s \in Seq(T), NEW t \in Seq(T), Len(s) = Len(t),
           \A i \in 1..Len(s) : s[i] = t[i]
    PROVE  s = t
  OBVIOUS

(* A whole command behind whole commands. *)
LEMMA OneMoreCommand ==
    ASSUME NEW bytes \in ByteStreams, NEW commands \in Commands, NEW tid \in Tids,
           AreBytes(bytes, commands)
    PROVE  AreBytes(bytes \o Bytes(tid), Append(commands, tid))
<1> DEFINE S == Size + 1
           n == Len(commands)
           all == bytes \o Bytes(tid)
           more == Append(commands, tid)
<1>1. S \in Nat /\ n \in Nat /\ Len(bytes) = n * S
  BY SocketsAssumption DEF AreBytes, Commands
<1>2. Bytes(tid) \in ByteStreams /\ Len(Bytes(tid)) = S
  BY BytesType
<1>3. more \in Commands /\ Len(more) = n + 1
      /\ more[n + 1] = tid
      /\ \A i \in 1..n : more[i] = commands[i]
  BY DEF Commands
<1> HIDE DEF n, S, more
<1>4. /\ Len(all) = Len(bytes) + S
      /\ \A k \in 1..Len(bytes) : all[k] = bytes[k]
      /\ \A at \in 1..S : all[Len(bytes) + at] = Bytes(tid)[at]
  <2>1. bytes \in Seq(Tids \X Nat) /\ Bytes(tid) \in Seq(Tids \X Nat)
    BY <1>2 DEF ByteStreams
  <2>2. /\ Len(all) = Len(bytes) + Len(Bytes(tid))
        /\ \A k \in 1..Len(bytes) : all[k] = bytes[k]
        /\ \A k \in 1..Len(Bytes(tid)) : all[Len(bytes) + k] = Bytes(tid)[k]
    BY <2>1, SideBySide
  <2> HIDE DEF all
  <2> QED  BY <1>2, <2>2
<1> HIDE DEF all
<1>5. (n + 1) * S = n * S + S
  BY <1>1
<1>6. Len(all) = (n + 1) * S
  BY <1>1, <1>4, <1>5
<1>7. ASSUME NEW i \in 1..(n + 1), NEW at \in 1..S
      PROVE  all[(i - 1) * S + at] = Bytes(more[i])[at]
  <2>1. CASE i = n + 1
    <3>1. (i - 1) * S = n * S
      BY <1>1, <2>1
    <3> QED  BY <1>1, <1>3, <1>4, <2>1, <3>1
  <2>2. CASE i \in 1..n
    <3>1. (i - 1) * S + at \in 1..Len(bytes)
      BY <1>1, <2>2, Places
    <3>2. bytes[(i - 1) * S + at] = Bytes(commands[i])[at]
      <4>1. i \in DOMAIN commands
        BY <1>1, <2>2 DEF Commands, n
      <4> QED  BY <4>1 DEF AreBytes, S
    <3> DEFINE p == (i - 1) * S + at
    <3>3. all[p] = bytes[p]
      BY <1>4, <3>1
    <3>4. more[i] = commands[i]
      BY <1>3, <2>2
    <3> QED  BY <3>2, <3>3, <3>4
  <2> QED  BY <1>1, <2>1, <2>2
<1>8. DOMAIN more = 1..(n + 1)
  BY <1>3 DEF Commands
<1> QED  BY <1>3, <1>6, <1>7, <1>8 DEF AreBytes, all, more, S

(* The first NUL of whole commands ends the first of them. *)
LEMMA FirstCommand ==
    ASSUME NEW bytes \in ByteStreams, NEW commands \in Commands, AreBytes(bytes, commands),
           NEW k \in DOMAIN bytes, IsNul(bytes[k]), \A i \in 1..(k - 1) : ~ IsNul(bytes[i])
    PROVE  /\ commands # << >>
           /\ SubSeq(bytes, 1, k) = Bytes(commands[1])
           /\ AreBytes(SubSeq(bytes, k + 1, Len(bytes)), Tail(commands))
<1> DEFINE S == Size + 1
           n == Len(commands)
           rest == SubSeq(bytes, k + 1, Len(bytes))
<1>1. S \in Nat /\ S > 0 /\ n \in Nat /\ Len(bytes) = n * S /\ k \in 1..Len(bytes)
  BY SocketsAssumption DEF AreBytes, Commands, ByteStreams
<1>2. n > 0 /\ commands # << >>
  <2>1. n = 0 => n * S = 0
    BY <1>1
  <2> QED  BY <1>1, <2>1
<1>3. 1 \in DOMAIN commands /\ commands[1] \in Tids
  BY <1>1, <1>2 DEF Commands
<1>4. \A at \in 1..S : bytes[at] = <<commands[1], at>>
  <2> TAKE at \in 1..S
  <2>1. bytes[(1 - 1) * S + at] = Bytes(commands[1])[at]
    BY <1>3 DEF AreBytes
  <2>2. (1 - 1) * S + at = at
    BY <1>1
  <2> QED  BY <1>3, <2>1, <2>2, BytesType
<1>5. Len(bytes) >= S
  <2>1. (1 - 1) * S + S \in 1..(n * S)
    BY <1>1, <1>2, Places
  <2>2. (1 - 1) * S + S = S
    BY <1>1
  <2> QED  BY <1>1, <2>1, <2>2
<1>6. k = S
  <2>1. IsNul(bytes[S])
    BY <1>1, <1>4 DEF IsNul
  <2>2. \A at \in 1..S : IsNul(bytes[at]) => at = S
    BY <1>4 DEF IsNul
  <2> QED  BY <1>1, <2>1, <2>2
<1>7. SubSeq(bytes, 1, k) = Bytes(commands[1])
  <2>1. SubSeq(bytes, 1, k) = [at \in 1..S |-> bytes[at]]
    BY <1>1, <1>5, <1>6 DEF ByteStreams
  <2> QED  BY <1>4, <2>1 DEF Bytes
<1>8. Tail(commands) \in Commands /\ Len(Tail(commands)) = n - 1
      /\ DOMAIN Tail(commands) = 1..(n - 1)
      /\ \A i \in 1..(n - 1) : Tail(commands)[i] = commands[i + 1]
  BY <1>1, <1>2 DEF Commands
<1> HIDE DEF n, S
<1>9. /\ Len(rest) = Len(bytes) - S
      /\ \A m \in 1..(Len(bytes) - S) : rest[m] = bytes[S + m]
  <2>1. bytes \in Seq(Tids \X Nat)
    BY DEF ByteStreams
  <2> QED  BY <1>1, <1>5, <1>6, <2>1
<1>10. n * S = (n - 1) * S + S
  BY <1>1
<1>11. Len(rest) = (n - 1) * S
  <2>1. (n - 1) * S \in Nat
    BY <1>1, <1>2
  <2> HIDE DEF rest
  <2> QED  BY <1>1, <1>9, <1>10, <2>1
<1>12. ASSUME NEW i \in 1..(n - 1), NEW at \in 1..S
       PROVE  rest[(i - 1) * S + at] = Bytes(Tail(commands)[i])[at]
  <2> HIDE DEF rest
  <2>1. (i - 1) * S + at \in 1..((n - 1) * S) /\ i * S = (i - 1) * S + S /\ (i - 1) * S \in Nat
    BY <1>1, <1>2, Places
  <2>2. rest[(i - 1) * S + at] = bytes[S + ((i - 1) * S + at)]
    BY <1>9, <1>11, <2>1
  <2>3. S + ((i - 1) * S + at) = ((i + 1) - 1) * S + at
    BY <1>1, <2>1
  <2>4. i + 1 \in DOMAIN commands
    BY <1>1 DEF Commands, n
  <2>5. bytes[((i + 1) - 1) * S + at] = Bytes(commands[i + 1])[at]
    BY <2>4 DEF AreBytes, S
  <2> QED  BY <1>8, <2>2, <2>3, <2>5
<1> QED
  <2> HIDE DEF rest
  <2>1. AreBytes(rest, Tail(commands))
    BY <1>8, <1>11, <1>12 DEF AreBytes, S
  <2> QED  BY <1>2, <1>7, <2>1 DEF rest
-----------------------------------------------------------------------------
(* What a connection has sent and its engine has read. *)
Sent(c) == <<state[c].life, stream[c], written[c], received[c]>>

(* A step that changes nothing of this for most connections is about the   *)
(* others.                                                                 *)
LEMMA OneConnection ==
    ASSUME CommandInv, CommandTypes', NEW c \in Conns,
           \A e \in Conns \ {c} : Sent(e)' = Sent(e),
           shortened \subseteq shortened',
           state'[c].life = "none" => stream'[c] = << >> /\ written'[c] = << >> /\ received'[c] = << >>,
           state'[c].life = "open" /\ c \notin shortened' => WholeCommands(c)'
    PROVE  CommandInv'
<1>1. ASSUME NEW e \in Conns \ {c}
      PROVE  /\ state'[e].life = state[e].life /\ stream'[e] = stream[e]
             /\ written'[e] = written[e] /\ received'[e] = received[e]
  BY <1>1 DEF Sent
<1>2. SilentBefore'
  BY <1>1 DEF CommandInv, SilentBefore
<1>3. ASSUME NEW e \in Conns, state'[e].life = "open", e \notin shortened'
      PROVE  WholeCommands(e)'
  <2>1. CASE e = c
    BY <1>3, <2>1
  <2>2. CASE e # c
    <3>1. WholeCommands(e)
      BY <1>1, <1>3, <2>2 DEF CommandInv, WholeCommandsInOrder, WholeCommands, Opened
    <3> QED  BY <1>1, <2>2, <3>1 DEF WholeCommands
  <2> QED  BY <2>1, <2>2
<1>4. WholeCommandsInOrder'
  BY <1>3 DEF WholeCommandsInOrder, WholeCommands, Opened
<1> QED  BY <1>2, <1>4 DEF CommandInv


(* What is written goes behind what is on its way. *)
LEMMA Appending ==
    ASSUME NEW commands \in Commands, NEW tid \in Tids, NEW read \in 0..Len(commands)
    PROVE  /\ Append(commands, tid) \in Commands
           /\ Len(Append(commands, tid)) = Len(commands) + 1
           /\ \A i \in 1..read : Append(commands, tid)[i] = commands[i]
           /\ SubSeq(commands, read + 1, Len(commands)) \in Commands
           /\ SubSeq(Append(commands, tid), read + 1, Len(commands) + 1)
                 = Append(SubSeq(commands, read + 1, Len(commands)), tid)
<1> DEFINE n == Len(commands)
           more == Append(commands, tid)
           waiting == SubSeq(commands, read + 1, n)
           both == SubSeq(more, read + 1, n + 1)
           other == Append(waiting, tid)
<1>1. /\ n \in Nat /\ more \in Commands /\ Len(more) = n + 1 /\ more[n + 1] = tid
      /\ \A i \in 1..n : more[i] = commands[i]
  BY OneMore DEF Commands
<1>2. /\ waiting \in Commands /\ Len(waiting) = n - read
      /\ \A i \in 1..(n - read) : waiting[i] = commands[read + i]
  BY WhatRemains DEF Commands
<1>3. /\ other \in Commands /\ Len(other) = Len(waiting) + 1
      /\ other[Len(waiting) + 1] = tid
      /\ \A i \in 1..Len(waiting) : other[i] = waiting[i]
  <2> HIDE DEF n, waiting
  <2> QED  BY <1>2, OneMore DEF Commands
<1> HIDE DEF n, more, waiting, other
<1>4. /\ both \in Commands /\ Len(both) = n + 1 - read
      /\ \A i \in 1..(n + 1 - read) : both[i] = more[read + i]
  <2>1. read \in 0..Len(more) /\ more \in Seq(Tids)
    BY <1>1 DEF Commands, n
  <2> DEFINE rest == SubSeq(more, read + 1, Len(more))
  <2>2. /\ rest \in Seq(Tids) /\ Len(rest) = Len(more) - read
        /\ \A i \in 1..(Len(more) - read) : rest[i] = more[read + i]
    BY <2>1, WhatRemains
  <2>3. both = rest
    BY <1>1
  <2> HIDE DEF rest, both
  <2> QED  BY <1>1, <2>2, <2>3 DEF Commands
<1> HIDE DEF both
<1>5. both = other
  <2>1. \A i \in 1..Len(both) : both[i] = other[i]
    <3> TAKE i \in 1..Len(both)
    <3>1. CASE i = n + 1 - read
      BY <1>1, <1>2, <1>3, <1>4, <3>1
    <3>2. CASE i \in 1..(n - read)
      BY <1>1, <1>2, <1>3, <1>4, <3>2
    <3> QED  BY <1>1, <1>4, <3>1, <3>2
  <2>2. Len(both) = Len(other)
    BY <1>1, <1>2, <1>3, <1>4
  <2> QED  BY <1>3, <1>4, <2>1, <2>2, SameSequence DEF Commands
<1>6. \A i \in 1..read : more[i] = commands[i]
  BY <1>1 DEF n
<1>7. more \in Commands /\ Len(more) = n + 1 /\ waiting \in Commands
  BY <1>1, <1>2
<1> QED  BY <1>5, <1>6, <1>7 DEF n, more, waiting, both, other

(* The engine reads the command that waits longest. *)
LEMMA CommandRead ==
    ASSUME CommandInv, NEW c \in Conns, EngineReads(c)
    PROVE  CommandInv'
<1> DEFINE r == Len(received[c])
           w == written[c]
           waiting == SubSeq(w, r + 1, Len(w))
<1>1. PICK k \in DOMAIN stream[c] :
          /\ IsNul(stream[c][k])
          /\ \A i \in 1..(k - 1) : ~ IsNul(stream[c][i])
          /\ received' = [received EXCEPT ![c] = Append(@, SubSeq(stream[c], 1, k))]
          /\ stream' = [stream EXCEPT ![c] = SubSeq(@, k + 1, Len(@))]
  BY DEF EngineReads
<1>2. /\ state' = state /\ written' = written /\ shortened' = shortened
      /\ state[c].life = "open"
  BY DEF EngineReads, client, history
<1>3. /\ stream[c] \in ByteStreams /\ w \in Commands /\ received[c] \in Seq(ByteStreams)
      /\ r \in Nat /\ k \in 1..Len(stream[c])
  <2>1. stream[c] \in ByteStreams /\ w \in Commands /\ received[c] \in Seq(ByteStreams)
    BY DEF CommandInv, CommandTypes
  <2>2. r \in Nat
    BY <2>1
  <2>3. k \in 1..Len(stream[c])
    BY <1>1, <2>1 DEF ByteStreams
  <2> QED  BY <2>1, <2>2, <2>3
<1>4. /\ SubSeq(stream[c], 1, k) \in ByteStreams
      /\ SubSeq(stream[c], k + 1, Len(stream[c])) \in ByteStreams
  BY <1>3 DEF ByteStreams
<1>5. /\ received'[c] = Append(received[c], SubSeq(stream[c], 1, k))
      /\ stream'[c] = SubSeq(stream[c], k + 1, Len(stream[c]))
      /\ received' \in [Conns -> Seq(ByteStreams)] /\ stream' \in [Conns -> ByteStreams]
      /\ \A e \in Conns \ {c} : received'[e] = received[e] /\ stream'[e] = stream[e]
  <2> DEFINE taken == SubSeq(stream[c], 1, k)
             left == SubSeq(stream[c], k + 1, Len(stream[c]))
  <2>1. received \in [Conns -> Seq(ByteStreams)] /\ stream \in [Conns -> ByteStreams]
    BY DEF CommandInv, CommandTypes
  <2>2. Append(received[c], taken) \in Seq(ByteStreams)
    BY <1>3, <1>4
  <2>3. received' = [received EXCEPT ![c] = Append(received[c], taken)] /\ stream' = [stream EXCEPT ![c] = left]
    BY <1>1, <2>1
  <2> HIDE DEF taken, left
  <2> QED  BY <1>4, <2>1, <2>2, <2>3 DEF taken, left
<1>6. CommandTypes'
  BY <1>2, <1>5 DEF CommandInv, CommandTypes
<1>7. ASSUME c \notin shortened PROVE WholeCommands(c)'
  <2>1. /\ r <= Len(w) /\ \A i \in 1..r : received[c][i] = Bytes(w[i])
        /\ AreBytes(stream[c], waiting)
    BY <1>2, <1>7 DEF CommandInv, WholeCommandsInOrder, WholeCommands, Opened
  <2>2. waiting \in Commands /\ Len(waiting) = Len(w) - r
        /\ \A i \in 1..(Len(w) - r) : waiting[i] = w[r + i]
    <3>1. w \in Seq(Tids) /\ r \in 0..Len(w)
      BY <1>3, <2>1 DEF Commands
    <3> HIDE DEF r, w
    <3> QED  BY <3>1, WhatRemains DEF Commands
  <2> HIDE DEF waiting
  <2>3. /\ waiting # << >> /\ SubSeq(stream[c], 1, k) = Bytes(waiting[1])
        /\ AreBytes(stream'[c], Tail(waiting))
    BY <1>1, <1>3, <1>5, <2>1, <2>2, FirstCommand
  <2>4. Len(w) \in Nat /\ r + 1 <= Len(w)
    BY <1>3, <2>2, <2>3 DEF Commands
  <2> DEFINE later == SubSeq(w, r + 2, Len(w))
  <2>5. Tail(waiting) = later
    <3>1. /\ Tail(waiting) \in Seq(Tids) /\ Len(Tail(waiting)) = Len(w) - r - 1
          /\ \A i \in 1..(Len(w) - r - 1) : Tail(waiting)[i] = waiting[i + 1]
      <4> HIDE DEF w, r
      <4>1. waiting \in Seq(Tids) /\ Len(waiting) > 0 /\ Len(waiting) = Len(w) - r
            /\ r \in Nat /\ Len(w) \in Nat
        BY <2>2, <2>4, <1>3 DEF Commands
      <4>2. /\ Tail(waiting) \in Seq(Tids) /\ Len(Tail(waiting)) = Len(waiting) - 1
            /\ \A i \in 1..(Len(waiting) - 1) : Tail(waiting)[i] = waiting[i + 1]
        BY <4>1, WithoutFirst
      <4>3. Len(waiting) - 1 = Len(w) - r - 1
        BY <4>1
      <4> QED  BY <4>2, <4>3
    <3>2. /\ later \in Seq(Tids) /\ Len(later) = Len(w) - (r + 1)
          /\ \A i \in 1..(Len(w) - (r + 1)) : later[i] = w[r + 1 + i]
      <4> DEFINE m == r + 1
      <4>1. w \in Seq(Tids) /\ m \in 0..Len(w) /\ r + 2 = m + 1
        BY <1>3, <2>4 DEF Commands
      <4> HIDE DEF m
      <4>2. /\ SubSeq(w, m + 1, Len(w)) \in Seq(Tids) /\ Len(SubSeq(w, m + 1, Len(w))) = Len(w) - m
            /\ \A i \in 1..(Len(w) - m) : SubSeq(w, m + 1, Len(w))[i] = w[m + i]
        BY <4>1, WhatRemains
      <4> HIDE DEF w
      <4> QED  BY <4>1, <4>2 DEF m
    <3> HIDE DEF later, w, r
    <3>3. \A i \in 1..Len(later) : Tail(waiting)[i] = later[i]
      BY <1>3, <2>2, <2>4, <3>1, <3>2
    <3>4. Len(Tail(waiting)) = Len(later)
      BY <1>3, <2>4, <3>1, <3>2
    <3> QED  BY <3>1, <3>2, <3>3, <3>4, SameSequence
  <2> DEFINE got == received'[c]
  <2>6. Len(got) = r + 1 /\ (\A i \in 1..r : got[i] = received[c][i]) /\ got[r + 1] = Bytes(waiting[1])
    <3>1. got = Append(received[c], Bytes(waiting[1])) /\ Bytes(waiting[1]) \in ByteStreams
      BY <1>4, <1>5, <2>3
    <3> HIDE DEF got
    <3> QED  BY <1>3, <3>1, OneMore
  <2>7. waiting[1] = w[r + 1]
    BY <1>3, <2>2, <2>4
  <2> HIDE DEF got
  <2>8. \A i \in 1..(r + 1) : got[i] = Bytes(w[i])
    BY <1>3, <2>1, <2>6, <2>7
  <2>9. (r + 1) + 1 = r + 2
    BY <1>3
  <2> QED  BY <1>2, <2>3, <2>4, <2>5, <2>6, <2>8, <2>9 DEF WholeCommands, got
<1>8. \A e \in Conns \ {c} : Sent(e)' = Sent(e)
  BY <1>2, <1>5 DEF Sent
<1> QED  BY <1>2, <1>6, <1>7, <1>8, OneConnection


(* A write that is not short adds the command and its NUL. *)
LEMMA CommandWritten ==
    ASSUME IInv, CommandInv, NEW c \in Opened, NEW s \in ClientStates, NEW watch,
           Writes(c, s, watch),
           state' \in [Conns -> ClientStates], Opened' = Opened,
           \A e \in Conns : e # c => state'[e] = state[e],
           received' = received
    PROVE  CommandInv'
<1> DEFINE w == written[c]
           r == Len(received[c])
           tid == s.command
<1>1. PICK n \in 0..(Size + 1) :
          /\ stream' = [stream EXCEPT ![c] = @ \o WithNul(tid, n)]
          /\ written' = [written EXCEPT ![c] = Append(@, tid)]
          /\ shortened' = IF n < Size + 1 THEN shortened \cup {c} ELSE shortened
  BY DEF Writes
<1>2. /\ c \in Conns /\ tid \in Tids /\ stream[c] \in ByteStreams /\ w \in Commands
      /\ received[c] \in Seq(ByteStreams) /\ r \in Nat
      /\ stream \in [Conns -> ByteStreams] /\ written \in [Conns -> Commands]
  BY DEF Opened, ClientStates, Tids, CommandInv, CommandTypes
<1>3. Append(w, tid) \in Commands
  BY <1>2, OneMore DEF Commands
<1>4. stream[c] \o WithNul(tid, n) \in ByteStreams
  <2>1. Bytes(tid) \in ByteStreams /\ Len(Bytes(tid)) = Size + 1
    BY <1>2, BytesType
  <2>2. SubSeq(Bytes(tid), 1, n) \in ByteStreams
    BY <2>1, SocketsAssumption DEF ByteStreams
  <2> QED  BY <1>2, <2>2, SideBySide DEF WithNul, ByteStreams
<1>5. /\ stream' \in [Conns -> ByteStreams] /\ written' \in [Conns -> Commands]
      /\ stream'[c] = stream[c] \o WithNul(tid, n) /\ written'[c] = Append(w, tid)
      /\ \A e \in Conns \ {c} : stream'[e] = stream[e] /\ written'[e] = written[e]
  BY <1>1, <1>2, <1>3, <1>4
<1>6. CommandTypes'
  BY <1>5 DEF CommandInv, CommandTypes
<1>7. ASSUME c \notin shortened' PROVE WholeCommands(c)'
  <2>1. c \notin shortened /\ n = Size + 1
    BY <1>1, <1>7, SocketsAssumption
  <2>2. /\ r <= Len(w) /\ \A i \in 1..r : received[c][i] = Bytes(w[i])
        /\ AreBytes(stream[c], SubSeq(w, r + 1, Len(w)))
    BY <2>1 DEF CommandInv, WholeCommandsInOrder, WholeCommands
  <2>3. r \in 0..Len(w) /\ Len(w) \in Nat
    BY <1>2, <2>2 DEF Commands
  <2>4. WithNul(tid, n) = Bytes(tid)
    <3>1. Bytes(tid) \in Seq(Tids \X Nat) /\ Len(Bytes(tid)) = n
      BY <1>2, <2>1, BytesType DEF ByteStreams
    <3> QED  BY <3>1 DEF WithNul
  <2> DEFINE waiting == SubSeq(w, r + 1, Len(w))
             more == Append(w, tid)
  <2>5. /\ waiting \in Commands /\ Len(more) = Len(w) + 1
        /\ \A i \in 1..r : more[i] = w[i]
        /\ SubSeq(more, r + 1, Len(w) + 1) = Append(waiting, tid)
    BY <1>2, <2>3, Appending
  <2> HIDE DEF waiting, more
  <2>6. AreBytes(stream'[c], Append(waiting, tid))
    BY <1>2, <1>5, <2>2, <2>4, <2>5, OneMoreCommand DEF waiting
  <2>7. AreBytes(stream'[c], SubSeq(more, r + 1, Len(more)))
    BY <2>5, <2>6
  <2>8. r <= Len(more) /\ \A i \in 1..r : received[c][i] = Bytes(more[i])
    BY <2>2, <2>3, <2>5
  <2>9. written'[c] = more
    BY <1>5 DEF more
  <2> QED  BY <2>7, <2>8, <2>9 DEF WholeCommands
<1>8. state'[c].life = "open"
  <2>1. c \in Opened'
    OBVIOUS
  <2> QED  BY <2>1 DEF Opened
<1>9. \A e \in Conns \ {c} : Sent(e)' = Sent(e)
  BY <1>5 DEF Sent
<1>10. shortened \subseteq shortened'
  BY <1>1
<1> QED  BY <1>2, <1>6, <1>7, <1>8, <1>9, <1>10, OneConnection

(* A step that neither writes nor opens nor closes. *)
LEMMA NothingWritten ==
    ASSUME CommandInv, state' \in [Conns -> ClientStates],
           \A c \in Conns : state'[c].life = state[c].life,
           UNCHANGED <<stream, received, written, shortened>>
    PROVE  CommandInv'
<1>1. CommandTypes'
  BY DEF CommandInv, CommandTypes
<1>2. SilentBefore'
  BY DEF CommandInv, SilentBefore
<1>3. Opened' = Opened
  BY DEF Opened
<1>4. ASSUME NEW c \in Conns, WholeCommands(c) PROVE WholeCommands(c)'
  BY <1>4 DEF WholeCommands
<1>5. WholeCommandsInOrder'
  BY <1>3, <1>4 DEF CommandInv, WholeCommandsInOrder, Opened
<1> QED  BY <1>1, <1>2, <1>5 DEF CommandInv

(* What the callback does to the commands of its connection. *)
LEMMA CallbackWrites ==
    ASSUME IInv, CommandInv, NEW watch \in sources, Serves(watch)
    PROVE  CommandInv'
<1> DEFINE c == watch.conn
<1>1. c \in Opened /\ c \in Conns /\ watch = WatchOf(c)
  BY SourceIsOpen
<1>2. state[c] \in ClientStates /\ state[c].life = "open"
  BY <1>1 DEF Opened, IInv, TypeInv
<1>3. \A n \in Nat : /\ Written(state[c], n) \in ClientStates
                     /\ Written(state[c], n).life = "open"
                     /\ Written(state[c], n).watch = state[c].watch
  BY <1>2, Writing
<1> HIDE DEF c
<1>4. CASE ReadsOnly(watch)
  <2>1. PICK s \in Processed(c) : Updates(c, s, WatchOf(c))
    BY <1>1, <1>4 DEF ReadsOnly, c
  <2>2. s \in ClientStates /\ s.life = "open" /\ s.watch = state[c].watch
    BY <1>1, Processing
  <2>3. /\ state' \in [Conns -> ClientStates] /\ Opened' = Opened
        /\ \A e \in Conns : e # c => state'[e] = state[e]
    BY <1>1, <2>1, <2>2, Updating
  <2>4. state'[c].life = "open"
    BY <1>1, <2>3 DEF Opened
  <2>5. UNCHANGED <<stream, received, written, shortened>>
    BY <1>4 DEF ReadsOnly, history
  <2> QED  BY <1>2, <2>3, <2>4, <2>5, NothingWritten
<1>5. CASE WritesOnly(watch)
  <2>1. Writes(c, state[c], WatchOf(c)) /\ received' = received
    BY <1>1, <1>5 DEF WritesOnly, c
  <2>2. PICK n \in Nat : Updates(c, Written(state[c], n), WatchOf(c))
    BY <1>1, <2>1, BytesTaken
  <2>3. /\ state' \in [Conns -> ClientStates] /\ Opened' = Opened
        /\ \A e \in Conns : e # c => state'[e] = state[e]
    BY <1>1, <1>3, <2>2, Updating
  <2> QED  BY <1>1, <1>2, <2>1, <2>3, CommandWritten
<1>6. CASE ReadsAndWrites(watch)
  <2>1. PICK s \in Processed(c) : Writes(c, s, WatchOf(c))
    BY <1>1, <1>6 DEF ReadsAndWrites, c
  <2>2. s \in ClientStates /\ s.life = "open" /\ s.watch = state[c].watch
    BY <1>1, Processing
  <2>3. PICK n \in Nat : Updates(c, Written(s, n), WatchOf(c))
    BY <1>1, <2>1, BytesTaken
  <2>4. Written(s, n) \in ClientStates /\ Written(s, n).life = "open"
        /\ Written(s, n).watch = state[c].watch
    BY <2>2, Writing
  <2>5. /\ state' \in [Conns -> ClientStates] /\ Opened' = Opened
        /\ \A e \in Conns : e # c => state'[e] = state[e]
    BY <1>1, <2>3, <2>4, Updating
  <2>6. received' = received
    BY <1>6 DEF ReadsAndWrites
  <2> QED  BY <1>1, <2>1, <2>2, <2>5, <2>6, CommandWritten
<1>7. CASE ReadsIntoNoRow(watch)
  <2>1. UNCHANGED <<state, stream, received, written, shortened>>
    BY <1>7 DEF ReadsIntoNoRow, Ends, client, engines, history
  <2> QED  BY <2>1, NothingWritten DEF CommandInv, CommandTypes
<1>8. CASE WritesNoCommand(watch)
  <2>1. UNCHANGED <<state, stream, received, written, shortened>>
    BY <1>8 DEF WritesNoCommand, Ends, client, engines, history
  <2> QED  BY <2>1, NothingWritten DEF CommandInv, CommandTypes
<1> QED  BY <1>4, <1>5, <1>6, <1>7, <1>8 DEF Serves

(* A new connection has sent nothing. *)
LEMMA NothingSentYet ==
    ASSUME IInv, CommandInv, NEW c \in Conns, async_accept(c)
    PROVE  CommandInv'
<1>1. /\ state[c].life = "none" /\ state' = [state EXCEPT ![c] = NewState(next_id)]
      /\ UNCHANGED <<stream, received, written, shortened>>
  BY DEF async_accept
<1>2. NewState(next_id) \in ClientStates /\ NewState(next_id).life = "open"
  BY DEF NewState, ClientStates, IInv, TypeInv
<1>3. /\ state' \in [Conns -> ClientStates] /\ state'[c].life = "open"
      /\ \A e \in Conns \ {c} : state'[e] = state[e]
  <2> HIDE DEF ClientStates
  <2> QED  BY <1>1, <1>2 DEF IInv, TypeInv
<1>4. CommandTypes'
  BY <1>1, <1>3 DEF CommandInv, CommandTypes
<1>5. stream'[c] = << >> /\ written'[c] = << >> /\ received'[c] = << >>
  BY <1>1 DEF CommandInv, SilentBefore
<1>6. WholeCommands(c)'
  <2> DEFINE waiting == SubSeq(written'[c], Len(received'[c]) + 1, Len(written'[c]))
  <2>1. Len(written'[c]) = 0 /\ Len(received'[c]) = 0 /\ Len(stream'[c]) = 0
    BY <1>5
  <2>2. waiting = << >>
    BY <1>5, <2>1
  <2> HIDE DEF waiting
  <2>3. AreBytes(stream'[c], waiting)
    BY <1>5, <2>2, SocketsAssumption DEF AreBytes
  <2> QED  BY <2>1, <2>3 DEF WholeCommands, waiting
<1>7. \A e \in Conns \ {c} : Sent(e)' = Sent(e)
  BY <1>1, <1>3 DEF Sent
<1> QED  BY <1>1, <1>3, <1>4, <1>6, <1>7, OneConnection

(* A closed connection is promised nothing. *)
LEMMA NothingPromised ==
    ASSUME IInv, CommandInv, NEW c \in Conns, clientstate_delete(c)
    PROVE  CommandInv'
<1>1. /\ state' = [state EXCEPT ![c] = [state[c] EXCEPT !.life = "freed"]]
      /\ stream' = [stream EXCEPT ![c] = << >>]
      /\ UNCHANGED <<received, written, shortened>>
  BY DEF clientstate_delete, history, IInv, TypeInv
<1>2. [state[c] EXCEPT !.life = "freed"] \in ClientStates
  BY DEF IInv, TypeInv, ClientStates
<1>3. /\ state' \in [Conns -> ClientStates] /\ state'[c].life = "freed"
      /\ \A e \in Conns \ {c} : state'[e] = state[e]
  BY <1>1, <1>2 DEF IInv, TypeInv, ClientStates
<1>4. << >> \in ByteStreams
  BY DEF ByteStreams
<1>5. stream' \in [Conns -> ByteStreams] /\ \A e \in Conns \ {c} : stream'[e] = stream[e]
  BY <1>1, <1>4 DEF CommandInv, CommandTypes
<1>6. CommandTypes'
  BY <1>1, <1>3, <1>5 DEF CommandInv, CommandTypes
<1>7. \A e \in Conns \ {c} : Sent(e)' = Sent(e)
  BY <1>1, <1>3, <1>5 DEF Sent
<1> QED  BY <1>1, <1>3, <1>6, <1>7, OneConnection

(* A selection or a button issues a command, which the callback will write. *)
LEMMA NotYetWritten ==
    ASSUME IInv, CommandInv, varview_selection_function \/ process_a_button
    PROVE  CommandInv'
<1> DEFINE c == global
           t == Issued(state[c])
           u == [Issued(state[c]) EXCEPT !.fetching = TRUE]
<1>1. /\ c \in Opened /\ c \in Conns /\ state[c].life = "open" /\ state[c] \in ClientStates
  <2>1. state[c].life = "open"
    BY DEF varview_selection_function, process_a_button
  <2>2. c \in Conns
    BY DEF varview_selection_function, process_a_button, IInv, PointerInv, Opened
  <2> QED  BY <2>1, <2>2 DEF IInv, TypeInv, Opened
<1>2. /\ Rewatches(c, t, {}) \/ Rewatches(c, u, {})
      /\ UNCHANGED <<stream, received, written, shortened>>
  BY DEF varview_selection_function, process_a_button, engines, history
<1>3. /\ t \in ClientStates /\ t.life = "open"
      /\ u \in ClientStates /\ u.life = "open"
  <2>1. t \in ClientStates /\ t.life = "open"
    BY <1>1, Issuing
  <2> QED  BY <2>1 DEF ClientStates
<1> HIDE DEF t, u
<1>4. /\ state' \in [Conns -> ClientStates] /\ Opened' = Opened
      /\ \A e \in Conns : e # c => state'[e] = state[e]
  <2>1. {} \in SUBSET {WatchOf(c)}
    OBVIOUS
  <2> QED  BY <1>1, <1>2, <1>3, <2>1, Rewatching
<1>5. state'[c].life = "open"
  BY <1>1, <1>4 DEF Opened
<1> QED  BY <1>1, <1>2, <1>4, <1>5, NothingWritten
-----------------------------------------------------------------------------
(* Writing, reading, opening and closing keep the commands whole.          *)
THEOREM CommandsInductive == IInv /\ CommandInv /\ [Next]_vars => CommandInv'
<1> SUFFICES ASSUME IInv, CommandInv, [Next]_vars PROVE CommandInv'
  OBVIOUS
<1>1. CASE \E c \in Conns : async_accept(c)
  BY <1>1, NothingSentYet
<1>2. CASE \E watch \in sources : Serves(watch)
  BY <1>2, CallbackWrites
<1>3. CASE \E c \in Conns : EngineReads(c)
  BY <1>3, CommandRead
<1>4. CASE \E c \in Conns : clientstate_delete(c)
  BY <1>4, NothingPromised
<1>5. CASE varview_selection_function \/ process_a_button
  BY <1>5, NotYetWritten
<1>6. CASE \/ SelectsForTheFreed \/ PressesTooEarly \/ PressesForTheFreed
           \/ Exits \/ UNCHANGED vars
  <2>1. UNCHANGED <<state, stream, received, written, shortened>>
    BY <1>6 DEF SelectsForTheFreed, PressesTooEarly, PressesForTheFreed, Exits, Ends, vars, client, engines, history
  <2> QED  BY <2>1, NothingWritten DEF CommandInv, CommandTypes
<1> QED  BY <1>1, <1>2, <1>3, <1>4, <1>5, <1>6 DEF Next

(* Nothing was written yet. *)
LEMMA CommandsStart == Init => CommandInv
<1> SUFFICES ASSUME Init PROVE CommandInv
  OBVIOUS
<1>1. [NewState(0) EXCEPT !.life = "none"] \in ClientStates
  BY DEF NewState, ClientStates
<1>2. << >> \in ByteStreams /\ << >> \in Commands /\ << >> \in Seq(ByteStreams)
  BY DEF ByteStreams, Commands
<1>3. CommandTypes /\ SilentBefore
  BY <1>1, <1>2 DEF Init, CommandTypes, SilentBefore
<1>4. \A c \in Conns : state[c].life = "none"
  BY DEF Init, NewState
<1>5. WholeCommandsInOrder
  BY <1>4 DEF WholeCommandsInOrder, Opened
<1> QED  BY <1>3, <1>5 DEF CommandInv

(* For any number of connections, and commands of any length: a connection *)
(* on which no write was short carries whole commands, in the order they   *)
(* were written, to its own engine, whatever the other connections do.     *)
THEOREM CommandsStayWhole == Spec => []WholeCommandsInOrder
<1>1. Init => CommandInv
  BY CommandsStart
<1>2. IInv /\ CommandInv /\ [Next]_vars => CommandInv'
  BY CommandsInductive
<1>3. CommandInv => WholeCommandsInOrder
  BY DEF CommandInv
<1> QED  BY <1>1, <1>2, <1>3, Invariance, PTL DEF Spec
=============================================================================
