----------------------------- MODULE DebugEngine ----------------------------
(***************************************************************************)
(* The debug engine at the other end of the socket (Xdebug in a PHP        *)
(* process), as src/src/server.c uses it.  It is not part of the           *)
(* repository.  It reads one command at a time, in order; a continuation   *)
(* command is answered when the script next stops, every other at once.    *)
(***************************************************************************)
EXTENDS DbgpWire

CONSTANTS
    Stacks,       \* the stacks a script can stop with, innermost frame first
    Refused,      \* verbs the engine may answer with an error
    EmptyScripts  \* a script may end without stopping at any statement

ASSUME EngineAssumption ==
    /\ Stacks \subseteq Seq(Files) \ {<< >>}
    /\ EmptyScripts \in BOOLEAN

VARIABLE engine

Phases == {"gone", "starting", "break", "running", "stopping"}

EngineTypeOK ==
    engine \in [ phase : Phases,
                 frames : Seq(Files),    \* of the current stop
                 stop : Nat,             \* how often a script has stopped
                 run_tid : Nat,          \* id of the continuation being run
                 breakpoints : SUBSET Nat,
                 features : SUBSET Nat ]

EngineInit ==
    engine = [ phase |-> "gone", frames |-> << >>, stop |-> 0, run_tid |-> 0,
               breakpoints |-> {}, features |-> {} ]

Sends(kind, tid, data) == toClient' = Append(toClient, Msg(kind, tid, data))

(* A script starts, connects, and announces the file it is about to run. *)
Connects(file) ==
    /\ engine.phase = "gone"
    /\ engine' = [engine EXCEPT !.phase = "starting", !.frames = << >>,
                                !.breakpoints = {}, !.features = {}]
    /\ toClient' = << Msg("init", 0, file) >>
    /\ toEngine' = << >>

(* The next command, which the engine reads when it is not running. *)
Takes(verbs) ==
    /\ engine.phase \in {"starting", "break", "stopping"}
    /\ toEngine # << >> /\ Head(toEngine).verb \in verbs
    /\ toEngine' = Tail(toEngine)

EngineContinues ==
    /\ Takes(ContinueVerbs)
    /\ engine' = IF engine.phase = "stopping"
                 THEN [engine EXCEPT !.phase = "gone"]
                 ELSE [engine EXCEPT !.phase = "running",
                                     !.run_tid = Head(toEngine).tid]
    /\ UNCHANGED toClient

(* The session is ended, with or without a last word. *)
EngineLeaves ==
    /\ Takes(EndVerbs)
    /\ engine' = [engine EXCEPT !.phase = "gone"]
    /\ \/ Sends("stopped", Head(toEngine).tid, NULL)
       \/ UNCHANGED toClient

EngineRefuses ==
    /\ Takes(Refused)
    /\ Sends("error", Head(toEngine).tid, NULL)
    /\ UNCHANGED engine

EngineSendsSource ==
    /\ Takes({"source"})
    /\ LET c == Head(toEngine)
       IN  IF c.arg \in Files THEN Sends("source", c.tid, c.arg)
                              ELSE Sends("error", c.tid, NULL)
    /\ UNCHANGED engine

(* There are no frames but at a stop. *)
EngineSendsStack ==
    /\ Takes({"stack_get"})
    /\ Sends("stack", Head(toEngine).tid,
             [stop |-> engine.stop,
              frames |-> IF engine.phase = "break" THEN engine.frames ELSE << >>])
    /\ UNCHANGED engine

EngineSendsContext ==
    /\ Takes({"context_get"})
    /\ LET c == Head(toEngine)
       IN  IF engine.phase = "break" /\ c.arg + 1 \in DOMAIN engine.frames
           THEN Sends("context", c.tid, [stop |-> engine.stop, level |-> c.arg])
           ELSE Sends("error", c.tid, NULL)
    /\ UNCHANGED engine

EngineSendsProperty ==
    /\ Takes({"property_get"})
    /\ LET c == Head(toEngine)
       IN  IF engine.phase = "break" THEN Sends("property", c.tid, c.arg)
                                     ELSE Sends("error", c.tid, NULL)
    /\ UNCHANGED engine

EngineAccepts ==
    /\ Takes({"breakpoint_set", "feature_set"})
    /\ LET c == Head(toEngine)
       IN  /\ engine' = IF c.verb = "breakpoint_set"
                        THEN [engine EXCEPT !.breakpoints = @ \cup {c.arg}]
                        ELSE [engine EXCEPT !.features = @ \cup {c.arg}]
           /\ Sends("ok", c.tid, NULL)

(* The running script stops at a statement or an exception breakpoint. *)
ScriptStops ==
    /\ engine.phase = "running"
    /\ \E frames \in Stacks :
          engine' = [engine EXCEPT !.phase = "break", !.frames = frames,
                                   !.stop = @ + 1]
    /\ Sends("break", engine.run_tid, NULL)
    /\ UNCHANGED toEngine

ScriptEnds ==
    /\ engine.phase = "running"
    /\ EmptyScripts \/ engine.frames # << >>
    /\ engine' = [engine EXCEPT !.phase = "stopping"]
    /\ Sends("stopped", engine.run_tid, NULL)
    /\ UNCHANGED toEngine

(* The process is killed, or the network between the two fails. *)
EngineDies ==
    /\ engine.phase # "gone"
    /\ engine' = [engine EXCEPT !.phase = "gone"]
    /\ UNCHANGED wires

EngineAnswers ==
    \/ EngineContinues
    \/ EngineLeaves
    \/ EngineRefuses
    \/ EngineSendsSource
    \/ EngineSendsStack
    \/ EngineSendsContext
    \/ EngineSendsProperty
    \/ EngineAccepts
=============================================================================
