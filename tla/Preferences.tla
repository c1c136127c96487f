----------------------------- MODULE Preferences ----------------------------
(***************************************************************************)
(* The settings: GConf keys, their defaults (src/src/main.c) and the       *)
(* dialog that loads, edits and saves them (src/src/callbacks.c).  A key   *)
(* that was never set reads as 0.  Fonts and the flag break_on_warning are *)
(* numbers too, 0 being no font and FALSE.                                 *)
(***************************************************************************)
EXTENDS Integers

CONSTANTS
    Stored,     \* what GConf may hold before the program first starts
    Default,    \* main's values for what reads as 0
    Typed,      \* what strtol may make of what a user types
    IntLimit,   \* a gint is in -IntLimit .. IntLimit - 1
    PortLimit,  \* the first number with more digits than the entry for the port holds
    SpinLower, SpinUpper,   \* the adjustment of the spin buttons
    MaxEdits    \* bound on fields edited, and on times the dialog is opened

EntryKeys == {"port", "max_string_length"}
SpinKeys == {"max_children", "max_depth"}
FontKeys == {"code_font", "var_font"}
Keys == EntryKeys \cup SpinKeys \cup FontKeys \cup {"break_on_warning"}

Ints == (-IntLimit) .. (IntLimit - 1)

ASSUME PreferencesAssumption ==
    /\ IntLimit \in Nat /\ IntLimit > 2
    /\ PortLimit \in Nat /\ 2 * IntLimit <= 100000 * PortLimit
    /\ Stored # {} /\ Stored \subseteq [Keys -> Ints]
    /\ Default \in [Keys -> Ints]
    /\ Typed \subseteq Ints
    /\ SpinLower \in Ints /\ SpinUpper \in Ints /\ SpinLower <= SpinUpper
    /\ MaxEdits \in Nat

VARIABLES
    conf,       \* the keys under /apps/gtkdbgp
    running,    \* the program runs
    shown,      \* the settings window is shown
    fields,     \* what its widgets hold
    edited,     \* the keys whose widgets differ from what was loaded by hand
    edits       \* how often the user did something to the dialog

prefVars == <<conf, running, shown, fields, edited, edits>>

NoFields == [k \in Keys |-> 0]

PrefInit ==
    /\ conf \in Stored
    /\ running = FALSE /\ shown = FALSE
    /\ fields = NoFields
    /\ edited = {} /\ edits = 0
-----------------------------------------------------------------------------
(* The start of main: what reads as 0 gets its default, break_on_warning is *)
(* written as it was read, and -p sets the port, for later starts too.     *)
Defaulted(c) ==
    [k \in Keys |-> IF c[k] = 0 /\ k # "break_on_warning" THEN Default[k] ELSE c[k]]

Starts(ports) ==
    /\ ~ running
    /\ running' = TRUE
    /\ \/ conf' = Defaulted(conf)
       \/ \E port \in ports : conf' = [Defaulted(conf) EXCEPT !["port"] = port]
    /\ UNCHANGED <<shown, fields, edited, edits>>

on_quit_activate ==
    /\ running
    /\ running' = FALSE
    /\ shown' = FALSE
    /\ fields' = NoFields
    /\ edited' = {}
    /\ UNCHANGED <<conf, edits>>
-----------------------------------------------------------------------------
(* The entry for the port drops the digits it has no room for, five at the *)
(* most of what a gint prints.                                             *)
OneLess(n) == IF n < PortLimit THEN n ELSE n \div 10
FirstDigits(n) == OneLess(OneLess(OneLess(OneLess(OneLess(n)))))

(* What a widget holds when it is given a number: an entry the digits that *)
(* %u prints, or the first of them, a spin button what its adjustment      *)
(* allows.                                                                 *)
Held(k, n) ==
    IF k = "port" THEN FirstDigits(n % (2 * IntLimit))
    ELSE IF k \in EntryKeys THEN n % (2 * IntLimit)
    ELSE IF k \notin SpinKeys THEN n
    ELSE IF n < SpinLower THEN SpinLower
    ELSE IF n > SpinUpper THEN SpinUpper
    ELSE n

(* The number read back: strtol returns a long, which becomes a gint. *)
ReadBackDigits(k, held) == held             \* faulty: no gint
ReadBack(k, held) ==
    IF k \in EntryKeys /\ held >= IntLimit THEN held - 2 * IntLimit ELSE held

on_preferences_activate ==
    /\ running /\ edits < MaxEdits
    /\ shown' = TRUE
    /\ fields' = [k \in Keys |-> Held(k, conf[k])]
    /\ edited' = {}
    /\ edits' = edits + 1
    /\ UNCHANGED <<conf, running>>

(* The user types into an entry, turns a spin button, picks a font, or     *)
(* clicks the check box.  A sign takes the room of a digit.                *)
UserChoices(k) ==
    CASE k = "port" -> {n \in Typed : n < PortLimit /\ 10 * n > -PortLimit}
      [] k = "max_string_length" -> Typed
      [] k \in SpinKeys  -> SpinLower .. SpinUpper
      [] k \in FontKeys  -> {1, 2}
      [] OTHER           -> {0, 1}

Edits(k) ==
    /\ shown /\ edits < MaxEdits
    /\ \E n \in UserChoices(k) : fields' = [fields EXCEPT ![k] = n]
    /\ edited' = edited \cup {k}
    /\ edits' = edits + 1
    /\ UNCHANGED <<conf, running, shown>>

(* Back to the defaults, except for the fonts; break_on_warning becomes    *)
(* TRUE, which is not what main leaves an unset key at.                    *)
on_revert_clicked ==
    /\ shown /\ edits < MaxEdits
    /\ fields' = [k \in Keys |-> CASE k \in FontKeys           -> fields[k]
                                   [] k = "break_on_warning"   -> 1
                                   [] OTHER -> Held(k, Default[k])]
    /\ edited' = edited \cup (Keys \ FontKeys)
    /\ edits' = edits + 1
    /\ UNCHANGED <<conf, running, shown>>

on_cancel_clicked ==
    /\ shown
    /\ shown' = FALSE
    /\ UNCHANGED <<conf, running, fields, edited, edits>>

on_ok_clicked ==
    /\ shown
    /\ shown' = FALSE
    /\ conf' = [k \in Keys |-> ReadBack(k, fields[k])]
    /\ UNCHANGED <<running, fields, edited, edits>>

DialogStep ==
    \/ on_preferences_activate
    \/ \E k \in Keys : Edits(k)
    \/ on_revert_clicked
    \/ on_cancel_clicked
    \/ on_ok_clicked
-----------------------------------------------------------------------------
(* A setting nobody touched in the dialog is saved as it was loaded, if its *)
(* widget can hold it: numbers pass through text, and negative ones through *)
(* %u, on the way from GConf to the widgets (174-183) and back (228-231).   *)
(* Five characters hold no negative port as %u prints it (gtkdbgp.xml:508). *)
FitsWidget(k) ==
    /\ k \in SpinKeys => conf[k] \in SpinLower .. SpinUpper
    /\ k = "port" => conf[k] \in 0 .. PortLimit - 1

OkKeepsTheRest ==
    [][\A k \in Keys \ edited :
          shown /\ ~ shown' /\ FitsWidget(k) => conf'[k] = conf[k]]_prefVars
=============================================================================
