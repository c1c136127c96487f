-------------------------- MODULE VariableViewProofs -------------------------
(***************************************************************************)
(* For variables of any number, nested in any way, and pages of any size:  *)
(* the rows below a row are the first of its children, in order; and a row *)
(* that offers no more has them all, as long as the rows came in pages of  *)
(* the size the client counts in.  The dialog saves what nobody touched as *)
(* it was, where the widget holds it.                                      *)
(***************************************************************************)
EXTENDS VariableView, SequenceTheorems, WellFoundedInduction, TLAPS

(***************************************************************************)
(* The inductive invariant.                                                *)
(***************************************************************************)

(* What a widget holds is read as a gint, and never as a negative size. *)
GivesBack(k, held) ==
    /\ ReadBack(k, held) \in Ints
    /\ k = "max_children" => ReadBack(k, held) >= 0

(* What the dialog holds is what was loaded, where nobody touched it. *)
PrefInv ==
    /\ conf \in [Keys -> Ints]
    /\ conf["max_children"] >= 0
    /\ shown => /\ running
                /\ fields \in [Keys -> Int]
                /\ \A k \in Keys : GivesBack(k, fields[k])
                /\ \A k \in Keys \ edited : fields[k] = Held(k, conf[k])

RowType ==
    [name : DOMAIN Children, hint : {0, FETCH_MORE, FETCH_PAGES}, count : Int,
     fetched : Nat, kids : Nat]

(* A row is below another, or one of the variables themselves. *)
Rooted(store) ==
    \A path \in DOMAIN store :
        /\ path \in Paths /\ path # << >>
        /\ Len(path) > 1 => Front(path) \in DOMAIN store

(* The children that came with the pages fetched. *)
Fetched(row, size) ==
    LET number == Len(Children[row.name])
    IN  IF row.fetched * size < number THEN row.fetched * size ELSE number

FirstKids(row, size) == Shown(SubSeq(Children[row.name], 1, Fetched(row, size)))

(* Those of them that are not hidden are the rows below. *)
InPlace(store, path, size) ==
    LET first == FirstKids(store[path], size)
    IN  /\ store[path].kids = Len(first)
        /\ \A k \in Nat : Append(path, k) \in DOMAIN store <=> k \in 1..Len(first)
        /\ \A k \in 1..Len(first) : store[Append(path, k)].name = first[k]

(* The pages counted are those the children fill. *)
Counts(row, size) ==
    LET number == Len(Children[row.name])
    IN  number > 0 => (row.count - 1) * size < number /\ number <= row.count * size

(* The hint is what the pages fetched call for. *)
Hints(row, size, levels) ==
    LET number == Len(Children[row.name])
    IN  /\ number > 0 => size > 0
        /\ Counts(row, size)
        /\ row.hint # 0 => row.fetched * size < number
        /\ row.hint = FETCH_MORE => row.fetched = 0 \/ levels = 0

NoneLeft(row, size) ==
    row.hint = 0 => Len(Children[row.name]) <= row.fetched * size

StoreInv(store, size, levels) ==
    /\ Rooted(store)
    /\ \A path \in DOMAIN store :
          /\ store[path] \in RowType
          /\ InPlace(store, path, size)
          /\ Hints(store[path], size, levels)

(* The page asked for is the next of its row, or comes without children. *)
NextPage(request, store, size, levels) ==
    /\ request \in [row : DOMAIN store, name : DOMAIN Children, page : Nat]
    /\ LET row == store[request.row]
       IN  /\ request.name = row.name
           /\ request.page = row.fetched \/ levels = 0
           /\ row.hint = 0
           /\ row.fetched * size < Len(Children[row.name])

(* Behind the first stop the engine is told how deep to go, whatever came. *)
Told == IF begun = "done" THEN Levels ELSE 1

ViewInv ==
    /\ session = NULL => DOMAIN rows = {} /\ asked = NULL
    /\ session # NULL => /\ running /\ session \in [size : Nat, depth : Int]
                         /\ begun # "done" => asked = NULL
                         /\ begun = "context" => DOMAIN rows = {}
    /\ session # NULL /\ steady =>
          /\ session.size = conf["max_children"]
          /\ StoreInv(rows, session.size, Told)
          /\ asked # NULL => NextPage(asked, rows, session.size, Told)
          /\ \A path \in DOMAIN rows \ failed :
                (asked # NULL => asked.row # path) => NoneLeft(rows[path], session.size)

IInv == PrefInv /\ ViewInv
-----------------------------------------------------------------------------
(***************************************************************************)
(* The settings.                                                           *)
(***************************************************************************)

(* What %u prints of a gint: negative ones become large. *)
LEMMA Unsigned ==
  ASSUME NEW n \in Ints
  PROVE  n % (2 * IntLimit) = IF n < 0 THEN n + 2 * IntLimit ELSE n
<1> USE PreferencesAssumption
<1> DEFINE m == 2 * IntLimit
<1>1. n \in Int /\ m \in Nat /\ -m < n /\ n < m /\ m > 0
  BY DEF Ints
<1> HIDE DEF m
<1>2. CASE n >= 0
  <2>1. n % m = n
    BY <1>1, <1>2
  <2> QED
    BY <1>1, <1>2, <2>1 DEF m
<1>3. CASE n < 0
  <2>1. n % m = n + m
    BY <1>1, <1>3
  <2> QED
    BY <1>1, <1>3, <2>1 DEF m
<1> QED
  BY <1>1, <1>2, <1>3

(* Dropping digits makes no number larger, and leaves alone one that fits. *)
LEMMA DigitsFit ==
  ASSUME NEW n \in Nat
  PROVE  FirstDigits(n) \in 0..n /\ (n < PortLimit => FirstDigits(n) = n)
<1>1. ASSUME NEW m \in 0..n
      PROVE  OneLess(m) \in 0..n /\ (m < PortLimit => OneLess(m) = m)
  BY PreferencesAssumption DEF OneLess
<1>2. n \in 0..n
  OBVIOUS
<1> QED
  BY <1>1, <1>2 DEF FirstDigits

(* A gint of an entry is read as it was, if all of its digits are there. *)
LEMMA EntryReadsBack ==
  ASSUME NEW k \in EntryKeys, NEW n \in Ints
  PROVE  /\ Held(k, n) \in Int /\ GivesBack(k, Held(k, n))
         /\ FitsWidget(k) /\ n = conf[k] => ReadBack(k, Held(k, n)) = n
<1> USE PreferencesAssumption
<1> DEFINE printed == n % (2 * IntLimit)
<1>1. printed = IF n < 0 THEN n + 2 * IntLimit ELSE n
  BY Unsigned
<1>2. n \in Int /\ -IntLimit <= n /\ n < IntLimit /\ IntLimit \in Nat /\ PortLimit \in Nat
  BY DEF Ints
<1>3. k \notin SpinKeys /\ k # "max_children"
  BY DEF EntryKeys, SpinKeys
<1> HIDE DEF printed
<1>4. printed \in Nat /\ printed < 2 * IntLimit
  BY <1>1, <1>2
<1>5. \A m \in 0..printed : ReadBack(k, m) \in Ints
  BY <1>2, <1>4 DEF ReadBack, Ints
<1>6. ReadBack(k, printed) = n
  BY <1>1, <1>2 DEF ReadBack
<1>7. CASE k = "port"
  <2>1. Held(k, n) = FirstDigits(printed)
    BY <1>7 DEF Held, printed
  <2>2. FirstDigits(printed) \in 0..printed /\ (printed < PortLimit => FirstDigits(printed) = printed)
    BY <1>4, DigitsFit
  <2>3. FitsWidget(k) /\ n = conf[k] => printed < PortLimit
    BY <1>1, <1>2, <1>7 DEF FitsWidget
  <2> QED
    BY <1>3, <1>4, <1>5, <1>6, <2>1, <2>2, <2>3 DEF GivesBack
<1>8. CASE k # "port"
  <2>1. Held(k, n) = printed
    BY <1>8 DEF Held, printed
  <2>2. printed \in 0..printed
    BY <1>4
  <2> QED
    BY <1>3, <1>4, <1>5, <1>6, <2>1, <2>2 DEF GivesBack
<1> QED
  BY <1>7, <1>8

(* A widget gives back the number it was given, if it can hold it; and in  *)
(* any case a number of the width of a gint.                               *)
LEMMA ReadsBack ==
  ASSUME NEW k \in Keys, NEW n \in Ints
  PROVE  /\ Held(k, n) \in Int /\ GivesBack(k, Held(k, n))
         /\ FitsWidget(k) /\ n = conf[k] => ReadBack(k, Held(k, n)) = n
<1> USE PreferencesAssumption
<1>0. n \in Int /\ -IntLimit <= n /\ n < IntLimit /\ IntLimit \in Nat
  BY DEF Ints
<1>1. CASE k \in EntryKeys
  BY <1>1, EntryReadsBack
<1>2. CASE k \in SpinKeys
  <2>1. k \notin EntryKeys /\ k # "port"
    BY <1>2 DEF EntryKeys, SpinKeys
  <2>2. /\ Held(k, n) \in Ints /\ Held(k, n) >= SpinLower
        /\ n \in SpinLower .. SpinUpper => Held(k, n) = n
    BY <1>0, <1>2, <2>1 DEF Held, Ints
  <2>3. ReadBack(k, Held(k, n)) = Held(k, n)
    BY <2>1 DEF ReadBack
  <2>4. Held(k, n) \in Int /\ SpinLower \in Int /\ SpinLower >= 0
    BY <2>2, SizeAssumption DEF Ints
  <2>5. FitsWidget(k) /\ n = conf[k] => n \in SpinLower .. SpinUpper
    BY <1>2 DEF FitsWidget
  <2>6. Held(k, n) >= 0
    BY <2>2, <2>4
  <2> QED
    BY <2>2, <2>3, <2>4, <2>5, <2>6 DEF GivesBack
<1>3. CASE k \notin EntryKeys /\ k \notin SpinKeys
  <2>1. k # "max_children" /\ k # "port"
    BY <1>3 DEF SpinKeys, EntryKeys
  <2>2. Held(k, n) = n /\ ReadBack(k, Held(k, n)) = n
    BY <1>3, <2>1 DEF Held, ReadBack
  <2> QED
    BY <1>0, <2>1, <2>2 DEF GivesBack
<1> QED
  BY <1>1, <1>2, <1>3

(* What the user enters is a gint, and no negative size. *)
LEMMA ChoicesGiveBack ==
  ASSUME NEW k \in Keys, NEW n \in UserChoices(k)
  PROVE  n \in Int /\ GivesBack(k, n)
<1> USE PreferencesAssumption
<1>1. /\ IntLimit \in Nat /\ IntLimit > 2
      /\ SpinLower \in Ints /\ SpinUpper \in Ints
      /\ Typed \subseteq Ints
  OBVIOUS
<1>2. {0, 1, 2} \subseteq Ints /\ SpinLower .. SpinUpper \subseteq Ints
  BY <1>1 DEF Ints
<1>3. n \in Ints /\ (k = "max_children" => n >= 0)
  <2>1. CASE k \in EntryKeys
    <3>1. n \in Typed /\ k # "max_children"
      BY <2>1 DEF UserChoices, EntryKeys, SpinKeys, FontKeys
    <3> QED
      BY <1>1, <3>1
  <2>2. CASE k \in SpinKeys
    <3>1. n \in SpinLower .. SpinUpper
      BY <2>2 DEF UserChoices, EntryKeys, SpinKeys, FontKeys
    <3>2. SpinLower \in Int /\ SpinUpper \in Int
      BY <1>1 DEF Ints
    <3> QED
      BY <1>2, <3>1, <3>2, SizeAssumption
  <2>3. CASE k \in FontKeys
    BY <1>2, <2>3 DEF UserChoices, EntryKeys, SpinKeys, FontKeys
  <2>4. CASE k = "break_on_warning"
    BY <1>2, <2>4 DEF UserChoices, EntryKeys, SpinKeys, FontKeys
  <2> QED
    BY <2>1, <2>2, <2>3, <2>4 DEF Keys
<1>4. n \in Int /\ ~ (n >= IntLimit)
  BY <1>1, <1>3 DEF Ints
<1>5. ReadBack(k, n) = n
  BY <1>4 DEF ReadBack
<1> QED
  BY <1>3, <1>4, <1>5 DEF GivesBack

(* What main makes of the settings keeps their types.                      *)
LEMMA DefaultedIsTyped ==
  ASSUME NEW c \in [Keys -> Ints], c["max_children"] >= 0
  PROVE  Defaulted(c) \in [Keys -> Ints] /\ Defaulted(c)["max_children"] >= 0
<1>1. Default \in [Keys -> Ints] /\ Default["max_children"] >= 0 /\ "max_children" \in Keys
  BY PreferencesAssumption, SizeAssumption DEF Keys, SpinKeys
<1>2. \A k \in Keys : Defaulted(c)[k] \in {c[k], Default[k]}
  BY DEF Defaulted
<1> QED
  BY <1>1, <1>2 DEF Defaulted

-----------------------------------------------------------------------------
(* What the program does to the settings: it starts, ends, or runs the     *)
(* dialog.                                                                 *)
PrefStep ==
    \/ Starts(Typed)
    \/ on_quit_activate
    \/ DialogStep
    \/ UNCHANGED prefVars

(* Every step does something to the settings, or leaves them alone.        *)
LEMMA StepsOfSettings ==
  ASSUME [Next]_vars
  PROVE  PrefStep
<1>1. CASE UNCHANGED vars
  BY <1>1 DEF vars, PrefStep
<1>2. CASE ProgramStarts \/ ProgramQuits \/ SettingsStep
  BY <1>2 DEF ProgramStarts, ProgramQuits, SettingsStep, PrefStep
<1>3. CASE \/ async_accept \/ SetsMaxChildren \/ SetsMaxDepth
           \/ ConnectionLost \/ process_update_context_vars
           \/ \E path \in DOMAIN rows : varview_selection_function(path)
           \/ \E path \in DOMAIN rows : SelectsOnly(path)
           \/ process_fetched_property \/ process_fetched_error
  BY <1>3 DEF async_accept, SetsMaxChildren, SetsMaxDepth, ConnectionLost,
       process_update_context_vars,
       varview_selection_function, SelectsOnly, process_fetched_property,
       process_fetched_error, PrefStep
<1> QED
  BY <1>1, <1>2, <1>3 DEF Next

(* The settings keep their types, and the untouched widgets what was loaded. *)
LEMMA PrefKeeps ==
  ASSUME PrefInv, PrefStep
  PROVE  PrefInv'
<1> USE DEF PrefInv
<1>1. CASE Starts(Typed)
  <2>1. ~ shown'
    BY <1>1 DEF Starts
  <2>2. Defaulted(conf) \in [Keys -> Ints] /\ Defaulted(conf)["max_children"] >= 0
    BY DefaultedIsTyped
  <2>3. CASE conf' = Defaulted(conf)
    BY <2>1, <2>2, <2>3
  <2>4. ASSUME NEW port \in Typed, conf' = [Defaulted(conf) EXCEPT !["port"] = port]
        PROVE  PrefInv'
    <3>1. port \in Ints /\ "max_children" \in Keys
      BY PreferencesAssumption DEF Keys, SpinKeys
    <3>2. conf' \in [Keys -> Ints] /\ conf'["max_children"] = Defaulted(conf)["max_children"]
      BY <2>2, <2>4, <3>1
    <3> QED
      BY <2>1, <2>2, <3>2
  <2> QED
    BY <1>1, <2>3, <2>4 DEF Starts
<1>2. CASE on_quit_activate
  BY <1>2 DEF on_quit_activate
<1>3. CASE on_preferences_activate
  <2>1. /\ shown' /\ running' /\ conf' = conf /\ edited' = {}
        /\ fields' = [k \in Keys |-> Held(k, conf[k])]
    BY <1>3 DEF on_preferences_activate
  <2>2. \A k \in Keys : Held(k, conf[k]) \in Int /\ GivesBack(k, Held(k, conf[k]))
    BY ReadsBack
  <2> QED
    BY <2>1, <2>2
<1>4. ASSUME NEW k \in Keys, Edits(k) PROVE PrefInv'
  <2>1. PICK n \in UserChoices(k) : fields' = [fields EXCEPT ![k] = n]
    BY <1>4 DEF Edits
  <2>2. /\ shown /\ shown' /\ running' = running /\ conf' = conf /\ edited' = edited \cup {k}
    BY <1>4 DEF Edits
  <2>3. n \in Int /\ GivesBack(k, n)
    BY ChoicesGiveBack
  <2> QED
    BY <2>1, <2>2, <2>3
<1>5. CASE on_revert_clicked
  <2>1. /\ shown /\ shown' = shown /\ running' = running /\ conf' = conf
        /\ edited' = edited \cup (Keys \ FontKeys)
    BY <1>5 DEF on_revert_clicked
  <2>2. fields' = [k \in Keys |-> CASE k \in FontKeys           -> fields[k]
                                     [] k = "break_on_warning"   -> 1
                                     [] OTHER -> Held(k, Default[k])]
    BY <1>5 DEF on_revert_clicked
  <2>3. \A k \in Keys : Held(k, Default[k]) \in Int /\ GivesBack(k, Held(k, Default[k]))
    BY ReadsBack, PreferencesAssumption
  <2>4. "break_on_warning" \in Keys \ FontKeys /\ 1 \in UserChoices("break_on_warning")
    BY DEF Keys, FontKeys, UserChoices, SpinKeys
  <2>5. GivesBack("break_on_warning", 1)
    BY <2>4, ChoicesGiveBack
  <2>6. \A k \in Keys :
           /\ k \in FontKeys => fields'[k] = fields[k]
           /\ k = "break_on_warning" => fields'[k] = 1
           /\ k \notin FontKeys /\ k # "break_on_warning" => fields'[k] = Held(k, Default[k])
    BY <2>2, <2>4
  <2>7. fields' \in [Keys -> Int]
    BY <2>1, <2>2, <2>3, <2>4, <2>6
  <2>8. \A k \in Keys : GivesBack(k, fields'[k])
    BY <2>1, <2>3, <2>5, <2>6
  <2>9. \A k \in Keys \ edited' : fields'[k] = Held(k, conf'[k])
    BY <2>1, <2>6
  <2> QED
    BY <2>1, <2>7, <2>8, <2>9
<1>6. CASE on_cancel_clicked
  BY <1>6 DEF on_cancel_clicked
<1>7. CASE on_ok_clicked
  <2>1. shown /\ ~ shown' /\ conf' = [k \in Keys |-> ReadBack(k, fields[k])]
    BY <1>7 DEF on_ok_clicked
  <2>2. \A k \in Keys : /\ ReadBack(k, fields[k]) \in Ints
                        /\ k = "max_children" => ReadBack(k, fields[k]) >= 0
    BY <2>1 DEF GivesBack
  <2>3. "max_children" \in Keys
    BY DEF Keys, SpinKeys
  <2> QED
    BY <2>1, <2>2, <2>3
<1>8. CASE UNCHANGED prefVars
  BY <1>8 DEF prefVars
<1> QED
  BY <1>1, <1>2, <1>3, <1>4, <1>5, <1>6, <1>7, <1>8 DEF PrefStep, DialogStep

(* A window that is closed leaves alone what nobody touched. *)
LEMMA UntouchedStays ==
  ASSUME PrefInv, PrefStep,
         NEW k \in Keys \ edited, shown, ~ shown', FitsWidget(k)
  PROVE  conf'[k] = conf[k]
<1>1. CASE on_ok_clicked
  <2>1. conf'[k] = ReadBack(k, fields[k])
    BY <1>1 DEF on_ok_clicked
  <2>2. fields[k] = Held(k, conf[k]) /\ conf[k] \in Ints
    BY DEF PrefInv
  <2> QED
    BY <2>1, <2>2, ReadsBack
<1>2. CASE ~ on_ok_clicked
  <2>1. CASE Starts(Typed)
    BY <2>1 DEF Starts, PrefInv
  <2>2. CASE on_quit_activate
    BY <2>2 DEF on_quit_activate
  <2>3. CASE DialogStep
    BY <1>2, <2>3 DEF DialogStep, on_preferences_activate, Edits, on_revert_clicked,
         on_cancel_clicked
  <2>4. CASE UNCHANGED prefVars
    BY <2>4 DEF prefVars
  <2> QED
    BY <2>1, <2>2, <2>3, <2>4 DEF PrefStep
<1> QED
  BY <1>1, <1>2

(* And it holds of whatever GConf had stored.                              *)
LEMMA PrefStarts ==
  ASSUME PrefInit
  PROVE  PrefInv
<1>1. conf \in Stored /\ ~ shown
  BY DEF PrefInit
<1>2. conf \in [Keys -> Ints]
  BY <1>1, PreferencesAssumption
<1>3. conf["max_children"] >= 0
  BY <1>1, SizeAssumption
<1> QED
  BY <1>1, <1>2, <1>3 DEF PrefInv

(* A setting nobody touched in the dialog is saved as it was loaded, if its *)
(* widget can hold it: a spin button only what its adjustment allows, the  *)
(* entry for the port no more than its five characters                     *)
(* (src/src/callbacks.c:174-183, 228-231; src/gtkdbgp.xml:508).            *)
THEOREM UntouchedSettingsStay == Spec => OkKeepsTheRest
<1>1. Init => PrefInv
  BY PrefStarts DEF Init
<1>2. PrefInv /\ [Next]_vars => PrefInv'
  BY StepsOfSettings, PrefKeeps
<1>3. PrefInv /\ [Next]_vars
      => [\A k \in Keys \ edited :
             shown /\ ~ shown' /\ FitsWidget(k) => conf'[k] = conf[k]]_prefVars
  BY StepsOfSettings, UntouchedStays
<1> QED
  BY <1>1, <1>2, <1>3, PTL DEF Spec, OkKeepsTheRest
-----------------------------------------------------------------------------
(***************************************************************************)
(* Which children are shown.                                               *)
(***************************************************************************)

(* A set of numbers has a least one. *)
LEMMA Least ==
  ASSUME NEW Good \in SUBSET Nat, Good # {}
  PROVE  \E x \in Good : \A y \in Good : x <= y
<1> DEFINE Less == OpToRel(<, Nat)
<1>1. IsWellFoundedOn(Less, Nat)
  BY NatLessThanWellFounded
<1>2. \A x, y \in Nat : <<x, y>> \in Less <=> x < y
  BY DEF OpToRel
<1> HIDE DEF Less
<1>3. PICK x \in Good : \A y \in Good : ~ (<<y, x>> \in Less)
  BY <1>1, WFMin
<1>4. \A y \in Good : ~ (y < x)
  BY <1>2, <1>3
<1> HIDE <1>2
<1>5. x \in Nat /\ \A y \in Good : y \in Nat
  BY <1>3
<1> QED
  BY <1>3, <1>4, <1>5

(* What holds of 0, and of a number after one it holds of, holds of all. *)
LEMMA Upwards ==
  ASSUME NEW n \in Nat, NEW Good, 0 \in Good,
         \A m \in 0..(n - 1) : m \in Good => m + 1 \in Good
  PROVE  0..n \subseteq Good
<1> SUFFICES ASSUME NEW x \in 0..n, x \notin Good PROVE FALSE
  OBVIOUS
<1> DEFINE Bad == {m \in 0..n : m \notin Good}
<1>1. Bad \in SUBSET Nat /\ x \in Bad
  OBVIOUS
<1>2. PICK m \in Bad : \A k \in Bad : m <= k
  <2> HIDE DEF Bad
  <2> QED
    BY <1>1, Least
<1>3. m \in 0..n /\ m \notin Good /\ m # 0
  BY <1>2
<1>4. m - 1 \in 0..(n - 1) /\ m - 1 \in 0..n /\ (m - 1) + 1 = m /\ ~ (m <= m - 1)
  BY <1>3
<1>5. m - 1 \in Good
  BY <1>2, <1>4
<1> QED
  BY <1>3, <1>4, <1>5

(* What is kept of the first i names. *)
IsKept(kept, names, n) ==
    kept = [i \in 0..n |-> IF i = 0 THEN << >>
                           ELSE IF names[i] \in Hidden THEN kept[i - 1]
                           ELSE Append(kept[i - 1], names[i])]

(* There is such a function, up to any length: upwards, one name at a time.*)
LEMMA KeptExists ==
  ASSUME NEW S, NEW names \in Seq(S)
  PROVE  \E kept : IsKept(kept, names, Len(names))
<1> DEFINE Good == {n \in 0..Len(names) : \E kept : IsKept(kept, names, n)}
<1>1. 0 \in Good
  <2> DEFINE none == [i \in 0..0 |-> << >>]
  <2>1. IsKept(none, names, 0)
    BY DEF IsKept
  <2>2. 0 \in 0..Len(names)
    OBVIOUS
  <2> HIDE DEF none
  <2> QED
    BY <2>1, <2>2
<1>2. ASSUME NEW m \in 0..(Len(names) - 1), m \in Good
      PROVE  m + 1 \in Good
  <2>1. PICK kept : IsKept(kept, names, m)
    BY <1>2
  <2> DEFINE last == IF names[m + 1] \in Hidden THEN kept[m] ELSE Append(kept[m], names[m + 1])
             more == [i \in 0..(m + 1) |-> IF i = m + 1 THEN last ELSE kept[i]]
  <2>2. \A i \in 0..m : i \in 0..(m + 1) /\ i # m + 1 /\ more[i] = kept[i]
    OBVIOUS
  <2>3. \A i \in 0..m : kept[i] = IF i = 0 THEN << >>
                                  ELSE IF names[i] \in Hidden THEN kept[i - 1]
                                  ELSE Append(kept[i - 1], names[i])
    BY <2>1 DEF IsKept
  <2>4. more[m + 1] = last /\ (m + 1) - 1 = m /\ m + 1 # 0 /\ m \in 0..m
    OBVIOUS
  <2>5. \A i \in 0..(m + 1) : more[i] = IF i = 0 THEN << >>
                                        ELSE IF names[i] \in Hidden THEN more[i - 1]
                                        ELSE Append(more[i - 1], names[i])
    <3> TAKE i \in 0..(m + 1)
    <3>1. CASE i = m + 1
      <4>1. more[m] = kept[m]
        BY <2>2, <2>4
      <4> HIDE DEF more
      <4> QED
        BY <3>1, <2>4, <4>1
    <3>2. CASE i # m + 1
      <4>1. i \in 0..m /\ (i = 0 \/ i - 1 \in 0..m)
        BY <3>2
      <4>2. more[i] = kept[i] /\ (i = 0 \/ more[i - 1] = kept[i - 1])
        BY <2>2, <4>1
      <4> HIDE DEF more
      <4> QED
        BY <2>3, <4>1, <4>2
    <3> QED
      BY <3>1, <3>2
  <2>6. more = [i \in 0..(m + 1) |-> more[i]]
    OBVIOUS
  <2> HIDE DEF more
  <2>7. IsKept(more, names, m + 1)
    BY <2>5, <2>6 DEF IsKept
  <2> QED
    BY <2>7
<1>3. Len(names) \in Nat
  OBVIOUS
<1>4. 0..Len(names) \subseteq Good
  <2> HIDE DEF Good
  <2> QED
    BY <1>1, <1>2, <1>3, Upwards
<1> QED
  BY <1>3, <1>4

(* Its values are sequences of names.                                      *)
LEMMA KeptIsTyped ==
  ASSUME NEW S, NEW names \in Seq(S), NEW kept, IsKept(kept, names, Len(names))
  PROVE  kept \in [0..Len(names) -> Seq(S)]
<1> DEFINE Good == {i \in 0..Len(names) : kept[i] \in Seq(S)}
<1>1. \A i \in 0..Len(names) : kept[i] = IF i = 0 THEN << >>
                                         ELSE IF names[i] \in Hidden THEN kept[i - 1]
                                         ELSE Append(kept[i - 1], names[i])
  BY DEF IsKept
<1>2. 0 \in Good
  <2>1. kept[0] = << >> /\ 0 \in 0..Len(names)
    BY <1>1
  <2>2. << >> \in Seq(S)
    OBVIOUS
  <2> QED
    BY <2>1, <2>2
<1>3. ASSUME NEW m \in 0..(Len(names) - 1), m \in Good
      PROVE  m + 1 \in Good
  <2>1. kept[m + 1] = IF names[m + 1] \in Hidden THEN kept[m] ELSE Append(kept[m], names[m + 1])
    BY <1>1
  <2>2. names[m + 1] \in S /\ kept[m] \in Seq(S) /\ m + 1 \in 0..Len(names)
    BY <1>3
  <2>3. Append(kept[m], names[m + 1]) \in Seq(S)
    BY <2>2
  <2>4. kept[m + 1] \in Seq(S)
    BY <2>1, <2>2, <2>3, Zenon
  <2> QED
    BY <2>2, <2>4
<1>4. 0..Len(names) \subseteq Good
  <2> HIDE DEF Good
  <2>1. Len(names) \in Nat
    OBVIOUS
  <2> QED
    BY <1>2, <1>3, <2>1, Upwards
<1>5. kept = [i \in 0..Len(names) |-> kept[i]]
  BY DEF IsKept
<1> QED
  BY <1>4, <1>5

(* What is shown of a list is what is kept of all of it. *)
LEMMA ShownIsKept ==
  ASSUME NEW S, NEW names \in Seq(S)
  PROVE  \E kept : /\ IsKept(kept, names, Len(names))
                   /\ kept \in [0..Len(names) -> Seq(S)]
                   /\ Shown(names) = kept[Len(names)]
<1> DEFINE kept == CHOOSE kept : IsKept(kept, names, Len(names))
<1>1. IsKept(kept, names, Len(names))
  BY KeptExists
<1>2. Shown(names) = kept[Len(names)]
  BY Zenon DEF Shown, IsKept
<1> HIDE DEF kept
<1>3. kept \in [0..Len(names) -> Seq(S)]
  BY <1>1, KeptIsTyped
<1> QED
  BY <1>1, <1>2, <1>3

(* Of the names two lists begin with, the same are kept. *)
BeginsWith(more, names, n) == \A i \in 1..n : names[i] = more[i]
Agree(kept, also, n) == kept[n] = also[n]

(* Of names that begin alike, the same is kept so far.                     *)
LEMMA KeptAgrees ==
  ASSUME NEW names, NEW more, NEW n \in Nat, NEW l \in Nat, n <= l,
         BeginsWith(more, names, n),
         NEW kept, NEW also, IsKept(kept, names, n), IsKept(also, more, l)
  PROVE  Agree(kept, also, n)
<1> USE DEF BeginsWith, Agree
<1> DEFINE Good == {i \in 0..n : kept[i] = also[i]}
<1>1. \A i \in 0..n : kept[i] = IF i = 0 THEN << >>
                                ELSE IF names[i] \in Hidden THEN kept[i - 1]
                                ELSE Append(kept[i - 1], names[i])
  BY DEF IsKept
<1>2. \A i \in 0..l : also[i] = IF i = 0 THEN << >>
                                ELSE IF more[i] \in Hidden THEN also[i - 1]
                                ELSE Append(also[i - 1], more[i])
  BY DEF IsKept
<1>3. 0 \in Good
  BY <1>1, <1>2
<1>4. ASSUME NEW m \in 0..(n - 1), m \in Good
      PROVE  m + 1 \in Good
  <2>1. /\ m + 1 \in 0..n /\ m + 1 \in 0..l /\ m + 1 \in 1..n /\ m + 1 # 0 /\ (m + 1) - 1 = m
        /\ kept[m] = also[m]
    BY <1>4
  <2> QED
    BY <1>1, <1>2, <2>1
<1>5. 0..n \subseteq Good
  <2> HIDE DEF Good
  <2> QED
    BY <1>3, <1>4, Upwards
<1> QED
  BY <1>5

(* What is shown of a list of names is a list of names.                    *)
LEMMA ShownIsTyped ==
  ASSUME NEW S, NEW names \in Seq(S)
  PROVE  Shown(names) \in Seq(S)
<1>1. PICK kept : /\ kept \in [0..Len(names) -> Seq(S)]
                  /\ Shown(names) = kept[Len(names)]
  BY ShownIsKept
<1>2. Len(names) \in 0..Len(names)
  OBVIOUS
<1> QED
  BY <1>1, <1>2

(* Nothing is shown of nothing.                                            *)
LEMMA NoneShown ==
  Shown(<< >>) = << >>
<1>1. << >> \in Seq({}) /\ Len(<< >>) = 0
  OBVIOUS
<1>2. PICK none : IsKept(none, << >>, Len(<< >>)) /\ Shown(<< >>) = none[Len(<< >>)]
  BY <1>1, ShownIsKept
<1> QED
  BY <1>1, <1>2 DEF IsKept

(* One more is shown of one more name, unless it is hidden. *)
LEMMA ShownStep ==
  ASSUME NEW S, NEW names \in Seq(S), NEW name \in S
  PROVE  Shown(Append(names, name)) =
           IF name \in Hidden THEN Shown(names) ELSE Append(Shown(names), name)
<1>1. PICK kept : /\ IsKept(kept, names, Len(names))
                  /\ kept \in [0..Len(names) -> Seq(S)]
                  /\ Shown(names) = kept[Len(names)]
  BY ShownIsKept
<1> DEFINE more == Append(names, name)
<1>2. /\ more \in Seq(S) /\ Len(more) = Len(names) + 1 /\ Len(names) \in Nat
      /\ more[Len(more)] = name
      /\ \A i \in 1..Len(names) : names[i] = more[i]
  OBVIOUS
<1> HIDE DEF more
<1>3. PICK also : /\ IsKept(also, more, Len(more))
                  /\ also \in [0..Len(more) -> Seq(S)]
                  /\ Shown(more) = also[Len(more)]
  BY <1>2, ShownIsKept
<1>4. kept[Len(names)] = also[Len(names)]
  <2> DEFINE n == Len(names)
             l == Len(more)
  <2>1. n \in Nat /\ l \in Nat /\ n <= l /\ BeginsWith(more, names, n)
    BY <1>2 DEF BeginsWith
  <2>2. IsKept(kept, names, n) /\ IsKept(also, more, l)
    BY <1>1, <1>3
  <2> HIDE DEF n, l
  <2>3. Agree(kept, also, n)
    BY <2>1, <2>2, KeptAgrees, Zenon
  <2> QED
    BY <2>3 DEF n, Agree
<1>5. also[Len(more)] = IF more[Len(more)] \in Hidden THEN also[Len(more) - 1]
                        ELSE Append(also[Len(more) - 1], more[Len(more)])
  <2>1. Len(more) \in 0..Len(more) /\ Len(more) # 0
    BY <1>2
  <2>2. \A i \in 0..Len(more) : also[i] = IF i = 0 THEN << >>
                                           ELSE IF more[i] \in Hidden THEN also[i - 1]
                                           ELSE Append(also[i - 1], more[i])
    BY <1>3 DEF IsKept
  <2> QED
    BY <2>1, <2>2
<1>6. Shown(more) = IF name \in Hidden THEN Shown(names) ELSE Append(Shown(names), name)
  BY <1>1, <1>2, <1>3, <1>4, <1>5
<1> QED
  BY <1>6 DEF more

(* What is appended to the second of two lists ends them both. *)
EndsWith(s, t, e) == Append(s \o t, e) = s \o Append(t, e)

(* Appending to the end of a concatenation.                                *)
LEMMA AppendConcat ==
  ASSUME NEW S, NEW s \in Seq(S), NEW t \in Seq(S), NEW e \in S
  PROVE  EndsWith(s, t, e)
<1>1. /\ s \o t \in Seq(S) /\ Len(s \o t) = Len(s) + Len(t)
      /\ \A i \in 1 .. Len(s) + Len(t) :
            (s \o t)[i] = IF i <= Len(s) THEN s[i] ELSE t[i - Len(s)]
  BY ConcatProperties
<1> DEFINE both == s \o t
           more == Append(t, e)
           whole == s \o more
<1>2. more \in Seq(S) /\ Len(more) = Len(t) + 1 /\ more[Len(t) + 1] = e
      /\ \A i \in 1..Len(t) : more[i] = t[i]
  OBVIOUS
<1> HIDE DEF more
<1>3. /\ whole \in Seq(S) /\ Len(whole) = Len(s) + Len(more)
      /\ \A i \in 1 .. Len(s) + Len(more) :
            whole[i] = IF i <= Len(s) THEN s[i] ELSE more[i - Len(s)]
  BY <1>2, ConcatProperties
<1> HIDE DEF both, whole
<1>4. both \in Seq(S) /\ Len(both) = Len(s) + Len(t)
  BY <1>1 DEF both
<1>5. \A i \in 1 .. Len(s) + Len(t) : both[i] = IF i <= Len(s) THEN s[i] ELSE t[i - Len(s)]
  BY <1>1 DEF both
<1>6. /\ Append(both, e) \in Seq(S) /\ Len(Append(both, e)) = Len(both) + 1
      /\ Append(both, e)[Len(both) + 1] = e
      /\ \A i \in 1..Len(both) : Append(both, e)[i] = both[i]
  BY <1>4
<1>7. Len(s) \in Nat /\ Len(t) \in Nat
  OBVIOUS
<1>8. \A i \in 1..Len(Append(both, e)) : Append(both, e)[i] = whole[i]
  <2> TAKE i \in 1..Len(Append(both, e))
  <2>1. CASE i = Len(s) + Len(t) + 1
    <3>1. whole[i] = more[Len(t) + 1]
      BY <1>2, <1>3, <1>7, <2>1
    <3> QED
      BY <1>2, <1>4, <1>6, <2>1, <3>1
  <2>2. CASE i <= Len(s) + Len(t)
    <3>1. i \in 1..Len(s) + Len(t) /\ i \in 1..Len(s) + Len(more) /\ i \in 1..Len(both)
      BY <1>2, <1>4, <1>6, <1>7, <2>2
    <3>2. i > Len(s) => i - Len(s) \in 1..Len(t)
      BY <1>7, <3>1
    <3>3. Append(both, e)[i] = both[i]
      BY <1>6, <3>1
    <3>4. CASE i <= Len(s)
      BY <1>3, <1>5, <3>1, <3>3, <3>4
    <3>5. CASE i > Len(s)
      <4>1. ~ (i <= Len(s)) /\ i - Len(s) \in 1..Len(t)
        BY <1>7, <3>1, <3>2, <3>5
      <4>2. more[i - Len(s)] = t[i - Len(s)]
        BY <1>2, <4>1
      <4>3. whole[i] = more[i - Len(s)] /\ both[i] = t[i - Len(s)]
        BY <1>3, <1>5, <3>1, <4>1
      <4> QED
        BY <3>3, <4>2, <4>3
    <3> QED
      BY <1>7, <3>1, <3>4, <3>5
  <2> QED
    BY <1>4, <1>6, <1>7, <2>1, <2>2
<1>9. Append(both, e) = whole
  <2>1. Len(Append(both, e)) = Len(whole)
    BY <1>2, <1>3, <1>4, <1>6, <1>7
  <2> DEFINE left == Append(both, e)
  <2>2. left \in Seq(S) /\ whole \in Seq(S) /\ Len(left) = Len(whole)
        /\ \A i \in 1..Len(left) : left[i] = whole[i]
    BY <1>3, <1>6, <1>8, <2>1
  <2> HIDE DEF left
  <2>3. left = whole
    BY <2>2, SeqEqual
  <2> QED
    BY <2>3 DEF left
<1> QED
  BY <1>9, Zenon DEF both, whole, more, EndsWith

(* What is shown of a list is what is shown of its parts. *)
LEMMA ShownConcat ==
  ASSUME NEW S, NEW names \in Seq(S), NEW a \in 0..Len(names), NEW b \in a..Len(names)
  PROVE  /\ Shown(SubSeq(names, 1, a)) \in Seq(S)
         /\ Shown(SubSeq(names, a + 1, b)) \in Seq(S)
         /\ Shown(SubSeq(names, 1, b)) =
              Shown(SubSeq(names, 1, a)) \o Shown(SubSeq(names, a + 1, b))
<1> DEFINE first(n) == SubSeq(names, 1, n)
           rest(n)  == SubSeq(names, a + 1, n)
           Split(n) == /\ Shown(first(n)) = Shown(first(a)) \o Shown(rest(n))
                       /\ Shown(rest(n)) \in Seq(S)
           Good == {m \in 0..(b - a) : Split(a + m)}
<1>0. Len(names) \in Nat /\ a \in Nat /\ b \in Nat /\ a <= b /\ b <= Len(names)
  OBVIOUS
<1>1. \A n \in 0..Len(names) : first(n) \in Seq(S) /\ Len(first(n)) = n
  BY <1>0
<1>2. \A n \in a..Len(names) : rest(n) \in Seq(S) /\ Len(rest(n)) = n - a
  BY <1>0
<1>3. \A n \in 0..Len(names) : Shown(first(n)) \in Seq(S)
  <2> TAKE n \in 0..Len(names)
  <2>1. first(n) \in Seq(S)
    BY <1>1
  <2> HIDE DEF first
  <2> QED
    BY <2>1, ShownIsTyped
<1>4. 0 \in Good
  <2>1. rest(a) = << >>
    BY <1>0
  <2>2. Shown(<< >>) = << >>
    BY NoneShown
  <2>3. Shown(first(a)) \in Seq(S)
    BY <1>0, <1>3
  <2>4. Shown(first(a)) \o << >> = Shown(first(a)) /\ << >> \in Seq(S)
    <3> HIDE DEF first
    <3> QED
      BY <2>3, ConcatEmptySeq
  <2>5. 0 \in 0..(b - a) /\ a + 0 = a
    BY <1>0
  <2> HIDE DEF first, rest
  <2> QED
    BY <2>1, <2>2, <2>4, <2>5
<1>5. ASSUME NEW m \in 0..((b - a) - 1), m \in Good
      PROVE  m + 1 \in Good
  <2> DEFINE n == a + m
             name == names[n + 1]
  <2>1. /\ n \in 0..Len(names) /\ n \in a..Len(names) /\ n + 1 \in 1..Len(names)
        /\ m + 1 \in 0..(b - a) /\ a + (m + 1) = n + 1 /\ name \in S
    BY <1>0
  <2>2. first(n + 1) = Append(first(n), name)
    BY <1>0, <2>1
  <2>3. rest(n + 1) = Append(rest(n), name)
    BY <1>0, <2>1
  <2>4. first(n) \in Seq(S) /\ rest(n) \in Seq(S)
    BY <1>1, <1>2, <2>1
  <2>5. Split(n)
    BY <1>5
  <2>6. Shown(first(a)) \in Seq(S)
    BY <1>0, <1>3
  <2> HIDE DEF first, rest, n, name
  <2>7. /\ Shown(first(n + 1)) =
             IF name \in Hidden THEN Shown(first(n)) ELSE Append(Shown(first(n)), name)
        /\ Shown(rest(n + 1)) =
             IF name \in Hidden THEN Shown(rest(n)) ELSE Append(Shown(rest(n)), name)
    BY <2>1, <2>2, <2>3, <2>4, ShownStep
  <2>8. CASE name \in Hidden
    <3>1. Split(n + 1)
      BY <2>5, <2>7, <2>8
    <3> QED
      BY <2>1, <3>1
  <2>9. CASE name \notin Hidden
    <3>1. Append(Shown(first(a)) \o Shown(rest(n)), name) =
            Shown(first(a)) \o Append(Shown(rest(n)), name)
      <4> DEFINE s == Shown(first(a))
                 t == Shown(rest(n))
      <4>1. s \in Seq(S) /\ t \in Seq(S) /\ name \in S
        BY <2>1, <2>5, <2>6
      <4> HIDE DEF s, t
      <4>2. EndsWith(s, t, name)
        BY <4>1, AppendConcat, Zenon
      <4> QED
        BY <4>2, Zenon DEF s, t, EndsWith
    <3>2. Append(Shown(rest(n)), name) \in Seq(S)
      BY <2>1, <2>5
    <3>3. Split(n + 1)
      BY <2>5, <2>7, <2>9, <3>1, <3>2
    <3> QED
      BY <2>1, <3>3
  <2> QED
    BY <2>8, <2>9
<1>6. 0..(b - a) \subseteq Good
  <2> HIDE DEF Good
  <2>1. b - a \in Nat
    BY <1>0
  <2> QED
    BY <1>4, <1>5, <2>1, Upwards
<1>7. Split(b)
  <2>1. b - a \in 0..(b - a) /\ a + (b - a) = b
    BY <1>0
  <2> HIDE DEF Split
  <2> QED
    BY <1>6, <2>1
<1> QED
  BY <1>0, <1>3, <1>7
-----------------------------------------------------------------------------
(***************************************************************************)
(* One row and the page that is added to it.                               *)
(***************************************************************************)

(* The facts about a row before the engine's element for it is shown: the  *)
(* element has the next page, which is not behind the end.                 *)
AwaitsPage(row, size, left, levels) ==
    /\ row \in RowType
    /\ size \in Nat /\ left \in Nat /\ levels \in Nat
    /\ size = conf["max_children"] /\ size = session.size
    /\ row.hint = 0
    /\ Len(Children[row.name]) > 0 => size > 0 /\ row.fetched * size < Len(Children[row.name])
    /\ row.fetched > 0 => left > 0 \/ levels = 0

(* And after: the first children are joined by those of the page. *)
Joins(row, new, elements, size) ==
    /\ Shown(elements) \in Seq(DOMAIN Children)
    /\ FirstKids(row, size) \in Seq(DOMAIN Children)
    /\ FirstKids(new, size) = FirstKids(row, size) \o Shown(elements)
    /\ new.kids = row.kids + Len(Shown(elements))

(* The children of a variable are variables.                               *)
LEMMA ChildrenAreNames ==
  ASSUME NEW name \in DOMAIN Children
  PROVE  Children[name] \in Seq(DOMAIN Children) /\ Len(Children[name]) \in Nat
BY ViewAssumption

(* With the children from e on, up to b of them, the first kids are joined *)
(* by what is shown of these.                                              *)
LEMMA PageJoins ==
  ASSUME NEW row, NEW new, NEW elements, NEW size,
         row.name \in DOMAIN Children, new.name = row.name,
         NEW e \in 0..Len(Children[row.name]), NEW b \in e..Len(Children[row.name]),
         Fetched(row, size) = e, Fetched(new, size) = b,
         elements = SubSeq(Children[row.name], e + 1, b),
         new.kids = row.kids + Len(Shown(elements))
  PROVE  Joins(row, new, elements, size)
<1> DEFINE names == Children[row.name]
<1>1. names \in Seq(DOMAIN Children) /\ Len(names) \in Nat
  BY ChildrenAreNames
<1>2. /\ e \in 0..Len(names) /\ b \in e..Len(names)
      /\ FirstKids(row, size) = Shown(SubSeq(names, 1, e))
      /\ FirstKids(new, size) = Shown(SubSeq(names, 1, b))
      /\ elements = SubSeq(names, e + 1, b)
  BY DEF FirstKids
<1> HIDE DEF names
<1>3. /\ Shown(SubSeq(names, 1, e)) \in Seq(DOMAIN Children)
      /\ Shown(SubSeq(names, e + 1, b)) \in Seq(DOMAIN Children)
      /\ Shown(SubSeq(names, 1, b)) =
           Shown(SubSeq(names, 1, e)) \o Shown(SubSeq(names, e + 1, b))
  BY <1>1, <1>2, ShownConcat
<1> QED
  BY <1>2, <1>3 DEF Joins

(* As many pages as the code divides it into hold all of n, and no more     *)
(* than that.                                                              *)
LEMMA PagesHoldAll ==
  ASSUME NEW n \in Nat, NEW s \in Nat, s > 0
  PROVE  LET c == (n + s - 1) \div s
         IN  c \in Int /\ (c - 1) * s < n /\ n <= c * s
<1> DEFINE m == n + s - 1
           c == m \div s
<1>1. m \in Int /\ m \in Nat
  OBVIOUS
<1>2. m = s * c + (m % s) /\ m % s \in 0..(s - 1) /\ c \in Int
  <2> HIDE DEF m
  <2> QED
    BY <1>1
<1> HIDE DEF c
<1>3. s * c = c * s /\ (c - 1) * s = c * s - s
  BY <1>2
<1> DEFINE p == c * s
<1>4. p \in Int /\ (m % s) \in Int /\ m % s <= s - 1 /\ m % s >= 0
  BY <1>2
<1>5. m = p + (m % s)
  BY <1>2, <1>3
<1> HIDE DEF p
<1>6. p - s < n /\ n <= p
  BY <1>4, <1>5
<1> QED
  BY <1>2, <1>3, <1>6 DEF p, c

(* What becomes of a row. *)
LEMMA FilledRow ==
  ASSUME NEW row, NEW size, NEW left, NEW levels, AwaitsPage(row, size, left, levels)
  PROVE  LET element == Element(row.name, left, row.fetched)
             new     == Filled(row, element)
         IN  /\ new \in RowType /\ new.name = row.name
             /\ Hints(new, size, levels) /\ NoneLeft(new, size)
             /\ Joins(row, new, element.elements, size)
             /\ element.elements \in Seq(DOMAIN Children)
             /\ left = 0 => element.elements = << >>
<1> DEFINE element == Element(row.name, left, row.fetched)
           new     == Filled(row, element)
           names   == Children[row.name]
           number  == Len(names)
           done    == row.fetched * size
           upto    == IF done + size < number THEN done + size ELSE number
<1>0. /\ row \in RowType /\ size \in Nat /\ left \in Nat /\ levels \in Nat
      /\ row.name \in DOMAIN Children /\ row.fetched \in Nat /\ row.kids \in Nat /\ row.hint = 0
      /\ size = conf["max_children"] /\ size = session.size
      /\ row.fetched > 0 => left > 0 \/ levels = 0
  BY DEF AwaitsPage, RowType
<1>1. names \in Seq(DOMAIN Children) /\ number \in Nat /\ done \in Nat
  BY <1>0, ChildrenAreNames
<1>2. number > 0 => size > 0 /\ done < number
  BY DEF AwaitsPage
<1>3. element.number = number /\ element.paged = (number > 0 /\ left > 0)
  BY DEF Element
<1>4. element.elements = IF number > 0 /\ left > 0
                         THEN SubSeq(names, done + 1, upto) ELSE << >>
  <2>1. (row.fetched + 1) * size = done + size
    BY <1>0
  <2> QED
    BY <1>0, <2>1 DEF Element, Page
<1>5. done + size = (row.fetched + 1) * size
  BY <1>0
<1> HIDE DEF element, names, done
<1>6. CASE number = 0
  <2>1. new = row /\ element.elements = << >>
    BY <1>3, <1>4, <1>6 DEF Filled
  <2>2. Fetched(row, size) = 0
    BY <1>0, <1>1, <1>6 DEF Fetched, names, done
  <2>3. Shown(element.elements) = << >> /\ new.kids = row.kids + Len(Shown(element.elements))
    BY <1>0, <2>1, NoneShown
  <2>4. SubSeq(Children[row.name], 0 + 1, 0) = << >>
    OBVIOUS
  <2>5. Joins(row, new, element.elements, size)
    <3>1. /\ row.name \in DOMAIN Children /\ new.name = row.name
          /\ 0 \in 0..Len(Children[row.name])
          /\ Fetched(row, size) = 0 /\ Fetched(new, size) = 0
          /\ element.elements = SubSeq(Children[row.name], 0 + 1, 0)
          /\ new.kids = row.kids + Len(Shown(element.elements))
      BY <1>0, <1>1, <1>6, <2>1, <2>2, <2>3, <2>4 DEF names
    <3> HIDE DEF new
    <3> QED
      BY <3>1, PageJoins
  <2>6. Hints(new, size, levels) /\ NoneLeft(new, size)
    BY <1>0, <1>1, <1>6, <2>1 DEF Hints, Counts, NoneLeft, names, done, FETCH_MORE, FETCH_PAGES
  <2>7. element.elements \in Seq(DOMAIN Children)
    BY <2>1
  <2> QED
    BY <1>0, <2>1, <2>5, <2>6, <2>7 DEF element
<1>7. CASE number > 0
  <2> DEFINE count == Pages(number)
             hint  == IF element.elements = << >> THEN FETCH_MORE
                      ELSE IF MoreIsLeft(row, element) THEN FETCH_PAGES ELSE 0
             fetched == IF left > 0 THEN row.fetched + 1 ELSE row.fetched
             kids  == row.kids + Len(Shown(element.elements))
  <2>0. element.elements \in Seq(DOMAIN Children)
    <3>1. CASE left > 0
      <4>1. done + 1 \in Int /\ upto \in Int /\ \A i \in (done + 1)..upto : names[i] \in DOMAIN Children
        BY <1>0, <1>1
      <4>2. SubSeq(names, done + 1, upto) \in Seq(DOMAIN Children)
        <5> HIDE DEF upto
        <5> QED
          BY <4>1, SubSeqProperties
      <4> QED
        BY <1>4, <1>7, <3>1, <4>2
    <3>2. CASE ~ (left > 0)
      <4>1. element.elements = << >>
        BY <1>4, <3>2
      <4> QED
        BY <4>1
    <3> QED
      BY <3>1, <3>2
  <2>1. Len(Shown(element.elements)) \in Nat
    BY <2>0, ShownIsTyped
  <2>2. count \in Int /\ (count - 1) * size < number /\ number <= count * size
    <3>1. count = (number + size - 1) \div size
      BY <1>0 DEF Pages
    <3> HIDE DEF count, number
    <3> QED
      BY <1>0, <1>1, <1>2, <1>7, <3>1, PagesHoldAll
  <2>3. hint \in {0, FETCH_MORE, FETCH_PAGES} /\ fetched \in Nat /\ kids \in Nat
    BY <1>0, <2>1
  <2> DEFINE counted == Counted(row, element)
  <2>4. /\ counted \in RowType /\ counted.name = row.name /\ counted.kids = row.kids
        /\ counted.hint = 0 /\ counted.fetched = fetched /\ counted.count = count
    BY <1>0, <1>3, <1>7, <2>2, <2>3 DEF Counted, RowType
  <2>5. /\ new \in RowType
        /\ new.name = row.name /\ new.hint = hint /\ new.fetched = fetched /\ new.kids = kids
        /\ new.count = count
    <3>1. new = [counted EXCEPT !.hint = IF element.elements = << >> THEN FETCH_MORE
                                         ELSE IF MoreIsLeft(row, element) THEN FETCH_PAGES
                                         ELSE counted.hint,
                                !.kids = counted.kids + Len(Shown(element.elements))]
      <4>1. element.number # 0
        BY <1>1, <1>3, <1>7
      <4> QED
        BY <4>1 DEF Filled
    <3>2. new = [counted EXCEPT !.hint = hint, !.kids = kids]
      BY <2>4, <3>1
    <3> HIDE DEF counted, new, hint, kids, fetched, count
    <3> QED
      BY <2>3, <2>4, <3>2 DEF RowType
  <2> HIDE DEF count, hint, fetched, kids
  <2>8. Counts(new, size)
    BY <2>2, <2>5 DEF Counts, names
  <2>6. CASE left = 0
    <3>1. element.elements = << >> /\ fetched = row.fetched /\ hint = FETCH_MORE
      BY <1>4, <2>6 DEF hint, fetched
    <3>2. fetched = 0 \/ levels = 0
      BY <1>0, <2>6, <3>1
    <3>3. Fetched(row, size) = done /\ Fetched(new, size) = done
      BY <1>2, <1>7, <2>5, <3>1 DEF Fetched, names, done
    <3>4. done \in 0..number /\ done \in done..number
      BY <1>1, <1>2, <1>7
    <3>5. SubSeq(names, done + 1, done) = << >>
      BY <1>1, SubSeqEmpty
    <3>6. Joins(row, new, element.elements, size)
      <4>1. /\ row.name \in DOMAIN Children /\ new.name = row.name
            /\ done \in 0..Len(Children[row.name]) /\ done \in done..Len(Children[row.name])
            /\ element.elements = SubSeq(Children[row.name], done + 1, done)
            /\ new.kids = row.kids + Len(Shown(element.elements))
        BY <1>0, <2>5, <3>1, <3>4, <3>5 DEF names, kids
      <4> HIDE DEF new
      <4> QED
        BY <3>3, <4>1, PageJoins
    <3>7. new.fetched * size = done
      BY <2>5, <3>1 DEF done
    <3>8. Hints(new, size, levels) /\ NoneLeft(new, size)
      BY <1>1, <1>2, <1>7, <2>5, <2>8, <3>1, <3>2, <3>7
         DEF Hints, NoneLeft, names, FETCH_MORE, FETCH_PAGES
    <3> QED
      BY <2>0, <2>5, <3>1, <3>6, <3>8 DEF element
  <2>7. CASE left > 0
    <3>1. element.elements = SubSeq(names, done + 1, upto) /\ fetched = row.fetched + 1
      BY <1>4, <1>7, <2>7 DEF fetched
    <3>2. done < upto /\ upto <= number /\ upto \in Nat
      BY <1>0, <1>1, <1>2, <1>7
    <3>3. Len(element.elements) = upto - done
      BY <1>1, <3>1, <3>2
    <3>4. element.elements # << >>
      BY <1>1, <3>2, <3>3
    <3>5. MoreIsLeft(row, element) <=> done + size < number
      BY <1>0, <1>1, <1>3, <3>2, <3>3 DEF MoreIsLeft, Offset, done
    <3>6. hint = IF done + size < number THEN FETCH_PAGES ELSE 0
      BY <3>4, <3>5 DEF hint
    <3>7. fetched * size = done + size
      BY <1>0, <1>5, <3>1
    <3>8. Fetched(row, size) = done
      BY <1>2, <1>7 DEF Fetched, names, done
    <3>9. Fetched(new, size) = upto
      BY <2>5, <3>7 DEF Fetched, names
    <3>10. Joins(row, new, element.elements, size)
      <4>1. row.name \in DOMAIN Children /\ new.name = row.name
        BY <1>0, <2>5
      <4>2. done \in 0..Len(Children[row.name]) /\ upto \in done..Len(Children[row.name])
        <5>1. number = Len(Children[row.name])
          BY DEF names
        <5> HIDE DEF upto, new
        <5> QED
          BY <1>1, <3>2, <5>1
      <4>3. element.elements = SubSeq(Children[row.name], done + 1, upto)
        BY <3>1 DEF names
      <4>4. new.kids = row.kids + Len(Shown(element.elements))
        BY <2>5 DEF kids
      <4> HIDE DEF upto, new
      <4> QED
        BY <3>8, <3>9, <4>1, <4>2, <4>3, <4>4, PageJoins
    <3>11. Hints(new, size, levels) /\ NoneLeft(new, size)
      BY <1>0, <1>1, <1>2, <1>7, <2>5, <2>7, <2>8, <3>6, <3>7
         DEF Hints, NoneLeft, names, FETCH_MORE, FETCH_PAGES
    <3> QED
      BY <2>0, <2>5, <2>7, <3>10, <3>11 DEF element
  <2> QED
    BY <1>0, <2>6, <2>7
<1> QED
  BY <1>1, <1>6, <1>7
-----------------------------------------------------------------------------
(***************************************************************************)
(* What is hung below a row, level by level.                               *)
(***************************************************************************)

(* A place where the children of an element can go: behind the rows below  *)
(* it there is nothing.                                                    *)
Place(store, r, e) ==
    /\ r \in Paths
    /\ KidsOf(store, r) \in Nat
    /\ e.elements \in Seq(DOMAIN Children)
    /\ \A k \in Nat \ {0} : Append(r, KidsOf(store, r) + k) \notin DOMAIN store

(* The elements a level below, each in the order of its parent's. *)
Beneath(below, above, store, left) ==
    /\ \A q : q \in DOMAIN below <=>
          \E r \in DOMAIN above : \E k \in 1..Len(Shown(above[r].elements)) :
             q = Append(r, KidsOf(store, r) + k)
    /\ \A r \in DOMAIN above : \A k \in 1..Len(Shown(above[r].elements)) :
          below[Append(r, KidsOf(store, r) + k)] = Element(Shown(above[r].elements)[k], left, 0)

(* The path of a row below a row.                                          *)
LEMMA AppendedPath ==
  ASSUME NEW r \in Paths, NEW k \in Nat
  PROVE  /\ Append(r, k) \in Paths /\ Append(r, k) # << >>
         /\ Len(Append(r, k)) = Len(r) + 1 /\ Len(r) \in Nat
         /\ Front(Append(r, k)) = r /\ Last(Append(r, k)) = k
<1> USE DEF Paths
<1> DEFINE q == Append(r, k)
<1>1. /\ q \in Seq(Nat) /\ Len(q) = Len(r) + 1 /\ Len(r) \in Nat
      /\ q[Len(r) + 1] = k /\ \A i \in 1..Len(r) : q[i] = r[i]
  OBVIOUS
<1>2. q # << >>
  BY <1>1
<1>3. Front(q) = r
  <2> HIDE DEF q
  <2>1. /\ SubSeq(q, 1, Len(r)) \in Seq(Nat) /\ Len(SubSeq(q, 1, Len(r))) = Len(r)
        /\ \A i \in 1..Len(r) : SubSeq(q, 1, Len(r))[i] = q[i]
    BY <1>1
  <2>2. SubSeq(q, 1, Len(r)) = r
    BY <1>1, <2>1, SeqEqual
  <2> QED
    BY <1>1, <2>2 DEF Front
<1>4. Last(q) = k
  BY <1>1 DEF Last
<1> QED
  BY <1>1, <1>2, <1>3, <1>4

(* Every path but the empty one is below another.                          *)
LEMMA FrontOfPath ==
  ASSUME NEW q \in Paths, q # << >>
  PROVE  q = Append(Front(q), Last(q)) /\ Front(q) \in Paths /\ Last(q) \in Nat
<1> USE DEF Paths, Front, Last
<1>1. Len(q) \in Nat \ {0} /\ q[Len(q)] \in Nat
  BY EmptySeq
<1>2. /\ Front(q) \in Seq(Nat) /\ Len(Front(q)) = Len(q) - 1
      /\ \A i \in 1..(Len(q) - 1) : Front(q)[i] = q[i]
  <2> DEFINE n == Len(q) - 1
  <2>1. n \in Nat /\ \A i \in 1..n : q[i] \in Nat
    BY <1>1
  <2> HIDE DEF n
  <2>2. /\ SubSeq(q, 1, n) \in Seq(Nat) /\ Len(SubSeq(q, 1, n)) = n
        /\ \A i \in 1..n : SubSeq(q, 1, n)[i] = q[i]
    BY <2>1
  <2> QED
    BY <2>2 DEF n
<1> DEFINE whole == Append(Front(q), Last(q))
<1>3. /\ whole \in Seq(Nat) /\ Len(whole) = Len(q)
      /\ \A i \in 1..Len(q) : whole[i] = q[i]
  BY <1>1, <1>2
<1> HIDE DEF whole
<1>4. whole = q
  BY <1>3, SeqEqual
<1> QED
  BY <1>1, <1>2, <1>4 DEF whole

(* The page that comes with an element is a list of names. *)
LEMMA ElementIsTyped ==
  ASSUME NEW name \in DOMAIN Children, NEW left \in Nat, session.size \in Nat
  PROVE  LET e == Element(name, left, 0)
         IN  /\ e.name = name
             /\ e.elements \in Seq(DOMAIN Children)
             /\ left = 0 \/ session.size = 0 => e.elements = << >>
<1> DEFINE names == Children[name]
           upto == IF session.size < Len(names) THEN session.size ELSE Len(names)
<1>1. names \in Seq(DOMAIN Children) /\ Len(names) \in Nat
  BY ChildrenAreNames
<1>2. Element(name, left, 0).elements =
         IF Len(names) > 0 /\ left > 0 THEN SubSeq(names, 1, upto) ELSE << >>
  <2>1. 0 * session.size + 1 = 1 /\ (0 + 1) * session.size = session.size
    OBVIOUS
  <2> QED
    BY <2>1 DEF Element, Page
<1>3. Element(name, left, 0).name = name
  BY DEF Element
<1> HIDE DEF names
<1>4. upto \in Nat /\ upto <= Len(names) /\ (session.size = 0 => upto = 0)
  BY <1>1
<1>5. SubSeq(names, 1, upto) \in Seq(DOMAIN Children) /\ (upto = 0 => SubSeq(names, 1, upto) = << >>)
  <2> HIDE DEF upto
  <2>1. \A i \in 1..upto : names[i] \in DOMAIN Children
    BY <1>1, <1>4
  <2> QED
    BY <1>4, <2>1, SubSeqProperties, SubSeqEmpty
<1>6. << >> \in Seq(DOMAIN Children)
  OBVIOUS
<1> DEFINE e == Element(name, left, 0)
           part == SubSeq(names, 1, upto)
<1>7. e.elements = IF Len(names) > 0 /\ left > 0 THEN part ELSE << >>
  BY <1>2
<1>8. part \in Seq(DOMAIN Children) /\ (upto = 0 => part = << >>)
  BY <1>5
<1> HIDE DEF upto, part, e
<1>9. e.elements \in Seq(DOMAIN Children)
  BY <1>6, <1>7, <1>8
<1>10. left = 0 \/ session.size = 0 => e.elements = << >>
  BY <1>4, <1>7, <1>8
<1> QED
  BY <1>3, <1>9, <1>10 DEF e

(* One level down. *)
LEMMA NestedIsBeneath ==
  ASSUME NEW store, NEW above, NEW left,
         \A r \in DOMAIN above : Place(store, r, above[r])
  PROVE  Beneath(Nested(store, above, left), above, store, left)
<1> DEFINE kids == [r \in DOMAIN above |-> Shown(above[r].elements)]
           new  == UNION {{Append(r, KidsOf(store, r) + k) : k \in DOMAIN kids[r]} : r \in DOMAIN above}
           below == Nested(store, above, left)
<1>1. below = [q \in new |-> Element(kids[Front(q)][Last(q) - KidsOf(store, Front(q))], left, 0)]
  BY Zenon DEF Nested
<1>2. ASSUME NEW r \in DOMAIN above
      PROVE  /\ r \in Paths /\ KidsOf(store, r) \in Nat
             /\ kids[r] = Shown(above[r].elements)
             /\ DOMAIN kids[r] = 1..Len(kids[r]) /\ Len(kids[r]) \in Nat
  <2>1. Shown(above[r].elements) \in Seq(DOMAIN Children)
    BY ShownIsTyped DEF Place
  <2> QED
    BY <2>1 DEF Place
<1>3. \A q : q \in DOMAIN below <=>
         \E r \in DOMAIN above : \E k \in 1..Len(Shown(above[r].elements)) :
            q = Append(r, KidsOf(store, r) + k)
  <2>1. DOMAIN below = new
    <3> HIDE DEF new, kids, below
    <3> QED
      BY <1>1
  <2>2. \A q : q \in new <=> \E r \in DOMAIN above : \E k \in DOMAIN kids[r] :
                                q = Append(r, KidsOf(store, r) + k)
    <3> HIDE DEF kids
    <3> QED
      OBVIOUS
  <2> HIDE DEF new, kids, below
  <2> QED
    BY <1>2, <2>1, <2>2
<1>4. ASSUME NEW r \in DOMAIN above, NEW k \in 1..Len(Shown(above[r].elements))
      PROVE  below[Append(r, KidsOf(store, r) + k)] = Element(Shown(above[r].elements)[k], left, 0)
  <2> DEFINE q == Append(r, KidsOf(store, r) + k)
  <2>1. k \in DOMAIN kids[r] /\ k \in Nat
    BY <1>2
  <2>2. q \in new
    <3> HIDE DEF kids
    <3> QED
      BY <2>1
  <2>3. Front(q) = r /\ Last(q) = KidsOf(store, r) + k
    <3> DEFINE j == KidsOf(store, r) + k
    <3>1. j \in Nat /\ r \in Paths
      BY <1>2, <2>1
    <3> HIDE DEF j
    <3>2. Front(Append(r, j)) = r /\ Last(Append(r, j)) = j
      BY <3>1, AppendedPath
    <3> QED
      BY <3>2 DEF q, j
  <2>4. Last(q) - KidsOf(store, r) = k
    BY <1>2, <2>1, <2>3
  <2> HIDE DEF q, new, kids, below
  <2>5. below[q] = Element(kids[Front(q)][Last(q) - KidsOf(store, Front(q))], left, 0)
    BY <1>1, <2>2
  <2>6. below[q] = Element(kids[r][k], left, 0)
    BY <2>3, <2>4, <2>5
  <2> QED
    BY <1>2, <2>6 DEF q
<1> HIDE DEF below
<1>5. Beneath(below, above, store, left)
  BY <1>3, <1>4 DEF Beneath
<1> QED
  BY <1>5 DEF below

(* Without pages, only the variables of a context are shown, and they have *)
(* no children: counting pages would divide by zero.                       *)
Plain(above) ==
    session.size = 0 =>
        \A r \in DOMAIN above : \A k \in 1..Len(Shown(above[r].elements)) :
            Children[Shown(above[r].elements)[k]] = << >>

(* A row that is new, with the element of a variable. *)
Deep(store, q, e, left) ==
    /\ Place(store, q, e)
    /\ q \notin DOMAIN store /\ q # << >>
    /\ \E name \in DOMAIN Children :
          /\ e = Element(name, left, 0)
          /\ session.size = 0 => Children[name] = << >>

(* A row of the level below is new, and its children have a place too.     *)
LEMMA NextLevel ==
  ASSUME NEW store, NEW above, NEW below, NEW left \in Nat,
         session.size \in Nat, Rooted(store), Plain(above),
         \A r \in DOMAIN above : Place(store, r, above[r]),
         Beneath(below, above, store, left),
         NEW q \in DOMAIN below
  PROVE  /\ Deep(store, q, below[q], left)
         /\ Front(q) \in DOMAIN above
         /\ Len(q) = Len(Front(q)) + 1
<1>0. PICK r \in DOMAIN above : \E k \in 1..Len(Shown(above[r].elements)) :
         q = Append(r, KidsOf(store, r) + k)
  BY DEF Beneath
<1>1. PICK k \in 1..Len(Shown(above[r].elements)) : q = Append(r, KidsOf(store, r) + k)
  BY <1>0
<1> DEFINE names == Shown(above[r].elements)
<1>2. below[q] = Element(names[k], left, 0)
  BY <1>1 DEF Beneath
<1>3. Place(store, r, above[r])
  OBVIOUS
<1>4. names \in Seq(DOMAIN Children)
  BY <1>3, ShownIsTyped DEF Place
<1>5. session.size = 0 => Children[names[k]] = << >>
  BY DEF Plain
<1>6. k \in 1..Len(names)
  OBVIOUS
<1> HIDE DEF names
<1>7. k \in Nat \ {0} /\ names[k] \in DOMAIN Children
  BY <1>4, <1>6
<1> DEFINE j == KidsOf(store, r) + k
<1>8. r \in Paths /\ KidsOf(store, r) \in Nat /\ j \in Nat /\ Append(r, j) \notin DOMAIN store
  BY <1>3, <1>7 DEF Place
<1>9. q = Append(r, j)
  BY <1>1
<1> HIDE DEF j
<1>10. q \in Paths /\ q # << >> /\ Len(q) = Len(r) + 1 /\ Front(q) = r /\ Len(r) \in Nat
  BY <1>8, <1>9, AppendedPath
<1>11. q \notin DOMAIN store
  BY <1>8, <1>9
<1>12. KidsOf(store, q) = 0
  BY <1>11 DEF KidsOf
<1>13. ASSUME NEW i \in Nat \ {0} PROVE Append(q, KidsOf(store, q) + i) \notin DOMAIN store
  <2> DEFINE p == Append(q, i)
  <2>1. KidsOf(store, q) + i = i /\ i \in Nat
    BY <1>12
  <2>2. Front(p) = q /\ Len(p) = Len(q) + 1
    BY <1>10, <2>1, AppendedPath
  <2> HIDE DEF p
  <2>3. Len(p) > 1
    BY <1>10, <2>2
  <2>4. p \notin DOMAIN store
    BY <1>11, <2>2, <2>3 DEF Rooted
  <2> QED
    BY <2>1, <2>4 DEF p
<1>14. below[q].elements \in Seq(DOMAIN Children)
  BY <1>2, <1>7, ElementIsTyped
<1>15. Place(store, q, below[q])
  BY <1>10, <1>12, <1>13, <1>14 DEF Place
<1> QED
  BY <1>1, <1>2, <1>5, <1>7, <1>10, <1>11, <1>15 DEF Deep

IsNesting(level, store, path, element, left, n) ==
    level = [m \in 0..n |-> IF m = 0 THEN [q \in {path} |-> element]
                            ELSE Nested(store, level[m - 1], left - m)]

(* There are levels, down to any depth: one at a time.                     *)
LEMMA NestingExists ==
  ASSUME NEW store, NEW path, NEW element, NEW left \in Nat
  PROVE  \E level : IsNesting(level, store, path, element, left, left)
<1> DEFINE Is(level, n) == IsNesting(level, store, path, element, left, n)
           Good == {n \in 0..left : \E level : Is(level, n)}
           start == [q \in {path} |-> element]
<1>1. 0 \in Good
  <2> DEFINE first == [m \in 0..0 |-> start]
  <2>1. Is(first, 0)
    <3> HIDE DEF start
    <3>1. first = [m \in 0..0 |-> IF m = 0 THEN start ELSE Nested(store, first[m - 1], left - m)]
      OBVIOUS
    <3> QED
      BY <3>1 DEF start, IsNesting
  <2> HIDE DEF Is, first
  <2> QED
    BY <2>1
<1>2. ASSUME NEW n \in 0..(left - 1), n \in Good
      PROVE  n + 1 \in Good
  <2>1. PICK level : Is(level, n)
    BY <1>2
  <2> DEFINE last == Nested(store, level[n], left - (n + 1))
             more == [m \in 0..(n + 1) |-> IF m = n + 1 THEN last ELSE level[m]]
  <2>2. \A m \in 0..n : m \in 0..(n + 1) /\ m # n + 1 /\ more[m] = level[m]
    OBVIOUS
  <2>3. \A m \in 0..n : level[m] = IF m = 0 THEN start ELSE Nested(store, level[m - 1], left - m)
    BY <2>1 DEF IsNesting
  <2>4. more[n + 1] = last /\ (n + 1) - 1 = n /\ n + 1 # 0 /\ n \in 0..n
    OBVIOUS
  <2> HIDE DEF start
  <2>5. \A m \in 0..(n + 1) :
           more[m] = IF m = 0 THEN start ELSE Nested(store, more[m - 1], left - m)
    <3> TAKE m \in 0..(n + 1)
    <3>1. CASE m = n + 1
      <4>1. more[n] = level[n]
        BY <2>2, <2>4
      <4> HIDE DEF more
      <4> QED
        BY <3>1, <2>4, <4>1
    <3>2. CASE m # n + 1
      <4>1. m \in 0..n /\ (m = 0 \/ m - 1 \in 0..n)
        BY <3>2
      <4>2. more[m] = level[m] /\ (m = 0 \/ more[m - 1] = level[m - 1])
        BY <2>2, <4>1
      <4> HIDE DEF more
      <4> QED
        BY <2>3, <4>1, <4>2
    <3> QED
      BY <3>1, <3>2
  <2>6. more = [m \in 0..(n + 1) |-> more[m]]
    OBVIOUS
  <2> HIDE DEF more
  <2>7. Is(more, n + 1)
    BY <2>5, <2>6 DEF IsNesting, start
  <2> HIDE DEF Is
  <2> QED
    BY <2>7
<1> HIDE DEF Is, start
<1>3. 0..left \subseteq Good
  <2> HIDE DEF Good
  <2> QED
    BY <1>1, <1>2, Upwards
<1> QED
  BY <1>3 DEF Is

EachNested(level, store, path, element, left) ==
    /\ level[0] = [q \in {path} |-> element]
    /\ \A n \in 1..left : level[n] = Nested(store, level[n - 1], left - n)

(* What Nesting chooses are levels.                                        *)
LEMMA NestingIsNested ==
  ASSUME NEW store, NEW path, NEW element, NEW left \in Nat
  PROVE  EachNested(Nesting(store, path, element, left), store, path, element, left)
<1> DEFINE level == CHOOSE level : IsNesting(level, store, path, element, left, left)
<1>1. IsNesting(level, store, path, element, left, left)
  BY NestingExists
<1>2. Nesting(store, path, element, left) = level
  BY Zenon DEF Nesting, IsNesting
<1> HIDE DEF level
<1>3. level = [m \in 0..left |-> IF m = 0 THEN [q \in {path} |-> element]
                                 ELSE Nested(store, level[m - 1], left - m)]
  BY <1>1 DEF IsNesting
<1>4. level[0] = [q \in {path} |-> element]
  BY <1>3
<1>5. \A n \in 1..left : level[n] = Nested(store, level[n - 1], left - n)
  BY <1>3
<1> QED
  BY <1>2, <1>4, <1>5 DEF EachNested

(* Where the levels below an element are hung. *)
Hangs(store, path, element, left) ==
    /\ session.size \in Nat /\ left \in Nat
    /\ Rooted(store)
    /\ Place(store, path, element)
    /\ left = 0 => element.elements = << >>
    /\ session.size = 0 =>
          \A k \in 1..Len(Shown(element.elements)) : Children[Shown(element.elements)[k]] = << >>

(* The n-th level: new rows, each below one of the level above. *)
LevelInv(level, n, store, path, left) ==
    /\ Plain(level[n])
    /\ \A r \in DOMAIN level[n] :
          /\ Place(store, r, level[n][r])
          /\ Len(r) = Len(path) + n
          /\ n = left => level[n][r].elements = << >>
          /\ n > 0 => Deep(store, r, level[n][r], left - n) /\ Front(r) \in DOMAIN level[n - 1]

(* What holds of the first level holds of each.                            *)
LEMMA AllLevels ==
  ASSUME NEW store, NEW path, NEW element, NEW left, Hangs(store, path, element, left),
         NEW level, level = Nesting(store, path, element, left)
  PROVE  /\ \A n \in 0..left : LevelInv(level, n, store, path, left)
         /\ \A n \in 1..left : Beneath(level[n], level[n - 1], store, left - n)
         /\ DOMAIN level[0] = {path} /\ level[0][path] = element
<1>0. /\ session.size \in Nat /\ left \in Nat /\ Rooted(store) /\ Place(store, path, element)
      /\ left = 0 => element.elements = << >>
  BY DEF Hangs
<1>1. /\ level[0] = [q \in {path} |-> element]
      /\ \A n \in 1..left : level[n] = Nested(store, level[n - 1], left - n)
  <2>1. EachNested(Nesting(store, path, element, left), store, path, element, left)
    BY <1>0, NestingIsNested, Zenon
  <2> QED
    BY <2>1 DEF EachNested
<1>2. DOMAIN level[0] = {path} /\ level[0][path] = element
  BY <1>1
<1>3. path \in Paths /\ Len(path) \in Nat
  BY <1>0 DEF Place, Paths
<1>4. ASSUME NEW n \in 1..left, LevelInv(level, n - 1, store, path, left)
      PROVE  Beneath(level[n], level[n - 1], store, left - n)
  <2>1. \A r \in DOMAIN level[n - 1] : Place(store, r, level[n - 1][r])
    BY <1>4 DEF LevelInv
  <2>2. Beneath(Nested(store, level[n - 1], left - n), level[n - 1], store, left - n)
    BY <2>1, NestedIsBeneath
  <2> QED
    BY <1>1, <2>2
<1> DEFINE Good == {n \in 0..left : LevelInv(level, n, store, path, left)}
<1>5. 0 \in Good
  <2>1. Plain(level[0])
    BY <1>2 DEF Plain, Hangs
  <2>2. LevelInv(level, 0, store, path, left)
    BY <1>0, <1>2, <1>3, <2>1 DEF LevelInv
  <2> QED
    BY <1>0, <2>2
<1>6. ASSUME NEW m \in 0..(left - 1), m \in Good
      PROVE  m + 1 \in Good
  <2> DEFINE n == m + 1
  <2>1. n \in 1..left /\ n - 1 = m /\ left - n \in Nat /\ n > 0 /\ n \in 0..left
    BY <1>0
  <2> HIDE DEF n
  <2>2. LevelInv(level, n - 1, store, path, left)
    BY <1>6, <2>1
  <2>3. Beneath(level[n], level[n - 1], store, left - n)
    BY <1>4, <2>1, <2>2
  <2>4. ASSUME NEW q \in DOMAIN level[n]
        PROVE  /\ Deep(store, q, level[n][q], left - n)
               /\ Front(q) \in DOMAIN level[n - 1]
               /\ Len(q) = Len(Front(q)) + 1
    <3>1. Plain(level[n - 1]) /\ \A r \in DOMAIN level[n - 1] : Place(store, r, level[n - 1][r])
      BY <2>2 DEF LevelInv
    <3> QED
      BY <1>0, <2>1, <2>3, <3>1, NextLevel
  <2>5. \A q \in DOMAIN level[n] : Len(q) = Len(path) + n
    BY <1>3, <2>1, <2>2, <2>4 DEF LevelInv
  <2>6. \A q \in DOMAIN level[n] :
           /\ Place(store, q, level[n][q])
           /\ left - n = 0 \/ session.size = 0 => level[n][q].elements = << >>
    <3> TAKE q \in DOMAIN level[n]
    <3>1. Place(store, q, level[n][q])
      BY <2>4 DEF Deep
    <3>2. PICK name \in DOMAIN Children : level[n][q] = Element(name, left - n, 0)
      BY <2>4 DEF Deep
    <3>3. left - n = 0 \/ session.size = 0 => Element(name, left - n, 0).elements = << >>
      BY <1>0, <2>1, ElementIsTyped
    <3> QED
      BY <3>1, <3>2, <3>3
  <2>7. Plain(level[n])
    <3>1. Len(Shown(<< >>)) = 0
      BY NoneShown
    <3> QED
      BY <2>6, <3>1 DEF Plain
  <2>8. n = left => left - n = 0
    BY <1>0, <2>1
  <2>9. LevelInv(level, n, store, path, left)
    BY <2>4, <2>5, <2>6, <2>7, <2>8 DEF LevelInv
  <2> QED
    BY <2>1, <2>9 DEF n
<1>7. 0..left \subseteq Good
  <2> HIDE DEF Good
  <2> QED
    BY <1>0, <1>5, <1>6, Upwards
<1>8. \A n \in 0..left : LevelInv(level, n, store, path, left)
  BY <1>7
<1>9. \A n \in 1..left : n - 1 \in 0..left
  BY <1>0
<1> QED
  BY <1>2, <1>4, <1>8, <1>9
-----------------------------------------------------------------------------
(***************************************************************************)
(* The store after a property was added.                                   *)
(***************************************************************************)

(* Behind the rows already below r are those for these names. *)
RowsFor(new, store, r, names) ==
    /\ \A k \in Nat : Append(r, k) \in DOMAIN new <=>
          Append(r, k) \in DOMAIN store \/ k - KidsOf(store, r) \in 1..Len(names)
    /\ \A k \in 1..Len(names) : new[Append(r, KidsOf(store, r) + k)].name = names[k]

(* A row that was not there before. *)
NewRow(new, store, q, levels) ==
    \E name \in DOMAIN Children : \E m \in 0..levels :
        /\ new[q] = Filled(EmptyRow(name), Element(name, m, 0))
        /\ session.size = 0 => Children[name] = << >>
        /\ RowsFor(new, store, q, Shown(Element(name, m, 0).elements))

Hung(new, store, path, element, left) ==
    /\ DOMAIN store \subseteq DOMAIN new
    /\ \A q \in DOMAIN store : new[q] = IF q = path THEN Filled(store[q], element) ELSE store[q]
    /\ \A q \in DOMAIN new \ DOMAIN store :
          /\ q \in Paths /\ q # << >> /\ (Front(q) = path \/ Front(q) \in DOMAIN new)
          /\ NewRow(new, store, q, left - 1)
    /\ RowsFor(new, store, path, Shown(element.elements))
    /\ \A r \in DOMAIN store \ {path} : \A k \in Nat :
          Append(r, k) \in DOMAIN new <=> Append(r, k) \in DOMAIN store

(* Filling a row leaves its name alone.                                    *)
LEMMA FilledName ==
  ASSUME NEW name, NEW element
  PROVE  Filled(EmptyRow(name), element).name = name
<1>1. EmptyRow(name).name = name /\ EmptyRow(name) =
        [name |-> name, hint |-> 0, count |-> 0, fetched |-> 0, kids |-> 0]
  BY DEF EmptyRow
<1>2. Counted(EmptyRow(name), element).name = name
  BY DEF Counted, EmptyRow
<1> DEFINE counted == Counted(EmptyRow(name), element)
<1>3. Filled(EmptyRow(name), element) =
        IF element.number = 0 THEN EmptyRow(name)
        ELSE [counted EXCEPT
                !.hint = IF element.elements = << >> THEN FETCH_MORE
                         ELSE IF MoreIsLeft(EmptyRow(name), element) THEN FETCH_PAGES
                         ELSE counted.hint,
                !.kids = counted.kids + Len(Shown(element.elements))]
  BY DEF Filled
<1> QED
  BY <1>1, <1>2, <1>3 DEF Counted, EmptyRow

(* add_property hangs the rows of all levels, and fills the row itself.    *)
LEMMA AddedIsHung ==
  ASSUME NEW store, NEW path, NEW element, NEW left, Hangs(store, path, element, left)
  PROVE  Hung(add_property(store, path, element, left), store, path, element, left)
<1> DEFINE level == Nesting(store, path, element, left)
           added == UNION {DOMAIN level[n] : n \in 1..left}
           new   == add_property(store, path, element, left)
           at(q) == level[Len(q) - Len(path)][q]
<1>0. /\ session.size \in Nat /\ left \in Nat /\ Rooted(store) /\ Place(store, path, element)
      /\ left = 0 => element.elements = << >>
  BY DEF Hangs
<1>1. new = [q \in DOMAIN store \cup added |->
               IF q \in added THEN Filled(EmptyRow(at(q).name), at(q))
               ELSE IF q = path THEN Filled(store[q], element)
               ELSE store[q]]
  BY Zenon DEF add_property
<1> HIDE DEF new, level
<1>2. /\ \A n \in 0..left : LevelInv(level, n, store, path, left)
      /\ \A n \in 1..left : Beneath(level[n], level[n - 1], store, left - n)
      /\ DOMAIN level[0] = {path} /\ level[0][path] = element
  BY AllLevels DEF level
<1>3. path \in Paths /\ Len(path) \in Nat
  BY <1>0 DEF Place, Paths
(* The new rows, each in its level. *)
<1>4. ASSUME NEW n \in 1..left, NEW q \in DOMAIN level[n]
      PROVE  /\ q \in added /\ at(q) = level[n][q] /\ q \notin DOMAIN store
             /\ q \in Paths /\ q # << >> /\ Front(q) \in DOMAIN level[n - 1]
             /\ KidsOf(store, q) = 0
             /\ Deep(store, q, level[n][q], left - n)
             /\ new[q] = Filled(EmptyRow(level[n][q].name), level[n][q])
  <2>1. n \in 0..left /\ n \in Nat /\ n > 0
    BY <1>0
  <2>2. /\ Len(q) = Len(path) + n
        /\ Deep(store, q, level[n][q], left - n) /\ Front(q) \in DOMAIN level[n - 1]
    BY <1>2, <2>1 DEF LevelInv
  <2>3. Len(q) - Len(path) = n
    BY <1>3, <2>1, <2>2
  <2>4. q \in added
    OBVIOUS
  <2>5. at(q) = level[n][q]
    BY <2>3
  <2>6. q \notin DOMAIN store /\ q # << >> /\ q \in Paths
    BY <2>2 DEF Deep, Place
  <2>7. KidsOf(store, q) = 0
    BY <2>6 DEF KidsOf
  <2> HIDE DEF added, at
  <2>8. new[q] = Filled(EmptyRow(at(q).name), at(q))
    BY <1>1, <2>4
  <2> QED
    BY <2>2, <2>4, <2>5, <2>6, <2>7, <2>8
<1>5. \A q \in added : \E n \in 1..left : q \in DOMAIN level[n]
  OBVIOUS
<1>6. DOMAIN new = DOMAIN store \cup added
  BY <1>1
<1>7. added \cap DOMAIN store = {}
  BY <1>4, <1>5
<1> HIDE DEF added, at
(* The rows that were there. *)
<1>8. \A q \in DOMAIN store : new[q] = IF q = path THEN Filled(store[q], element) ELSE store[q]
  BY <1>1, <1>7
(* What is below a place of some level. *)
<1>9. ASSUME NEW n \in 0..left, NEW r \in DOMAIN level[n]
      PROVE  RowsFor(new, store, r, Shown(level[n][r].elements))
  <2> DEFINE names == Shown(level[n][r].elements)
             before == KidsOf(store, r)
  <2>1. /\ Place(store, r, level[n][r]) /\ Len(r) = Len(path) + n
        /\ n = left => level[n][r].elements = << >>
        /\ n \in Nat
    BY <1>0, <1>2 DEF LevelInv
  <2>2. r \in Paths /\ before \in Nat /\ names \in Seq(DOMAIN Children) /\ Len(names) \in Nat
    <3>1. names \in Seq(DOMAIN Children)
      BY <2>1, ShownIsTyped DEF Place
    <3> QED
      BY <2>1, <3>1 DEF Place
  <2>3. n = left => Len(names) = 0
    BY <2>1, NoneShown
  <2>4. ASSUME NEW k \in 1..Len(names)
        PROVE  /\ Append(r, before + k) \in DOMAIN new
               /\ new[Append(r, before + k)].name = names[k]
    <3>1. n + 1 \in 1..left /\ (n + 1) - 1 = n /\ left - (n + 1) \in Nat
      BY <1>0, <2>1, <2>2, <2>3
    <3>2. Beneath(level[n + 1], level[n], store, left - (n + 1))
      BY <1>2, <3>1
    <3> DEFINE q == Append(r, before + k)
               e == Element(names[k], left - (n + 1), 0)
    <3>3. q \in DOMAIN level[n + 1] /\ level[n + 1][q] = e
      BY <3>2 DEF Beneath
    <3>4. e.name = names[k]
      BY DEF Element
    <3> HIDE DEF q, e
    <3>5. q \in added /\ new[q] = Filled(EmptyRow(e.name), e)
      BY <1>4, <3>1, <3>3
    <3>6. new[q].name = e.name
      BY <3>5, FilledName
    <3> QED
      BY <1>6, <3>4, <3>5, <3>6 DEF q
  <2>5. ASSUME NEW k \in Nat, Append(r, k) \in added
        PROVE  k - before \in 1..Len(names)
    <3> DEFINE q == Append(r, k)
    <3>1. Front(q) = r /\ Last(q) = k /\ Len(q) = Len(r) + 1
      BY <2>2, AppendedPath
    <3> HIDE DEF q
    <3>2. q \in added
      BY <2>5 DEF q
    <3>3. PICK m \in 1..left : q \in DOMAIN level[m]
      BY <1>5, <3>2
    <3>4. m \in 0..left /\ m \in Nat
      BY <1>0
    <3>5. Len(q) = Len(path) + m
      BY <1>2, <3>3, <3>4 DEF LevelInv
    <3>6. m - 1 = n
      BY <1>3, <2>1, <3>1, <3>4, <3>5
    <3>7. PICK p \in DOMAIN level[m - 1] :
             \E i \in 1..Len(Shown(level[m - 1][p].elements)) : q = Append(p, KidsOf(store, p) + i)
      <4>1. Beneath(level[m], level[m - 1], store, left - m)
        BY <1>2
      <4> QED
        BY <3>3, <4>1 DEF Beneath
    <3>8. PICK i \in 1..Len(Shown(level[m - 1][p].elements)) : q = Append(p, KidsOf(store, p) + i)
      BY <3>7
    <3>9. Place(store, p, level[m - 1][p])
      <4>1. m - 1 \in 0..left
        BY <1>0
      <4> QED
        BY <1>2, <4>1 DEF LevelInv
    <3>10. Front(q) = p /\ Last(q) = KidsOf(store, p) + i /\ i \in Nat /\ KidsOf(store, p) \in Nat
      <4>1. Shown(level[m - 1][p].elements) \in Seq(DOMAIN Children)
        BY <3>9, ShownIsTyped DEF Place
      <4>2. i \in Nat /\ p \in Paths /\ KidsOf(store, p) \in Nat
        BY <3>9, <4>1 DEF Place
      <4> DEFINE j == KidsOf(store, p) + i
      <4>3. j \in Nat /\ q = Append(p, j)
        BY <3>8, <4>2
      <4> HIDE DEF j
      <4>4. Front(Append(p, j)) = p /\ Last(Append(p, j)) = j
        BY <4>2, <4>3, AppendedPath
      <4> QED
        BY <4>2, <4>3, <4>4 DEF j
    <3>11. p = r /\ k = before + i
      BY <3>1, <3>10
    <3>12. i \in 1..Len(names)
      BY <3>6, <3>8, <3>11
    <3> HIDE DEF names, before
    <3>13. before \in Nat
      BY <2>2
    <3> QED
      BY <3>10, <3>11, <3>12, <3>13
  <2>6. ASSUME NEW k \in Nat, k - before \in 1..Len(names)
        PROVE  Append(r, k) \in DOMAIN new
    <3> DEFINE i == k - before
    <3>1. i \in 1..Len(names) /\ before + i = k
      BY <2>2, <2>6
    <3> HIDE DEF i, names, before
    <3>2. Append(r, before + i) \in DOMAIN new
      BY <2>4, <3>1
    <3> QED
      BY <3>1, <3>2
  <2>7. \A k \in Nat : Append(r, k) \in DOMAIN new <=>
           Append(r, k) \in DOMAIN store \/ k - before \in 1..Len(names)
    <3> HIDE DEF names, before
    <3> QED
      BY <1>6, <2>5, <2>6
  <2> QED
    BY <2>4, <2>7 DEF RowsFor
<1>10. RowsFor(new, store, path, Shown(element.elements))
  <2>1. 0 \in 0..left /\ path \in DOMAIN level[0] /\ level[0][path] = element
    BY <1>0, <1>2
  <2> QED
    BY <1>9, <2>1
<1>11. ASSUME NEW q \in DOMAIN new \ DOMAIN store
       PROVE  /\ q \in Paths /\ q # << >> /\ (Front(q) = path \/ Front(q) \in DOMAIN new)
              /\ NewRow(new, store, q, left - 1)
  <2>1. PICK n \in 1..left : q \in DOMAIN level[n]
    BY <1>5, <1>6
  <2>2. /\ q \in Paths /\ q # << >> /\ Front(q) \in DOMAIN level[n - 1]
        /\ Deep(store, q, level[n][q], left - n)
        /\ new[q] = Filled(EmptyRow(level[n][q].name), level[n][q])
    BY <1>4, <2>1
  <2>3. Front(q) = path \/ Front(q) \in DOMAIN new
    <3>1. CASE n = 1
      BY <1>2, <2>2, <3>1
    <3>2. CASE n # 1
      <4>1. n - 1 \in 1..left
        BY <1>0, <3>2
      <4> QED
        BY <1>4, <1>6, <2>2, <4>1
    <3> QED
      BY <3>1, <3>2
  <2>4. PICK name \in DOMAIN Children :
           /\ level[n][q] = Element(name, left - n, 0)
           /\ session.size = 0 => Children[name] = << >>
    BY <2>2 DEF Deep
  <2>5. level[n][q].name = name
    BY <2>4 DEF Element
  <2>6. left - n \in 0..(left - 1) /\ n \in 0..left
    BY <1>0
  <2>7. RowsFor(new, store, q, Shown(level[n][q].elements))
    BY <1>9, <2>1, <2>6
  <2>8. NewRow(new, store, q, left - 1)
    BY <2>2, <2>4, <2>5, <2>6, <2>7 DEF NewRow
  <2> QED
    BY <2>2, <2>3, <2>8
<1>12. ASSUME NEW r \in DOMAIN store \ {path}, NEW k \in Nat, Append(r, k) \in DOMAIN new
       PROVE  Append(r, k) \in DOMAIN store
  <2> SUFFICES ASSUME Append(r, k) \in added PROVE FALSE
    BY <1>6, <1>12
  <2>1. PICK n \in 1..left : Append(r, k) \in DOMAIN level[n]
    BY <1>5
  <2>2. Front(Append(r, k)) \in DOMAIN level[n - 1]
    BY <1>4, <2>1
  <2>3. r \in Paths
    BY <1>0 DEF Rooted
  <2>4. Front(Append(r, k)) = r
    BY <2>3, AppendedPath
  <2>5. r \in DOMAIN level[n - 1]
    BY <2>2, <2>4
  <2>6. CASE n = 1
    BY <1>2, <2>5, <2>6
  <2>7. CASE n # 1
    <3>1. n - 1 \in 1..left
      BY <1>0, <2>7
    <3> QED
      BY <1>4, <2>5, <3>1
  <2> QED
    BY <2>6, <2>7
<1>13. Hung(new, store, path, element, left)
  BY <1>6, <1>8, <1>10, <1>11, <1>12 DEF Hung
<1> QED
  BY <1>13 DEF new
-----------------------------------------------------------------------------
(***************************************************************************)
(* Adding a property keeps the rows in order.                              *)
(***************************************************************************)

(* The kids of a row in a store that has the new rows are in place, when   *)
(* those that were there are, and the others were hung for its page.       *)
OldInPlace(new, store, q, row, size) ==
    /\ KidsOf(store, q) = row.kids
    /\ row.kids = Len(FirstKids(row, size))
    /\ \A k \in Nat : Append(q, k) \in DOMAIN store <=> k \in 1..row.kids
    /\ \A k \in 1..row.kids : new[Append(q, k)].name = FirstKids(row, size)[k]

(* The rows of a page join those below a row.                              *)
LEMMA JoinedInPlace ==
  ASSUME NEW new, NEW store, NEW q, NEW row, NEW elements, NEW size,
         Joins(row, new[q], elements, size),
         RowsFor(new, store, q, Shown(elements)),
         OldInPlace(new, store, q, row, size)
  PROVE  InPlace(new, q, size)
<1> DEFINE old   == FirstKids(row, size)
           first == FirstKids(new[q], size)
           more  == Shown(elements)
<1>1. /\ old \in Seq(DOMAIN Children) /\ more \in Seq(DOMAIN Children)
      /\ first = old \o more
      /\ new[q].kids = row.kids + Len(more)
  BY DEF Joins
<1>2. /\ KidsOf(store, q) = row.kids /\ row.kids = Len(old)
      /\ \A k \in Nat : Append(q, k) \in DOMAIN store <=> k \in 1..row.kids
      /\ \A k \in 1..row.kids : new[Append(q, k)].name = old[k]
  BY DEF OldInPlace
<1>3. /\ \A k \in Nat : Append(q, k) \in DOMAIN new <=>
             Append(q, k) \in DOMAIN store \/ k - row.kids \in 1..Len(more)
      /\ \A k \in 1..Len(more) : new[Append(q, row.kids + k)].name = more[k]
  BY <1>2 DEF RowsFor
<1> HIDE DEF old, first, more
<1>4. /\ Len(old) \in Nat /\ Len(more) \in Nat /\ Len(first) = Len(old) + Len(more)
      /\ \A k \in 1..(Len(old) + Len(more)) :
            first[k] = IF k <= Len(old) THEN old[k] ELSE more[k - Len(old)]
  BY <1>1, ConcatProperties
<1>5. new[q].kids = Len(first)
  BY <1>1, <1>2, <1>4
<1>6. ASSUME NEW k \in Nat
      PROVE  Append(q, k) \in DOMAIN new <=> k \in 1..Len(first)
  <2>1. Append(q, k) \in DOMAIN new <=> k \in 1..Len(old) \/ k - Len(old) \in 1..Len(more)
    BY <1>2, <1>3
  <2>2. k \in 1..Len(old) \/ k - Len(old) \in 1..Len(more) <=> k \in 1..Len(first)
    BY <1>4
  <2> QED
    BY <2>1, <2>2
<1>7. ASSUME NEW k \in 1..Len(first)
      PROVE  new[Append(q, k)].name = first[k]
  <2>1. k \in 1..(Len(old) + Len(more))
    BY <1>4
  <2>2. CASE k <= Len(old)
    <3>1. k \in 1..Len(old)
      BY <1>4, <2>1, <2>2
    <3> QED
      BY <1>2, <1>4, <2>1, <2>2, <3>1
  <2>3. CASE ~ (k <= Len(old))
    <3> DEFINE i == k - Len(old)
    <3>1. i \in 1..Len(more) /\ Len(old) + i = k
      BY <1>4, <2>1, <2>3
    <3> HIDE DEF i
    <3>2. new[Append(q, Len(old) + i)].name = more[i]
      BY <1>2, <1>3, <3>1
    <3>3. first[k] = more[k - Len(old)]
      BY <1>4, <2>1, <2>3
    <3> QED
      BY <3>1, <3>2, <3>3 DEF i
  <2> QED
    BY <2>2, <2>3
<1> QED
  BY <1>5, <1>6, <1>7 DEF InPlace, first

(* A row that is new has been given nothing yet. *)
LEMMA EmptyRowAwaits ==
  ASSUME NEW name \in DOMAIN Children, NEW m \in Nat, NEW levels \in Nat,
         session.size \in Nat, session.size = conf["max_children"],
         session.size = 0 => Children[name] = << >>
  PROVE  /\ AwaitsPage(EmptyRow(name), session.size, m, levels)
         /\ EmptyRow(name).name = name /\ EmptyRow(name).fetched = 0
         /\ EmptyRow(name).kids = 0
         /\ FirstKids(EmptyRow(name), session.size) = << >>
<1> DEFINE row == EmptyRow(name)
           size == session.size
<1>1. /\ row \in RowType /\ row.name = name /\ row.hint = 0 /\ row.fetched = 0 /\ row.kids = 0
  BY DEF EmptyRow, RowType
<1>2. Children[name] \in Seq(DOMAIN Children) /\ Len(Children[name]) \in Nat
  BY ChildrenAreNames
<1>3. size = 0 => Len(Children[name]) = 0
  BY DEF size
<1>4. size \in Nat /\ size = conf["max_children"] /\ size = session.size
  OBVIOUS
<1> HIDE DEF row, size
<1>5. row.fetched * size = 0
  BY <1>1, <1>4
<1>6. AwaitsPage(row, size, m, levels)
  <2>1. Len(Children[row.name]) > 0 => size > 0 /\ row.fetched * size < Len(Children[row.name])
    BY <1>1, <1>2, <1>3, <1>4, <1>5
  <2> QED
    BY <1>1, <1>4, <2>1 DEF AwaitsPage
<1>7. Fetched(row, size) = 0
  BY <1>1, <1>2, <1>5 DEF Fetched
<1>8. SubSeq(Children[row.name], 1, 0) = << >>
  OBVIOUS
<1>9. FirstKids(row, size) = << >>
  BY <1>7, <1>8, NoneShown DEF FirstKids
<1> QED
  BY <1>1, <1>6, <1>9 DEF row, size

RowInv(store, q, size, levels) ==
    /\ store[q] \in RowType
    /\ InPlace(store, q, size)
    /\ Hints(store[q], size, levels)

(* A row that is new shows the first page of its children, or offers them. *)
LEMMA NewRowInv ==
  ASSUME NEW new, NEW store, NEW q, NEW some \in Int, NEW levels \in Nat,
         session.size \in Nat, session.size = conf["max_children"],
         Rooted(store), q \in Paths, q # << >>, q \notin DOMAIN store,
         NewRow(new, store, q, some)
  PROVE  RowInv(new, q, session.size, levels) /\ NoneLeft(new[q], session.size)
<1>1. PICK name \in DOMAIN Children : \E m \in 0..some :
        /\ new[q] = Filled(EmptyRow(name), Element(name, m, 0))
        /\ session.size = 0 => Children[name] = << >>
        /\ RowsFor(new, store, q, Shown(Element(name, m, 0).elements))
  BY DEF NewRow
<1>2. PICK m \in 0..some :
        /\ new[q] = Filled(EmptyRow(name), Element(name, m, 0))
        /\ session.size = 0 => Children[name] = << >>
        /\ RowsFor(new, store, q, Shown(Element(name, m, 0).elements))
  BY <1>1
<1>3. m \in Nat
  OBVIOUS
<1>4. /\ AwaitsPage(EmptyRow(name), session.size, m, levels)
      /\ EmptyRow(name).name = name /\ EmptyRow(name).fetched = 0
      /\ EmptyRow(name).kids = 0
      /\ FirstKids(EmptyRow(name), session.size) = << >>
  BY <1>2, <1>3, EmptyRowAwaits
<1> DEFINE row == EmptyRow(name)
           element == Element(name, m, 0)
<1>5. /\ new[q] \in RowType
      /\ Hints(new[q], session.size, levels) /\ NoneLeft(new[q], session.size)
      /\ Joins(row, new[q], element.elements, session.size)
  BY <1>2, <1>4, FilledRow
<1>6. OldInPlace(new, store, q, row, session.size)
  <2>1. KidsOf(store, q) = 0
    BY DEF KidsOf
  <2>2. ASSUME NEW k \in Nat
        PROVE  Append(q, k) \notin DOMAIN store
    <3> DEFINE p == Append(q, k)
    <3>1. Len(p) = Len(q) + 1 /\ Front(p) = q
      BY AppendedPath
    <3>2. Len(q) > 0 /\ Len(q) \in Nat
      BY DEF Paths
    <3> HIDE DEF p
    <3>3. Len(p) > 1
      BY <3>1, <3>2
    <3>4. p \in DOMAIN store => Front(p) \in DOMAIN store
      BY <3>3 DEF Rooted
    <3> QED
      BY <3>1, <3>4 DEF p
  <2>3. Len(FirstKids(row, session.size)) = 0
    BY <1>4
  <2> HIDE DEF row
  <2>4. row.kids = 0
    BY <1>4 DEF row
  <2> QED
    BY <2>1, <2>2, <2>3, <2>4 DEF OldInPlace
<1>7. RowsFor(new, store, q, Shown(element.elements))
  BY <1>2
<1> HIDE DEF row, element
<1>8. InPlace(new, q, session.size)
  BY <1>5, <1>6, <1>7, JoinedInPlace
<1> QED
  BY <1>5, <1>8 DEF RowInv

(* The element is that of a row that awaits it, or the variables of a      *)
(* context, which have no row.                                             *)
Awaited(store, path, element, left, levels) ==
    /\ session.size \in Nat /\ session.size = conf["max_children"]
    /\ left \in Nat /\ levels \in Nat
    /\ path = << >> \/ path \in DOMAIN store
    /\ path \in DOMAIN store =>
          /\ AwaitsPage(store[path], session.size, left, levels)
          /\ element = Element(store[path].name, left, store[path].fetched)

(* A row whose next page came shows it behind those before.                *)
LEMMA FilledRowInv ==
  ASSUME NEW new, NEW store, NEW path, NEW element, NEW left, NEW levels,
         StoreInv(store, session.size, levels),
         Awaited(store, path, element, left, levels),
         Hung(new, store, path, element, left), path \in DOMAIN store
  PROVE  /\ RowInv(new, path, session.size, levels) /\ NoneLeft(new[path], session.size)
         /\ new[path].name = store[path].name
<1> DEFINE row == store[path]
<1>1. /\ AwaitsPage(row, session.size, left, levels)
      /\ element = Element(row.name, left, row.fetched)
  BY DEF Awaited
<1>2. /\ row \in RowType /\ InPlace(store, path, session.size)
      /\ path \in Paths
  BY DEF StoreInv, Rooted
<1>3. new[path] = Filled(row, element) /\ RowsFor(new, store, path, Shown(element.elements))
  BY DEF Hung
<1>4. /\ new[path] \in RowType /\ new[path].name = row.name
      /\ Hints(new[path], session.size, levels) /\ NoneLeft(new[path], session.size)
      /\ Joins(row, new[path], element.elements, session.size)
  BY <1>1, <1>3, FilledRow
<1>5. OldInPlace(new, store, path, row, session.size)
  <2> DEFINE first == FirstKids(row, session.size)
  <2>1. /\ row.kids = Len(first)
        /\ \A k \in Nat : Append(path, k) \in DOMAIN store <=> k \in 1..Len(first)
        /\ \A k \in 1..Len(first) : store[Append(path, k)].name = first[k]
    BY <1>2 DEF InPlace
  <2>2. KidsOf(store, path) = row.kids
    BY DEF KidsOf
  <2>3. first \in Seq(DOMAIN Children) /\ Len(first) \in Nat
    BY <1>4 DEF Joins
  <2> HIDE DEF first
  <2>4. ASSUME NEW k \in 1..row.kids
        PROVE  new[Append(path, k)].name = first[k]
    <3>1. k \in Nat /\ k \in 1..Len(first)
      BY <2>1, <2>3
    <3> DEFINE q == Append(path, k)
    <3>2. q \in DOMAIN store /\ store[q].name = first[k]
      BY <2>1, <3>1
    <3>3. Len(q) = Len(path) + 1 /\ Len(path) \in Nat
      BY <1>2, <3>1, AppendedPath
    <3> HIDE DEF q
    <3>4. q # path
      BY <3>3
    <3>5. new[q] = store[q]
      BY <3>2, <3>4 DEF Hung
    <3> QED
      BY <3>2, <3>5 DEF q
  <2> HIDE DEF row
  <2> QED
    BY <2>1, <2>2, <2>4 DEF OldInPlace, first
<1> HIDE DEF row
<1>6. InPlace(new, path, session.size)
  BY <1>3, <1>4, <1>5, JoinedInPlace
<1> QED
  BY <1>4, <1>6 DEF RowInv, row

(* Every row is in order afterwards, and those filled have nothing left.   *)
LEMMA StoreKept ==
  ASSUME NEW new, NEW store, NEW path, NEW element, NEW left, NEW levels,
         StoreInv(store, session.size, levels),
         Awaited(store, path, element, left, levels),
         Hung(new, store, path, element, left)
  PROVE  /\ StoreInv(new, session.size, levels)
         /\ DOMAIN store \subseteq DOMAIN new
         /\ \A q \in DOMAIN new : IF q \in DOMAIN store /\ q # path THEN new[q] = store[q]
                                  ELSE NoneLeft(new[q], session.size)
<1> DEFINE size == session.size
<1>1. /\ DOMAIN store \subseteq DOMAIN new
      /\ \A q \in DOMAIN store : q # path => new[q] = store[q]
      /\ \A q \in DOMAIN new \ DOMAIN store :
            /\ q \in Paths /\ q # << >> /\ (Front(q) = path \/ Front(q) \in DOMAIN new)
            /\ NewRow(new, store, q, left - 1)
      /\ \A r \in DOMAIN store \ {path} : \A k \in Nat :
            Append(r, k) \in DOMAIN new <=> Append(r, k) \in DOMAIN store
  BY DEF Hung
<1>2. /\ Rooted(store)
      /\ \A q \in DOMAIN store : /\ store[q] \in RowType
                                 /\ InPlace(store, q, size)
                                 /\ Hints(store[q], size, levels)
  BY DEF StoreInv
<1>3. /\ size \in Nat /\ left \in Nat /\ levels \in Nat /\ left - 1 \in Int
      /\ session.size = conf["max_children"]
      /\ path = << >> \/ path \in DOMAIN store
  BY DEF Awaited
<1>4. Rooted(new)
  <2> SUFFICES ASSUME NEW q \in DOMAIN new
               PROVE  q \in Paths /\ q # << >> /\ (Len(q) > 1 => Front(q) \in DOMAIN new)
    BY DEF Rooted
  <2>1. CASE q \in DOMAIN store
    BY <1>1, <1>2, <2>1 DEF Rooted
  <2>2. CASE q \notin DOMAIN store
    <3>1. q \in Paths /\ q # << >> /\ (Front(q) = path \/ Front(q) \in DOMAIN new)
      BY <1>1, <2>2
    <3>2. CASE Front(q) \in DOMAIN new
      BY <3>1, <3>2
    <3>3. CASE Front(q) = << >>
      <4> DEFINE p == Append(Front(q), Last(q))
      <4>1. q = p /\ Front(q) \in Paths /\ Last(q) \in Nat
        BY <3>1, FrontOfPath
      <4>2. Len(p) = Len(Front(q)) + 1
        BY <4>1, AppendedPath
      <4> HIDE DEF p
      <4>3. Len(q) = 1
        BY <3>3, <4>1, <4>2
      <4> QED
        BY <3>1, <4>3
    <3> QED
      BY <1>1, <1>3, <3>1, <3>2, <3>3
  <2> QED
    BY <2>1, <2>2
<1>5. ASSUME NEW q \in DOMAIN new, q \notin DOMAIN store
      PROVE  RowInv(new, q, size, levels) /\ NoneLeft(new[q], size)
  <2>1. q \in Paths /\ q # << >> /\ NewRow(new, store, q, left - 1)
    BY <1>1, <1>5
  <2> QED
    BY <1>2, <1>3, <1>5, <2>1, NewRowInv
<1>6. ASSUME path \in DOMAIN store
      PROVE  /\ RowInv(new, path, size, levels) /\ NoneLeft(new[path], size)
             /\ new[path].name = store[path].name
  BY <1>6, FilledRowInv
<1>7. ASSUME NEW q \in DOMAIN store, q # path
      PROVE  RowInv(new, q, size, levels)
  <2> DEFINE first == FirstKids(store[q], size)
  <2>1. /\ store[q].kids = Len(first)
        /\ \A k \in Nat : Append(q, k) \in DOMAIN store <=> k \in 1..Len(first)
        /\ \A k \in 1..Len(first) : store[Append(q, k)].name = first[k]
    BY <1>2 DEF InPlace
  <2>2. new[q] = store[q]
    BY <1>1, <1>7
  <2>3. \A k \in Nat : Append(q, k) \in DOMAIN new <=> k \in 1..Len(first)
    <3> HIDE DEF first
    <3> QED
      BY <1>1, <1>7, <2>1
  <2>4. ASSUME NEW k \in 1..Len(first)
        PROVE  new[Append(q, k)].name = first[k]
    <3> HIDE DEF first
    <3>1. k \in Nat
      OBVIOUS
    <3> DEFINE p == Append(q, k)
    <3>2. p \in DOMAIN store /\ store[p].name = first[k]
      BY <2>1, <3>1
    <3> HIDE DEF p
    <3>3. new[p].name = store[p].name
      <4>1. CASE p = path
        BY <1>6, <3>2, <4>1
      <4>2. CASE p # path
        BY <1>1, <3>2, <4>2
      <4> QED
        BY <4>1, <4>2
    <3> QED
      BY <3>2, <3>3 DEF p
  <2>5. InPlace(new, q, size)
    <3>1. FirstKids(new[q], size) = first
      BY <2>2
    <3> HIDE DEF first
    <3> QED
      BY <2>1, <2>2, <2>3, <2>4, <3>1 DEF InPlace
  <2> QED
    BY <1>2, <2>2, <2>5 DEF RowInv
<1>8. \A q \in DOMAIN new : RowInv(new, q, size, levels)
  BY <1>5, <1>6, <1>7
<1> QED
  BY <1>1, <1>4, <1>5, <1>6, <1>8 DEF StoreInv, RowInv
-----------------------------------------------------------------------------
(* Where counting pages does not divide by zero, the names that are shown  *)
(* have no children.                                                       *)
LEMMA NoDivision ==
  ASSUME NEW element, element.elements \in Seq(DOMAIN Children), ~ Divides(element)
  PROVE  \A k \in 1..Len(Shown(element.elements)) : Children[Shown(element.elements)[k]] = << >>
<1> DEFINE names == Shown(element.elements)
<1>1. \A name \in Range(names) : Children[name] = << >>
  BY DEF Divides
<1>2. names \in Seq(DOMAIN Children)
  BY ShownIsTyped
<1> HIDE DEF names
<1>3. \A k \in 1..Len(names) : names[k] \in Range(names)
  BY <1>2 DEF Range
<1>4. \A k \in 1..Len(names) : Children[names[k]] = << >>
  BY <1>1, <1>3
<1> QED
  BY <1>4 DEF names

(* The variables of a context, in a tree store that was cleared. *)
LEMMA ContextHangs ==
  ASSUME NEW left \in Nat, NEW levels \in Nat,
         session.size \in Nat, session.size = conf["max_children"],
         NEW store, DOMAIN store = {},
         ~ (session.size = 0 /\ Divides(ContextElement))
  PROVE  /\ StoreInv(store, session.size, levels)
         /\ Awaited(store, << >>, ContextElement, left + 1, levels)
         /\ Hangs(store, << >>, ContextElement, left + 1)
<1>1. ContextElement.elements = TopNames /\ TopNames \in Seq(DOMAIN Children)
  BY ViewAssumption DEF ContextElement
<1>2. Rooted(store) /\ StoreInv(store, session.size, levels)
  BY DEF StoreInv, Rooted
<1>3. Awaited(store, << >>, ContextElement, left + 1, levels)
  BY DEF Awaited
<1>4. KidsOf(store, << >>) = 0 /\ << >> \in Paths
  BY DEF KidsOf, Paths
<1>5. Place(store, << >>, ContextElement)
  <2> HIDE DEF ContextElement
  <2> QED
    BY <1>1, <1>4 DEF Place
<1>6. session.size = 0 =>
        \A k \in 1..Len(Shown(ContextElement.elements)) :
           Children[Shown(ContextElement.elements)[k]] = << >>
  BY <1>1, NoDivision
<1>7. left + 1 \in Nat /\ left + 1 # 0
  OBVIOUS
<1> QED
  BY <1>2, <1>3, <1>5, <1>6, <1>7 DEF Hangs

(* The element with the next page of a row. *)
LEMMA PropertyHangs ==
  ASSUME NEW levels \in Nat, session.size \in Nat, session.size = conf["max_children"],
         NEW store, StoreInv(store, session.size, levels),
         NEW path \in DOMAIN store, store[path].hint = 0,
         store[path].fetched * session.size < Len(Children[store[path].name])
  PROVE  LET element == Element(store[path].name, levels, store[path].fetched)
         IN  /\ session.size > 0
             /\ Awaited(store, path, element, levels, levels)
             /\ Hangs(store, path, element, levels)
<1> DEFINE row == store[path]
           element == Element(row.name, levels, row.fetched)
           size == session.size
<1>1. /\ row \in RowType /\ InPlace(store, path, size) /\ Hints(row, size, levels)
      /\ Rooted(store) /\ path \in Paths
  BY DEF StoreInv, Rooted
<1>2. /\ row.hint = 0 /\ row.fetched * size < Len(Children[row.name])
      /\ size \in Nat /\ size = conf["max_children"] /\ size = session.size
  OBVIOUS
<1> HIDE DEF row, size
<1>3. row.name \in DOMAIN Children /\ row.fetched \in Nat /\ Len(Children[row.name]) \in Nat
  BY <1>1, ChildrenAreNames DEF RowType
<1>4. Len(Children[row.name]) > 0
  <2>1. row.fetched * size \in Nat
    BY <1>2, <1>3
  <2> QED
    BY <1>2, <1>3, <2>1
<1>5. size > 0
  BY <1>1, <1>4 DEF Hints
<1>6. AwaitsPage(row, size, levels, levels)
  BY <1>1, <1>2, <1>5 DEF AwaitsPage
<1>7. /\ element.elements \in Seq(DOMAIN Children)
      /\ levels = 0 => element.elements = << >>
      /\ FirstKids(row, size) \in Seq(DOMAIN Children)
  BY <1>6, FilledRow DEF Joins
<1> HIDE DEF element
<1>8. Awaited(store, path, element, levels, levels)
  BY <1>2, <1>6 DEF Awaited, row, element, size
<1>9. Place(store, path, element)
  <2>1. KidsOf(store, path) = row.kids
    BY DEF KidsOf, row
  <2>2. /\ row.kids = Len(FirstKids(row, size))
        /\ \A k \in Nat : Append(path, k) \in DOMAIN store <=> k \in 1..Len(FirstKids(row, size))
    BY <1>1 DEF InPlace, row
  <2>3. row.kids \in Nat
    BY <1>1 DEF RowType
  <2>4. ASSUME NEW k \in Nat \ {0}
        PROVE  Append(path, row.kids + k) \notin DOMAIN store
    <3> DEFINE j == row.kids + k
    <3>1. j \in Nat /\ ~ (j \in 1..row.kids)
      BY <2>3
    <3> HIDE DEF j
    <3>2. Append(path, j) \notin DOMAIN store
      BY <2>2, <3>1
    <3> QED
      BY <3>2 DEF j
  <2> QED
    BY <1>1, <1>7, <2>1, <2>3, <2>4 DEF Place
<1>10. Hangs(store, path, element, levels)
  BY <1>1, <1>2, <1>5, <1>7, <1>9 DEF Hangs
<1> QED
  BY <1>2, <1>5, <1>8, <1>10 DEF row, element, size
-----------------------------------------------------------------------------
(***************************************************************************)
(* The steps of the view.                                                  *)
(***************************************************************************)

(* Only the hint of one row was cleared. *)
Cleared(new, store, path) ==
    /\ DOMAIN new = DOMAIN store
    /\ \A q \in DOMAIN store :
          new[q] = IF q = path THEN [store[q] EXCEPT !.hint = 0] ELSE store[q]

(* A row stays in order when its hint is cleared.                          *)
LEMMA HintCleared ==
  ASSUME NEW store, NEW size \in Nat, NEW levels, StoreInv(store, size, levels),
         NEW path, NEW new, Cleared(new, store, path)
  PROVE  /\ StoreInv(new, size, levels)
         /\ \A q \in DOMAIN store : /\ new[q].name = store[q].name
                                    /\ new[q].fetched = store[q].fetched
                                    /\ new[q].hint = IF q = path THEN 0 ELSE store[q].hint
<1>1. \A q \in DOMAIN store : /\ q \in Paths
                              /\ store[q] \in RowType /\ InPlace(store, q, size)
                              /\ Hints(store[q], size, levels)
  BY DEF StoreInv, Rooted
<1>2. /\ DOMAIN new = DOMAIN store
      /\ \A q \in DOMAIN store : new[q] = IF q = path THEN [store[q] EXCEPT !.hint = 0] ELSE store[q]
  BY DEF Cleared
<1>3. ASSUME NEW q \in DOMAIN store
      PROVE  /\ new[q] \in RowType /\ new[q].name = store[q].name
             /\ new[q].fetched = store[q].fetched /\ new[q].kids = store[q].kids
             /\ new[q].count = store[q].count
             /\ new[q].hint = IF q = path THEN 0 ELSE store[q].hint
  BY <1>1, <1>2 DEF RowType
<1>4. ASSUME NEW q \in DOMAIN store
      PROVE  InPlace(new, q, size)
  <2>1. FirstKids(new[q], size) = FirstKids(store[q], size)
    BY <1>3 DEF FirstKids, Fetched
  <2> DEFINE first == FirstKids(store[q], size)
  <2>2. /\ store[q].kids = Len(first)
        /\ \A k \in Nat : Append(q, k) \in DOMAIN store <=> k \in 1..Len(first)
        /\ \A k \in 1..Len(first) : store[Append(q, k)].name = first[k]
    BY <1>1 DEF InPlace
  <2>3. first = FirstKids(new[q], size)
    BY <2>1
  <2> HIDE DEF first
  <2>4. ASSUME NEW k \in 1..Len(first)
        PROVE  new[Append(q, k)].name = first[k]
    <3> DEFINE p == Append(q, k)
    <3>1. k \in Nat
      OBVIOUS
    <3>2. p \in DOMAIN store /\ store[p].name = first[k]
      BY <2>2, <3>1
    <3> HIDE DEF p
    <3>3. new[p].name = first[k]
      BY <1>3, <3>2
    <3> QED
      BY <3>3 DEF p
  <2> QED
    BY <1>2, <1>3, <2>2, <2>3, <2>4 DEF InPlace
<1>5. \A q \in DOMAIN store : Hints(new[q], size, levels)
  BY <1>1, <1>3 DEF Hints, Counts, FETCH_MORE, FETCH_PAGES
<1>6. Rooted(new)
  <2>1. Rooted(store)
    BY DEF StoreInv
  <2> QED
    BY <1>2, <2>1 DEF Rooted
<1> QED
  BY <1>2, <1>3, <1>4, <1>5, <1>6 DEF StoreInv

(* Without rows there is nothing to prove of them. *)
LEMMA NoRows ==
  ASSUME NEW store, DOMAIN store = {}, NEW size, NEW levels
  PROVE  StoreInv(store, size, levels)
BY DEF StoreInv, Rooted

(* What came before the engine was told any depth is in order for each.    *)
LEMMA AnyDepth ==
  ASSUME NEW store, NEW size, NEW levels, StoreInv(store, size, 1)
  PROVE  StoreInv(store, size, levels)
BY DEF StoreInv, Hints

(* Without levels, every page is the same.                                 *)
LEMMA NoPages ==
  ASSUME NEW name, NEW levels, NEW page, NEW other, page = other \/ levels = 0
  PROVE  Element(name, levels, page) = Element(name, levels, other)
BY DEF Element

(* The view after a step that leaves its rows alone. *)
LEMMA RowsStay ==
  ASSUME ViewInv, session' = session, begun' = begun, rows' = rows, asked' = asked \/ asked' = NULL,
         session # NULL => running',
         session # NULL /\ steady' => steady /\ conf'["max_children"] = conf["max_children"],
         session # NULL => failed \subseteq failed',
         session # NULL /\ asked # NULL /\ asked' = NULL => asked.row \in failed'
  PROVE  ViewInv'
<1>1. Told' = Told
  BY DEF Told, Levels
<1>2. CASE session = NULL
  BY <1>2 DEF ViewInv
<1>3. CASE session # NULL
  <2>1. /\ session' # NULL /\ running' /\ session' \in [size : Nat, depth : Int]
        /\ begun' # "done" => asked' = NULL
        /\ begun' = "context" => DOMAIN rows' = {}
    BY <1>3 DEF ViewInv
  <2>2. ASSUME steady'
        PROVE  /\ session'.size = conf'["max_children"]
               /\ StoreInv(rows', session'.size, Told')
               /\ asked' # NULL => NextPage(asked', rows', session'.size, Told')
               /\ \A path \in DOMAIN rows' \ failed' :
                     (asked' # NULL => asked'.row # path) => NoneLeft(rows'[path], session'.size)
    <3>1. /\ session.size = conf["max_children"]
          /\ StoreInv(rows, session.size, Told)
          /\ asked # NULL => NextPage(asked, rows, session.size, Told)
          /\ \A path \in DOMAIN rows \ failed :
                (asked # NULL => asked.row # path) => NoneLeft(rows[path], session.size)
      BY <1>3, <2>2 DEF ViewInv
    <3>2. session'.size = conf'["max_children"] /\ StoreInv(rows', session'.size, Told')
      BY <1>1, <1>3, <2>2, <3>1
    <3>3. asked' # NULL => NextPage(asked', rows', session'.size, Told')
      BY <1>1, <3>1
    <3>4. ASSUME NEW path \in DOMAIN rows' \ failed', asked' # NULL => asked'.row # path
          PROVE  NoneLeft(rows'[path], session'.size)
      <4>1. path \in DOMAIN rows \ failed /\ (asked # NULL => asked.row # path)
        BY <1>3, <3>4
      <4> QED
        BY <3>1, <4>1
    <3> QED
      BY <3>2, <3>3, <3>4
  <2> QED
    BY <2>1, <2>2 DEF ViewInv
<1> QED
  BY <1>2, <1>3

(* A property is asked for: its row has no hint any more, and awaits the   *)
(* page.                                                                   *)
LEMMA SelectionKeeps ==
  ASSUME PrefInv, ViewInv, NEW path \in DOMAIN rows, varview_selection_function(path)
  PROVE  ViewInv'
<1>1. /\ session # NULL /\ session' = session /\ begun = "done" /\ begun' = begun
      /\ asked = NULL /\ failed' = failed
      /\ steady' = steady /\ conf' = conf /\ running' = running
      /\ rows' = [rows EXCEPT ![path].hint = 0]
  BY DEF varview_selection_function, prefVars
<1>2. \/ rows[path].hint = FETCH_MORE /\ asked' = Asked(path, 0)
      \/ rows[path].hint = FETCH_PAGES /\ asked' = Asked(path, rows[path].fetched)
  BY DEF varview_selection_function
<1>3. running /\ session \in [size : Nat, depth : Int]
  BY <1>1 DEF ViewInv
<1>4. ASSUME steady
      PROVE  /\ session.size = conf["max_children"]
             /\ StoreInv(rows', session.size, Told)
             /\ asked' # NULL /\ NextPage(asked', rows', session.size, Told)
             /\ \A q \in DOMAIN rows' \ failed : asked'.row # q => NoneLeft(rows'[q], session.size)
  <2>1. /\ session.size = conf["max_children"]
        /\ StoreInv(rows, session.size, Told)
        /\ \A q \in DOMAIN rows \ failed : NoneLeft(rows[q], session.size)
    BY <1>1, <1>4 DEF ViewInv
  <2>2. session.size \in Nat
    BY <1>3
  <2>3. /\ StoreInv(rows', session.size, Told)
        /\ DOMAIN rows' = DOMAIN rows
        /\ rows'[path].hint = 0
        /\ \A q \in DOMAIN rows : /\ rows'[q].name = rows[q].name
                                  /\ rows'[q].fetched = rows[q].fetched
                                  /\ q # path => rows'[q] = rows[q]
    <3>1. Cleared(rows', rows, path)
      BY <1>1 DEF Cleared
    <3>2. /\ StoreInv(rows', session.size, Told)
          /\ \A q \in DOMAIN rows : /\ rows'[q].name = rows[q].name
                                    /\ rows'[q].fetched = rows[q].fetched
                                    /\ rows'[q].hint = IF q = path THEN 0 ELSE rows[q].hint
      BY <2>1, <2>2, <3>1, HintCleared
    <3> QED
      BY <3>1, <3>2 DEF Cleared
  <2>4. /\ path \in Paths /\ rows[path] \in RowType /\ Hints(rows[path], session.size, Told)
    BY <2>1 DEF StoreInv, Rooted
  <2> DEFINE row == rows[path]
  <2>5. /\ row.name \in DOMAIN Children /\ row.fetched \in Nat /\ Len(Children[row.name]) \in Nat
    BY <2>4, ChildrenAreNames DEF RowType
  <2>6. PICK page \in Nat :
           /\ asked' = [row |-> path, name |-> row.name, page |-> page]
           /\ page = row.fetched \/ Told = 0
    <3>1. CASE row.hint = FETCH_MORE
      <4>1. row.fetched = 0 \/ Told = 0
        BY <2>4, <3>1 DEF Hints
      <4>2. asked' = [row |-> path, name |-> row.name, page |-> 0]
        BY <1>2, <3>1 DEF Asked, FETCH_MORE, FETCH_PAGES
      <4> QED
        BY <4>1, <4>2
    <3>2. CASE row.hint # FETCH_MORE
      BY <1>2, <2>5, <3>2 DEF Asked
    <3> QED
      BY <3>1, <3>2
  <2>7. row.fetched * session.size < Len(Children[row.name])
    <3>1. row.hint # 0
      BY <1>2 DEF FETCH_MORE, FETCH_PAGES
    <3> QED
      BY <2>4, <3>1 DEF Hints
  <2> HIDE DEF row
  <2>8. asked' # NULL
    <3>1. asked' \in [row : Paths, name : DOMAIN Children, page : Nat]
      BY <2>4, <2>5, <2>6
    <3> QED
      BY <3>1, ViewAssumption
  <2>9. NextPage(asked', rows', session.size, Told)
    <3>1. /\ asked'.row = path /\ asked'.name = row.name
          /\ asked'.page = row.fetched \/ Told = 0
      BY <2>6
    <3>2. asked' \in [row : DOMAIN rows', name : DOMAIN Children, page : Nat]
      BY <2>3, <2>5, <2>6
    <3>3. /\ rows'[path].name = row.name /\ rows'[path].fetched = row.fetched
          /\ rows'[path].hint = 0
      BY <2>3 DEF row
    <3> QED
      BY <2>7, <3>1, <3>2, <3>3 DEF NextPage
  <2>10. ASSUME NEW q \in DOMAIN rows' \ failed, asked'.row # q
         PROVE  NoneLeft(rows'[q], session.size)
    <3>1. q # path
      BY <2>6, <2>10
    <3> QED
      BY <2>1, <2>3, <2>10, <3>1
  <2> QED
    BY <2>1, <2>3, <2>8, <2>9, <2>10
<1>5. Told' = Told
  BY <1>1 DEF Told, Levels
<1> QED
  BY <1>1, <1>3, <1>4, <1>5 DEF ViewInv

(* A depth below zero is none.                                             *)
LEMMA LevelsIsNat ==
  ASSUME session \in [size : Nat, depth : Int]
  PROVE  Levels \in Nat
BY DEF Levels

(* The variables of a context arrive. *)
LEMMA ContextKeeps ==
  ASSUME PrefInv, ViewInv, process_update_context_vars
  PROVE  ViewInv'
<1>1. /\ session # NULL /\ session' = session /\ asked = NULL /\ asked' = NULL /\ failed' = {}
      /\ begun \in {"context", "done"}
      /\ begun' = IF begun = "context" THEN "max_children" ELSE "done"
      /\ steady' = SizesAgree /\ conf' = conf /\ running' = running
  BY DEF process_update_context_vars, prefVars
<1>2. Shows(<< >>, << >>, ContextElement, Levels + 1)
  BY DEF process_update_context_vars
<1>3. running /\ session \in [size : Nat, depth : Int]
  BY <1>1 DEF ViewInv
<1>4. Levels \in Nat /\ Told' \in Nat
  <2>1. Levels' = Levels /\ Levels \in Nat
    BY <1>1, <1>3, LevelsIsNat DEF Levels
  <2> QED
    BY <1>1, <2>1 DEF Told
<1> DEFINE none == << >>
<1>0. DOMAIN none = {}
  OBVIOUS
<1> HIDE DEF none
<1>5. ASSUME SizesAgree
      PROVE  /\ session.size = conf["max_children"]
             /\ StoreInv(rows', session.size, Told')
             /\ \A q \in DOMAIN rows' : NoneLeft(rows'[q], session.size)
  <2>1. session.size = conf["max_children"] /\ session.size \in Nat
    BY <1>3, <1>5 DEF SizesAgree
  <2>2. CASE conf["max_children"] = 0 /\ Divides(ContextElement)
    <3>1. rows' = none
      BY <1>2, <2>2 DEF Shows, none
    <3> QED
      BY <1>0, <2>1, <3>1, NoRows
  <2>3. CASE ~ (conf["max_children"] = 0 /\ Divides(ContextElement))
    <3>1. rows' = add_property(none, << >>, ContextElement, Levels + 1)
      BY <1>2, <2>3 DEF Shows, none
    <3>2. /\ StoreInv(none, session.size, Told')
          /\ Awaited(none, << >>, ContextElement, Levels + 1, Told')
          /\ Hangs(none, << >>, ContextElement, Levels + 1)
      BY <1>0, <1>4, <2>1, <2>3, ContextHangs
    <3>3. Hung(rows', none, << >>, ContextElement, Levels + 1)
      BY <3>1, <3>2, AddedIsHung
    <3>4. /\ StoreInv(rows', session.size, Told')
          /\ \A q \in DOMAIN rows' : IF q \in DOMAIN none /\ q # << >> THEN rows'[q] = none[q]
                                     ELSE NoneLeft(rows'[q], session.size)
      BY <3>2, <3>3, StoreKept
    <3> QED
      BY <1>0, <2>1, <3>4
  <2> QED
    BY <2>2, <2>3
<1> QED
  BY <1>1, <1>3, <1>5 DEF ViewInv

(* The page asked for arrives. *)
LEMMA PropertyKeeps ==
  ASSUME PrefInv, ViewInv, process_fetched_property
  PROVE  ViewInv'
<1>1. /\ asked # NULL /\ session' = session /\ begun' = begun /\ asked' = NULL /\ failed' = failed
      /\ steady' = steady /\ conf' = conf /\ running' = running
      /\ Shows(rows, asked.row, Element(asked.name, Levels, asked.page), Levels)
  BY DEF process_fetched_property, prefVars
<1>2. /\ session # NULL /\ running /\ session \in [size : Nat, depth : Int]
      /\ begun = "done"
  BY <1>1 DEF ViewInv
<1>3. Told = Levels /\ Told' = Told /\ Levels \in Nat
  BY <1>1, <1>2, LevelsIsNat DEF Told, Levels
<1>4. ASSUME steady
      PROVE  /\ session.size = conf["max_children"]
             /\ StoreInv(rows', session.size, Levels)
             /\ \A q \in DOMAIN rows' \ failed : NoneLeft(rows'[q], session.size)
  <2>1. /\ session.size = conf["max_children"]
        /\ StoreInv(rows, session.size, Levels)
        /\ NextPage(asked, rows, session.size, Levels)
        /\ \A q \in DOMAIN rows \ failed : asked.row # q => NoneLeft(rows[q], session.size)
    BY <1>1, <1>2, <1>3, <1>4 DEF ViewInv
  <2> DEFINE path == asked.row
             element == Element(rows[path].name, Levels, rows[path].fetched)
  <2>2. /\ path \in DOMAIN rows /\ rows[path].hint = 0
        /\ rows[path].fetched * session.size < Len(Children[rows[path].name])
        /\ asked.name = rows[path].name /\ (asked.page = rows[path].fetched \/ Levels = 0)
    BY <2>1 DEF NextPage
  <2>3. element = Element(asked.name, Levels, asked.page)
    BY <2>2, NoPages
  <2> HIDE DEF path
  <2>4. /\ session.size > 0
        /\ Awaited(rows, path, element, Levels, Levels)
        /\ Hangs(rows, path, element, Levels)
    BY <1>2, <1>3, <2>1, <2>2, PropertyHangs
  <2> HIDE DEF element
  <2>5. rows' = add_property(rows, path, element, Levels)
    <3>1. conf["max_children"] # 0
      BY <1>2, <2>1, <2>4
    <3>2. Shows(rows, path, element, Levels)
      BY <1>1, <2>3 DEF path
    <3> QED
      BY <3>1, <3>2, Zenon DEF Shows
  <2>6. Hung(rows', rows, path, element, Levels)
    BY <2>4, <2>5, AddedIsHung
  <2>7. /\ StoreInv(rows', session.size, Levels)
        /\ \A q \in DOMAIN rows' : IF q \in DOMAIN rows /\ q # path THEN rows'[q] = rows[q]
                                   ELSE NoneLeft(rows'[q], session.size)
    BY <2>1, <2>4, <2>6, StoreKept
  <2>8. ASSUME NEW q \in DOMAIN rows' \ failed
        PROVE  NoneLeft(rows'[q], session.size)
    BY <2>1, <2>7 DEF path
  <2> QED
    BY <2>1, <2>7, <2>8
<1> QED
  BY <1>1, <1>2, <1>3, <1>4 DEF ViewInv

(* Every step keeps the rows in order.                                     *)
LEMMA ViewKeeps ==
  ASSUME PrefInv, ViewInv, [Next]_vars
  PROVE  ViewInv'
<1>1. CASE ProgramStarts
  <2>1. session = NULL
    BY <1>1 DEF ProgramStarts, Starts, ViewInv
  <2>2. session' = NULL /\ rows' = rows /\ asked' = asked
    BY <1>1, <2>1 DEF ProgramStarts, viewVars
  <2> QED
    BY <2>1, <2>2 DEF ViewInv
<1>2. CASE ProgramQuits \/ ConnectionLost
  <2> DEFINE none == << >>
  <2>1. session' = NULL /\ rows' = none /\ asked' = NULL
    BY <1>2 DEF ProgramQuits, ConnectionLost
  <2>2. DOMAIN none = {}
    OBVIOUS
  <2> HIDE DEF none
  <2> QED
    BY <2>1, <2>2 DEF ViewInv
<1>3. CASE SettingsStep
  <2>1. /\ session' = session /\ begun' = begun /\ rows' = rows /\ asked' = asked /\ failed' = failed
        /\ steady' = (steady /\ conf'["max_children"] = conf["max_children"])
    BY <1>3 DEF SettingsStep
  <2>2. running' = running
    BY <1>3 DEF SettingsStep, DialogStep, on_preferences_activate, Edits, on_revert_clicked,
         on_cancel_clicked, on_ok_clicked
  <2>3. session # NULL => running'
    BY <2>2 DEF ViewInv
  <2> QED
    BY <2>1, <2>3, RowsStay
<1>4. CASE async_accept
  <2>1. /\ running /\ running' = running /\ session = NULL /\ conf' = conf
        /\ session' = [size |-> EngineSize, depth |-> EngineDepth]
        /\ begun' = "context" /\ steady' = (EngineSize = conf["max_children"])
        /\ rows' = rows /\ asked' = asked
    BY <1>4 DEF async_accept, prefVars
  <2>2. DOMAIN rows = {} /\ asked = NULL
    BY <2>1 DEF ViewInv
  <2>3. session' \in [size : Nat, depth : Int] /\ session'.size = EngineSize
    BY <2>1, ViewAssumption
  <2>4. StoreInv(rows', session'.size, Told')
    BY <2>1, <2>2, NoRows
  <2> QED
    BY <2>1, <2>2, <2>3, <2>4 DEF ViewInv
<1>11. CASE SetsMaxChildren
  <2>1. /\ session # NULL /\ begun = "max_children" /\ begun' = "max_depth"
        /\ session' = [session EXCEPT !.size = conf["max_children"]]
        /\ steady' = (steady /\ SizesAgree) /\ running' = running /\ conf' = conf
        /\ rows' = rows /\ asked' = asked /\ failed' = failed
    BY <1>11 DEF SetsMaxChildren, prefVars
  <2>2. running /\ session \in [size : Nat, depth : Int] /\ asked = NULL
    BY <2>1 DEF ViewInv
  <2>3. conf["max_children"] \in Nat
    BY PreferencesAssumption DEF PrefInv, Ints, Keys, SpinKeys
  <2>4. /\ session' \in [size : Nat, depth : Int] /\ session'.size = conf["max_children"]
        /\ session' # NULL
    BY <2>1, <2>2, <2>3, ViewAssumption
  <2>5. Told = 1 /\ Told' = 1
    BY <2>1 DEF Told
  <2>6. ASSUME steady'
        PROVE  /\ StoreInv(rows', session'.size, Told')
               /\ \A q \in DOMAIN rows' \ failed' : NoneLeft(rows'[q], session'.size)
    <3>1. steady /\ session'.size = session.size
      BY <2>1, <2>4, <2>6 DEF SizesAgree
    <3>2. /\ StoreInv(rows, session.size, Told)
          /\ \A q \in DOMAIN rows \ failed : NoneLeft(rows[q], session.size)
      BY <2>1, <2>2, <3>1 DEF ViewInv
    <3> QED
      BY <2>1, <2>5, <3>1, <3>2
  <2> QED
    BY <2>1, <2>2, <2>4, <2>6 DEF ViewInv
<1>12. CASE SetsMaxDepth
  <2>1. /\ session # NULL /\ begun = "max_depth" /\ begun' = "done"
        /\ session' = [session EXCEPT !.depth = conf["max_depth"]]
        /\ steady' = steady /\ running' = running /\ conf' = conf
        /\ rows' = rows /\ asked' = asked /\ failed' = failed
    BY <1>12 DEF SetsMaxDepth, prefVars
  <2>2. running /\ session \in [size : Nat, depth : Int] /\ asked = NULL
    BY <2>1 DEF ViewInv
  <2>3. conf["max_depth"] \in Int
    BY PreferencesAssumption DEF PrefInv, Ints, Keys, SpinKeys
  <2>4. session' \in [size : Nat, depth : Int] /\ session'.size = session.size /\ session' # NULL
    BY <2>1, <2>2, <2>3, ViewAssumption
  <2>5. Told = 1
    BY <2>1 DEF Told
  <2>6. ASSUME steady'
        PROVE  /\ session'.size = conf'["max_children"]
               /\ StoreInv(rows', session'.size, Told')
               /\ \A q \in DOMAIN rows' \ failed' : NoneLeft(rows'[q], session'.size)
    <3>1. /\ session.size = conf["max_children"] /\ StoreInv(rows, session.size, 1)
          /\ \A q \in DOMAIN rows \ failed : NoneLeft(rows[q], session.size)
      BY <2>1, <2>2, <2>5, <2>6 DEF ViewInv
    <3>2. StoreInv(rows, session.size, Told')
      BY <3>1, AnyDepth
    <3> QED
      BY <2>1, <2>4, <3>1, <3>2
  <2> QED
    BY <2>1, <2>2, <2>4, <2>6 DEF ViewInv
<1>5. CASE process_update_context_vars
  BY <1>5, ContextKeeps
<1>6. ASSUME NEW path \in DOMAIN rows, varview_selection_function(path) PROVE ViewInv'
  BY <1>6, SelectionKeeps
<1>7. ASSUME NEW path \in DOMAIN rows, SelectsOnly(path) PROVE ViewInv'
  <2>1. /\ session' = session /\ begun' = begun /\ rows' = rows /\ asked' = asked /\ failed' = failed
        /\ steady' = steady /\ conf' = conf /\ running' = running
    BY <1>7 DEF SelectsOnly, prefVars
  <2>2. session # NULL => running'
    BY <2>1 DEF ViewInv
  <2> QED
    BY <2>1, <2>2, RowsStay
<1>8. CASE process_fetched_property
  BY <1>8, PropertyKeeps
<1>9. CASE process_fetched_error
  <2>1. /\ session' = session /\ begun' = begun /\ rows' = rows /\ asked' = NULL
        /\ failed' = failed \cup {asked.row}
        /\ steady' = steady /\ conf' = conf /\ running' = running
    BY <1>9 DEF process_fetched_error, prefVars
  <2>2. session # NULL => running'
    BY <2>1 DEF ViewInv
  <2> QED
    BY <2>1, <2>2, RowsStay
<1>10. CASE UNCHANGED vars
  <2>1. /\ session' = session /\ begun' = begun /\ rows' = rows /\ asked' = asked /\ failed' = failed
        /\ steady' = steady /\ conf' = conf /\ running' = running
    BY <1>10 DEF vars, viewVars, prefVars
  <2>2. session # NULL => running'
    BY <2>1 DEF ViewInv
  <2> QED
    BY <2>1, <2>2, RowsStay
<1> QED
  BY <1>1, <1>2, <1>3, <1>4, <1>5, <1>6, <1>7, <1>8, <1>9, <1>10, <1>11, <1>12 DEF Next

(* For all variables, sizes of pages, depths, settings and bounds.         *)
LEMMA ViewIsInvariant == Spec => []IInv
<1>1. Init => IInv
  <2> SUFFICES ASSUME Init PROVE IInv
    OBVIOUS
  <2> DEFINE none == << >>
  <2>1. session = NULL /\ rows = none /\ asked = NULL
    BY DEF Init
  <2>2. DOMAIN none = {}
    OBVIOUS
  <2> HIDE DEF none
  <2>3. ViewInv
    BY <2>1, <2>2 DEF ViewInv
  <2> QED
    BY <2>3, PrefStarts DEF Init, IInv
<1>2. IInv /\ [Next]_vars => IInv'
  BY StepsOfSettings, PrefKeeps, ViewKeeps DEF IInv
<1> QED
  BY <1>1, <1>2, PTL DEF Spec
-----------------------------------------------------------------------------
(***************************************************************************)
(* What the user sees below a row.                                         *)
(***************************************************************************)

(* The rows below a row are the first of its children.                     *)
LEMMA BelowIsFirst ==
  ASSUME IInv, steady, NEW path \in DOMAIN rows
  PROVE  /\ session # NULL /\ session.size \in Nat
         /\ rows[path].name \in DOMAIN Children /\ rows[path].fetched \in Nat
         /\ Below(path) = FirstKids(rows[path], session.size)
<1>1. session # NULL /\ session.size \in Nat /\ StoreInv(rows, session.size, Told)
  BY DEF IInv, ViewInv
<1>2. rows[path] \in RowType /\ InPlace(rows, path, session.size)
  BY <1>1 DEF StoreInv
<1>3. rows[path].name \in DOMAIN Children /\ rows[path].fetched \in Nat
  BY <1>2 DEF RowType
<1> DEFINE first == FirstKids(rows[path], session.size)
<1>4. /\ rows[path].kids = Len(first)
      /\ \A k \in 1..Len(first) : rows[Append(path, k)].name = first[k]
  BY <1>2 DEF InPlace
<1>5. first \in Seq(DOMAIN Children)
  <2> DEFINE names == Children[rows[path].name]
             n == Fetched(rows[path], session.size)
  <2>1. names \in Seq(DOMAIN Children) /\ Len(names) \in Nat
    BY <1>3, ChildrenAreNames
  <2>2. n \in 0..Len(names)
    BY <1>1, <1>3, <2>1 DEF Fetched
  <2>3. first = Shown(SubSeq(names, 1, n))
    BY DEF FirstKids
  <2> HIDE DEF names, n, first
  <2>4. \A i \in 1..n : names[i] \in DOMAIN Children
    BY <2>1, <2>2
  <2>5. SubSeq(names, 1, n) \in Seq(DOMAIN Children)
    BY <2>2, <2>4, SubSeqProperties
  <2> QED
    BY <2>3, <2>5, ShownIsTyped
<1> HIDE DEF first
<1>6. Below(path) = first
  <2>1. Below(path) = [k \in 1..Len(first) |-> first[k]]
    BY <1>4 DEF Below
  <2>2. first = [k \in 1..Len(first) |-> first[k]]
    BY <1>5
  <2> QED
    BY <2>1, <2>2
<1> QED
  BY <1>1, <1>3, <1>6 DEF first

(* The first of the children that are shown are a prefix of them all. *)
LEMMA FirstIsPrefix ==
  ASSUME NEW row, row.name \in DOMAIN Children, row.fetched \in Nat, NEW size \in Nat
  PROVE  /\ IsPrefix(FirstKids(row, size), Visible(row.name))
         /\ Len(Children[row.name]) <= row.fetched * size =>
               FirstKids(row, size) = Visible(row.name)
<1> DEFINE names == Children[row.name]
           n == Fetched(row, size)
<1>1. names \in Seq(DOMAIN Children) /\ Len(names) \in Nat
  BY ChildrenAreNames
<1>2. /\ n \in 0..Len(names)
      /\ Len(names) <= row.fetched * size => n = Len(names)
  <2>1. row.fetched * size \in Nat
    OBVIOUS
  <2> QED
    BY <1>1, <2>1 DEF Fetched
<1>3. FirstKids(row, size) = Shown(SubSeq(names, 1, n)) /\ Visible(row.name) = Shown(names)
  BY DEF FirstKids, Visible
<1> HIDE DEF names, n
<1>4. SubSeq(names, 1, Len(names)) = names
  BY <1>1, SubSeqFull
<1> DEFINE first == Shown(SubSeq(names, 1, n))
           rest  == Shown(SubSeq(names, n + 1, Len(names)))
<1>5. first \in Seq(DOMAIN Children) /\ rest \in Seq(DOMAIN Children)
      /\ Shown(names) = first \o rest
  <2>1. Len(names) \in n..Len(names)
    BY <1>1, <1>2
  <2>2. /\ first \in Seq(DOMAIN Children) /\ rest \in Seq(DOMAIN Children)
        /\ Shown(SubSeq(names, 1, Len(names))) = first \o rest
    BY <1>1, <1>2, <2>1, ShownConcat
  <2> QED
    BY <1>4, <2>2
<1>6. IsPrefix(first, Shown(names))
  <2> DEFINE whole == Shown(names)
  <2> HIDE DEF first, rest, whole
  <2>1. whole = first \o rest /\ Len(first) \in Nat /\ Len(rest) \in Nat
    BY <1>5 DEF whole
  <2>2. /\ whole \in Seq(DOMAIN Children) /\ Len(whole) = Len(first) + Len(rest)
        /\ \A k \in 1..Len(first) : whole[k] = first[k]
    BY <1>5, <2>1, ConcatProperties
  <2>3. Len(first) <= Len(whole)
    BY <2>1, <2>2
  <2>4. SubSeq(first, 1, Len(first)) = first
    BY <1>5, SubSeqFull
  <2> DEFINE part == SubSeq(whole, 1, Len(first))
  <2>5. /\ part \in Seq(DOMAIN Children) /\ Len(part) = Len(first)
        /\ \A k \in 1..Len(first) : part[k] = first[k]
    <3>1. \A k \in 1..Len(first) : whole[k] \in DOMAIN Children
      BY <1>5, <2>2
    <3>2. /\ part \in Seq(DOMAIN Children) /\ Len(part) = Len(first)
          /\ \A k \in 1..Len(first) : part[k] = whole[k]
      BY <2>1, <2>2, <3>1, SubSeqProperties
    <3> HIDE DEF part
    <3> QED
      BY <2>2, <3>2
  <2> HIDE DEF part
  <2>6. SubSeq(first, 1, Len(first)) = SubSeq(whole, 1, Len(first))
    <3>1. first = part
      BY <1>5, <2>5, SeqEqual
    <3> QED
      BY <2>4, <3>1 DEF part
  <2>7. IsPrefix(first, whole)
    BY <2>3, <2>6 DEF IsPrefix
  <2> QED
    BY <2>7 DEF whole
<1>7. Len(names) <= row.fetched * size => first = Shown(names)
  BY <1>2, <1>4
<1> QED
  BY <1>3, <1>6, <1>7 DEF names

(* The pages of every row are hung below it each once and in order, from   *)
(* the first of its children on, whatever rows were opened before and in   *)
(* between (add_property, src/src/server.c:397-528), while the engine pages *)
(* in the size the client counts in: from the second stop on, until the    *)
(* setting changes, and at the first stop, which is shown before the       *)
(* engine is told a size (616, 623), if the engine begins with that size.  *)
THEOREM PagesAreInOrder == Spec => []ChildrenInOrder
<1>1. IInv => ChildrenInOrder
  <2> SUFFICES ASSUME IInv, steady, NEW path \in DOMAIN rows
               PROVE  IsPrefix(Below(path), Visible(rows[path].name))
    BY DEF ChildrenInOrder
  <2>1. /\ session.size \in Nat
        /\ rows[path].name \in DOMAIN Children /\ rows[path].fetched \in Nat
        /\ Below(path) = FirstKids(rows[path], session.size)
    BY BelowIsFirst
  <2>2. IsPrefix(FirstKids(rows[path], session.size), Visible(rows[path].name))
    BY <2>1, FirstIsPrefix
  <2> QED
    BY <2>1, <2>2
<1> QED
  BY <1>1, ViewIsInvariant, PTL

(* A row that offers nothing more, and awaits nothing, has all the         *)
(* children it shows, unless the engine could not give them: a hint is     *)
(* cleared for good only by the last page (src/src/server.c:522-526, 824). *)
(* This too is so while the engine pages in the client's size.             *)
THEOREM NothingIsLeft == Spec => []NothingLeftBehind
<1>1. IInv => NothingLeftBehind
  <2> SUFFICES ASSUME IInv, steady, NEW path \in DOMAIN rows \ failed,
                      rows[path].hint = 0, asked # NULL => asked.row # path
               PROVE  Below(path) = Visible(rows[path].name)
    BY DEF NothingLeftBehind
  <2>1. /\ session # NULL /\ session.size \in Nat
        /\ rows[path].name \in DOMAIN Children /\ rows[path].fetched \in Nat
        /\ Below(path) = FirstKids(rows[path], session.size)
    BY BelowIsFirst
  <2>2. NoneLeft(rows[path], session.size)
    BY <2>1 DEF IInv, ViewInv
  <2>3. Len(Children[rows[path].name]) <= rows[path].fetched * session.size
    BY <2>2 DEF NoneLeft
  <2>4. FirstKids(rows[path], session.size) = Visible(rows[path].name)
    BY <2>1, <2>3, FirstIsPrefix
  <2> QED
    BY <2>1, <2>4
<1> QED
  BY <1>1, ViewIsInvariant, PTL

(* The pages counted for an array hold all of its children, and the last   *)
(* of them one at least (src/src/server.c:429-441), where the pages are of *)
(* the client's size: then only a division by zero leaves a count out, as  *)
(* the run zero_children shows.                                            *)
THEOREM PagesHoldTheChildren == Spec => []PagesCounted
<1>1. IInv => PagesCounted
  <2> SUFFICES ASSUME IInv, steady, NEW path \in DOMAIN rows, Len(Children[rows[path].name]) # 0
               PROVE  /\ (rows[path].count - 1) * session.size < Len(Children[rows[path].name])
                      /\ Len(Children[rows[path].name]) <= rows[path].count * session.size
    BY DEF PagesCounted
  <2>1. StoreInv(rows, session.size, Told)
    BY DEF IInv, ViewInv
  <2>2. Hints(rows[path], session.size, Told) /\ rows[path] \in RowType
    BY <2>1 DEF StoreInv
  <2>3. Len(Children[rows[path].name]) \in Nat
    BY <2>2, ChildrenAreNames DEF RowType
  <2> QED
    BY <2>2, <2>3 DEF Hints, Counts
<1> QED
  BY <1>1, ViewIsInvariant, PTL
=============================================================================
