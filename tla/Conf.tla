-------------------------------- MODULE Conf --------------------------------
(***************************************************************************)
(* src/conf.c: a file of sections and settings, read line by line into a   *)
(* table of src/htab.c under the names section:key, and asked for them.    *)
(* Names and values are words, values as strtrip leaves them; a name may   *)
(* be written in several ways, which strlower makes one.  Memory may fail. *)
(*                                                                         *)
(* A definition named X_Y is a slip one could make in X; the specification *)
(* does not use it.                                                        *)
(***************************************************************************)
EXTENDS HTab

CONSTANTS Sections, Names, \* as the file and the client write them
          Lower,           \* strlower of each
          Nowhere,         \* the section of what stands before any: printed "(null)"
          Key              \* Key[<<section, name>>] is section:name, a key of the table

LowerSections == {Lower[s] : s \in Sections} \cup {Nowhere}
LowerNames == {Lower[n] : n \in Names}
Settings == LowerSections \X LowerNames

\* Two settings have two keys: section and name hold no colon of their own.
ConfAssumption == /\ Key \in [Settings -> Keys] /\ IsInjective(Key)
                  /\ Lower[Nowhere] = Nowhere

VARIABLES conf,            \* "none", "open", "loading", "read" to the end, "crashed"
          section,         \* the variable of conf_load
          said,            \* history: the last value the file gave each setting
          dropped          \* history: the settings whose last value found no memory

confVars == <<conf, section, said, dropped>>

NothingSaid == [p \in Settings |-> None]

ConfInit == conf = "none" /\ section = Nowhere /\ said = NothingSaid /\ dropped = {}

\* conf_create: without memory or without the file there is none.
conf_create ==
    /\ conf = "none"
    /\ conf' \in {"none", "open"}
    /\ UNCHANGED <<vars, section, said, dropped>>

\* The section is a variable of the call: each load begins nowhere.
conf_load ==
    /\ conf = "open"
    /\ conf' = "loading" /\ section' = Nowhere
    /\ UNCHANGED <<vars, said, dropped>>

\* [name]
SectionLine(s) ==
    /\ conf = "loading"
    /\ section' = Lower[s]
    /\ UNCHANGED <<vars, conf, said, dropped>>

\* The key of a setting: perm in the code.
Perm_NameOnly(s, n) == Key[<<Nowhere, Lower[n]>>]
Perm(s, n) == Key[<<s, Lower[n]>>]

\* name = "value", name = 'value', name = value ; comment, or no value, which is one.
\* Nobody looks at the result of htab_put.
SettingLine(n, v) ==
    /\ conf = "loading"
    /\ htab_put(Perm(section, n), v)
    /\ LET p == <<section, Lower[n]>>
       IN  /\ said' = [said EXCEPT ![p] = v]
           /\ dropped' = IF call'.ret = "err" THEN dropped \cup {p} ELSE dropped \ {p}
    /\ UNCHANGED <<conf, section>>

\* Empty lines, comments, and what is none of the above.
OtherLine == conf = "loading" /\ UNCHANGED <<vars, confVars>>

\* No memory for the section, the name or the value of a line, which conf_load does
\* not look at, or a word that is longer than what it has allocated.
LineCrashes ==
    /\ conf = "loading"
    /\ conf' = "crashed"
    /\ UNCHANGED <<vars, section, said, dropped>>

\* The end of the file, where a later load would find itself at once.
LoadReturns == conf = "loading" /\ conf' = "read" /\ UNCHANGED <<vars, section, said, dropped>>

\* conf_getstr and the conversions to numbers ask it too.  Without memory for the
\* key, the table is not asked.
conf_get(s, n) ==
    /\ conf \in {"open", "read"}
    /\ htab_get(Key[<<Lower[s], Lower[n]>>]) \/ UNCHANGED vars
    /\ UNCHANGED confVars

conf_destroy ==
    /\ conf \in {"open", "read"}
    /\ htab_destroy
    /\ conf' = "none" /\ section' = Nowhere /\ said' = NothingSaid /\ dropped' = {}
-----------------------------------------------------------------------------
\* What the table holds of a setting, however it is written, is the last value the
\* file gave it in its section: neither lines of other sections and other names nor
\* growth come in between.  A first value that found no memory is missing, although
\* conf_load succeeds; a later one replaces the one before without any.
ConfExact == conf # "none" => \A p \in Settings :
                 ValueOf(Key[p]) = IF p \in dropped THEN None ELSE said[p]
=============================================================================
