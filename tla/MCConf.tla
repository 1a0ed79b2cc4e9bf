------------------------------- MODULE MCConf -------------------------------
(***************************************************************************)
(* A small instance of HTab, and of Conf above it, for TLC: a client of    *)
(* the table, or one of the file.                                          *)
(***************************************************************************)
EXTENDS Conf, TLC

CONSTANTS k1, k2, k3, k4, v1, v2, p1, p2, p3

VARIABLE use

MCKeys == {k1, k2, k3, k4}
MCVals == {v1, v2}
MCCells == {p1, p2, p3}
\* All four share a chain until the table has four buckets; k4 then leaves it.
MCHash == k1 :> 0 @@ k2 :> 4 @@ k3 :> 8 @@ k4 :> 2

MCSections == {"S", "s"}
MCNames == {"N", "m"}
MCLower == [w \in {"S", "s"} |-> "s"] @@ "N" :> "n" @@ "m" :> "m" @@ "(null)" :> "(null)"
MCKey == <<"(null)", "n">> :> k1 @@ <<"(null)", "m">> :> k2
         @@ <<"s", "n">> :> k3 @@ <<"s", "m">> :> k4

\* No step reads call.
MCView == <<size, items, bucket, heap, at, due, new, confVars, use>>

ASSUME MCConfAssumption == ConfAssumption

MCInit == Init /\ ConfInit /\ use \in {"table", "file"}
OnTable == use = "table" /\ UNCHANGED <<confVars, use>>
OnFile == use = "file" /\ UNCHANGED use

MCNext ==
    \/ \E k \in Keys, v \in Vals : htab_put(k, v) /\ OnTable
    \/ \E k \in Keys : htab_get(k) /\ OnTable
    \/ \E k \in Keys : htab_remove(k) /\ OnTable
    \/ htab_destroy /\ OnTable
    \/ htab_begin /\ OnTable
    \/ htab_next /\ OnTable
    \/ Break /\ OnTable
    \/ conf_create /\ OnFile
    \/ conf_load /\ OnFile
    \/ \E s \in Sections : SectionLine(s) /\ OnFile
    \/ \E n \in Names, v \in Vals : SettingLine(n, v) /\ OnFile
    \/ OtherLine /\ OnFile
    \/ LineCrashes /\ OnFile
    \/ LoadReturns /\ OnFile
    \/ \E s \in Sections \cup {Nowhere}, n \in Names : conf_get(s, n) /\ OnFile
    \/ conf_destroy /\ OnFile
MCSpec == MCInit /\ [][MCNext]_<<vars, confVars, use>>
=============================================================================
