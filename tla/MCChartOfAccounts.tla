------------------------- MODULE MCChartOfAccounts -------------------------
(***************************************************************************)
(* What the chart of accounts promises, and the instances that are checked. *)
(***************************************************************************)
EXTENDS ChartOfAccounts

CONSTANTS g1, g2, cash

(***************************************************************************)
(* The first state chooses what happens:                                   *)
(*   alone     one call at a time, and no import                           *)
(*   import    one call at a time, and a workbook is activated             *)
(*   together  two changes at once                                         *)
(***************************************************************************)
VARIABLE scenario

Account(c, parent, group, active) == [code |-> c, parent |-> parent, group |-> group, active |-> active]

\* A draft that moves one group under another, which a change may turn round
\* meanwhile, and lists an account of the system.
MCDrafts ==
    {{Account(g1, NoCode, TRUE, TRUE), Account(g2, g1, TRUE, TRUE), Account(cash, g1, FALSE, FALSE)}}

\* The first of the calls, when they come one by one.
First == CHOOSE k \in Calls : TRUE

Begun(k, ops) ==
    /\ scenario = "together" \/ k = First
    /\ Begin(k)
    /\ calls'[k].op \in ops

ChartInstanceNext ==
    /\ \/ \E k \in Calls : Proceed(k) \/ breakDeadlock(k)
       \/ scenario = "alone" /\ \E k \in Calls : Begun(k, Operations)
       \/ scenario = "import" /\ \E k \in Calls : Begun(k, {"update", "post", "import"})
       \/ scenario = "together" /\ \E k \in Calls : Begun(k, {"update", "deactivate", "import"})
       \/ scenario # "alone" /\ \E draft \in Drafts : importCOADraft(draft)
    /\ UNCHANGED scenario

\* A call that can go on does, and the database sees a deadlock; a row that
\* others lock again and again is granted in the end, because waiting calls
\* queue for it.
ChartInstanceInit == ChartInit /\ scenario \in {"alone", "import", "together"}

ChartInstance ==
    /\ ChartInstanceInit /\ [][ChartInstanceNext]_<<chartVars, scenario>>
    /\ \A k \in Calls : SF_chartVars(Proceed(k)) /\ WF_chartVars(breakDeadlock(k))

-----------------------------------------------------------------------------
\* As long as calls come one by one and no workbook is activated, which does not
\* ask for the mappings, an active mapping names an account that can be posted
\* to, so that no transaction is refused because of the rule it is booked by
\* (accounting.go:312 and accounting.go:376 guard the accounts,
\* accounting_mappings.go:163 the rules).
MappingsArePosting ==
    scenario = "alone" =>
        \A r \in Mappings : mappings[r].active => coaAccountForPostingTx(mappings[r].code)

\* As long as journals are not posted during a change, an account with journal
\* lines keeps its place in the chart, also if it was first used after a draft
\* with another place for it was read (accounting.go:307, coa_import.go:350).
UsedAccountsKeepMeaning ==
    [][\A c \in used : Means(accounts'[c]) = Means(accounts[c])]_chartVars

\* Every change of the chart comes to an end, also when two lock the same rows
\* in different orders (accounting.go:210, coa_import.go:354).
ChangesEnd == \A k \in Calls : calls[k] # IdleCall ~> calls[k] = IdleCall
=============================================================================
