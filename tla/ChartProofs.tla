---------------------------- MODULE ChartProofs ----------------------------
(***************************************************************************)
(* The chart of accounts, for any codes, mappings, calls and workbooks: a  *)
(* mapping that is switched on names an account that can be posted to, and *)
(* an account that was used keeps its place.  Both rest on what a call has *)
(* found to be so, from its reads until it writes.                         *)
(***************************************************************************)
EXTENDS MCChartOfAccounts, StartupSafety, FiniteSetTheorems, TLAPS

\* What is true of what a call holds, when calls come one by one.
CallFits(call) ==
    /\ call.op = "insert" => call.code \in Codes /\ call.want \in Rows
    /\ call.op = "update" =>
        /\ call.code \in Codes /\ call.want \in Rows
        /\ call.found = accounts[call.code]
        /\ call.at = "writing" =>
            /\ call.code \in used => Means(call.found) = Means(call.want)
            /\ (Means(call.found) # Means(call.want) \/ (call.found.active /\ ~call.want.active))
                   => ~HasActiveMapping(call.code)
    /\ call.op = "deactivate" =>
        /\ call.code \in Codes /\ Exists(call.code)
        /\ call.at = "writing" => ~HasActiveMapping(call.code)
    /\ call.op = "map" =>
        /\ call.code \in Codes /\ coaAccountForPostingTx(call.code)
        /\ call.rule \in Mappings /\ call.want.active \in BOOLEAN
    /\ call.op = "post" => \A c \in {call.code, call.other} : c \in Codes /\ coaAccountForPostingTx(c)
    /\ call.op = "import" =>
        \A row \in call.written : row.code \in used => Means(accounts[row.code]) = Means(Row(row))

TablesFit ==
    /\ accounts = [c \in Codes |-> accounts[c]]
    /\ \A c \in Codes : Exists(c) => accounts[c] = Row(accounts[c])
    /\ mappings \in [Mappings -> [code : Codes \cup {NoCode}, active : BOOLEAN]]
    /\ \A r \in Mappings : mappings[r].active => mappings[r].code \in Codes
    /\ \A c \in used : c \in Codes /\ Exists(c)

OneByOne ==
    /\ TablesFit
    /\ \A k \in Calls : CallFits(calls[k]) /\ (k = First \/ calls[k] = IdleCall)
    /\ scenario = "alone" => \A k \in Calls : calls[k].op # "import"
    /\ MappingsArePosting

\* Calls come one by one, or several at once and then nothing is posted.
ChartInvariant ==
    /\ calls = [k \in Calls |-> calls[k]]
    /\ IF scenario = "together" THEN used = {} /\ \A k \in Calls : calls[k].op # "post"
       ELSE OneByOne

-----------------------------------------------------------------------------
\* Only the call of k changes, to one that fits.
LEMMA Served ==
    ASSUME ChartInvariant, UNCHANGED tables, scenario' = scenario,
           NEW k \in Calls, NEW call, Serve(k, call),
           IF scenario = "together" THEN call.op # "post"
           ELSE CallFits(call) /\ (k = First \/ call = IdleCall),
           scenario = "alone" => call.op # "import"
    PROVE  ChartInvariant'
<1>1. /\ calls' = [j \in Calls |-> calls'[j]] /\ calls'[k] = call
      /\ \A j \in Calls \ {k} : calls'[j] = calls[j]
    BY DEF ChartInvariant, Serve
<1>2. accounts' = accounts /\ mappings' = mappings /\ used' = used
    BY DEF tables
<1>3. /\ TablesFit => TablesFit'
      /\ MappingsArePosting => MappingsArePosting'
    BY <1>2 DEF TablesFit, MappingsArePosting, Exists, coaAccountForPostingTx
<1>4. ASSUME NEW c PROVE CallFits(c)' <=> CallFits(c)
    BY <1>2 DEF CallFits, Exists, coaAccountForPostingTx, HasActiveMapping
<1>5. CASE scenario = "together"
    BY <1>1, <1>2, <1>5 DEF ChartInvariant
<1>6. CASE scenario # "together"
    BY <1>1, <1>3, <1>4, <1>6 DEF ChartInvariant, OneByOne
<1>7. QED
    BY <1>5, <1>6

\* A call ends; if calls come one by one there is no other.
LEMMA Ended ==
    ASSUME ChartInvariant, scenario' = scenario, NEW k \in Calls, calls[k] # IdleCall,
           Serve(k, IdleCall),
           IF scenario = "together" THEN used' = {} ELSE TablesFit' /\ MappingsArePosting'
    PROVE  ChartInvariant'
<1>1. /\ calls' = [j \in Calls |-> calls'[j]] /\ calls'[k] = IdleCall
      /\ \A j \in Calls \ {k} : calls'[j] = calls[j]
    BY DEF ChartInvariant, Serve
<1>2. IdleCall.op = "none"
    BY DEF IdleCall
<1>3. CallFits(IdleCall)'
    BY <1>2 DEF CallFits
<1>4. CASE scenario = "together"
    BY <1>1, <1>2, <1>4 DEF ChartInvariant
<1>5. CASE scenario # "together"
    <2>1. \A j \in Calls : calls'[j] = IdleCall
        BY <1>1, <1>5 DEF ChartInvariant, OneByOne
    <2>2. QED
        BY <1>1, <1>2, <1>3, <1>5, <2>1 DEF ChartInvariant, OneByOne
<1>6. QED
    BY <1>4, <1>5

LEMMA RolledBack ==
    ASSUME ChartInvariant, scenario' = scenario, NEW k \in Calls, Rollback(k)
    PROVE  ChartInvariant'
<1>1. IdleCall.op = "none" /\ CallFits(IdleCall)
    BY DEF IdleCall, CallFits
<1>2. QED
    BY <1>1, Served DEF Rollback

-----------------------------------------------------------------------------
(***************************************************************************)
(* A call begins.                                                          *)
(***************************************************************************)
LEMMA IdleFields ==
    /\ IdleCall.op = "none" /\ IdleCall.at = "idle" /\ IdleCall.code = NoCode
    /\ IdleCall.written = {} /\ IdleCall.want = NoAccount
BY DEF IdleCall

LEMMA Begins ==
    ASSUME ChartInvariant, scenario' = scenario, NEW k \in Calls, Begin(k),
           scenario # "together" => k = First,
           scenario = "alone" => calls'[k].op # "import",
           scenario = "together" => calls'[k].op # "post"
    PROVE  ChartInvariant'
<1>0. ASSUME NEW call, Serve(k, call) PROVE calls'[k] = call
    BY <1>0 DEF ChartInvariant, Serve
<1>1. ASSUME NEW c \in Codes, NEW want \in Rows, beginInsert(k, c, want) PROVE ChartInvariant'
    <2> DEFINE call == [IdleCall EXCEPT !.op = "insert", !.at = "writing", !.code = c, !.want = want]
    <2>1. call.op = "insert" /\ call.code = c /\ call.want = want
        BY DEF IdleCall
    <2>2. Serve(k, call) /\ UNCHANGED tables
        BY <1>1 DEF beginInsert
    <2> HIDE DEF call
    <2>3. CallFits(call)
        BY <2>1 DEF CallFits
    <2>4. QED
        BY <2>1, <2>2, <2>3, Served
<1>2. ASSUME NEW c \in Codes, NEW want, want \in Rows, lockAccount(k, "update", c, want) PROVE ChartInvariant'
    <2> DEFINE call == [IdleCall EXCEPT !.op = "update", !.at = "reading", !.code = c,
                                        !.found = accounts[c], !.want = want]
    <2>1. call.op = "update" /\ call.at = "reading" /\ call.code = c /\ call.want = want
          /\ call.found = accounts[c]
        BY DEF IdleCall
    <2>2. Serve(k, call) /\ UNCHANGED tables
        BY <1>2 DEF lockAccount
    <2> HIDE DEF call
    <2>3. CallFits(call)
        BY <1>2, <2>1 DEF CallFits
    <2>4. QED
        BY <2>1, <2>2, <2>3, Served
<1>3. ASSUME NEW c \in Codes, lockAccount(k, "deactivate", c, NoAccount) PROVE ChartInvariant'
    <2> DEFINE call == [IdleCall EXCEPT !.op = "deactivate", !.at = "reading", !.code = c,
                                        !.found = accounts[c], !.want = NoAccount]
    <2>1. call.op = "deactivate" /\ call.at = "reading" /\ call.code = c
        BY DEF IdleCall
    <2>2. Serve(k, call) /\ UNCHANGED tables /\ Exists(c)
        BY <1>3 DEF lockAccount
    <2> HIDE DEF call
    <2>3. CallFits(call)
        BY <2>1, <2>2 DEF CallFits
    <2>4. QED
        BY <2>1, <2>2, <2>3, Served
<1>4. ASSUME NEW r \in Mappings, NEW c \in Codes, NEW active \in BOOLEAN, checkMapping(k, r, c, active)
      PROVE  ChartInvariant'
    <2> DEFINE call == [IdleCall EXCEPT !.op = "map", !.at = "writing", !.rule = r,
                                        !.code = c, !.want.active = active]
    <2>1. call.op = "map" /\ call.code = c /\ call.rule = r /\ call.want.active = active
        BY DEF IdleCall, NoAccount
    <2>2. Serve(k, call) /\ UNCHANGED tables /\ coaAccountForPostingTx(c)
        BY <1>4 DEF checkMapping
    <2> HIDE DEF call
    <2>3. CallFits(call)
        BY <2>1, <2>2 DEF CallFits
    <2>4. QED
        BY <2>1, <2>2, <2>3, Served
<1>5. ASSUME NEW debit \in Codes, NEW credit \in Codes, checkLines(k, debit, credit)
      PROVE  ChartInvariant'
    <2> DEFINE call == [IdleCall EXCEPT !.op = "post", !.at = "writing", !.code = debit, !.other = credit]
    <2>1. call.op = "post" /\ call.code = debit /\ call.other = credit
        BY DEF IdleCall
    <2>2. Serve(k, call) /\ UNCHANGED tables /\ coaAccountForPostingTx(debit) /\ coaAccountForPostingTx(credit)
        BY <1>5 DEF checkLines
    <2> HIDE DEF call
    <2>3. CallFits(call)
        BY <2>1, <2>2 DEF CallFits
    <2>4. scenario # "together"
        BY <1>0, <2>1, <2>2
    <2>5. QED
        BY <2>1, <2>2, <2>3, <2>4, Served
<1>6. ASSUME NEW draft \in Drafts, beginImport(k, draft) PROVE ChartInvariant'
    <2> DEFINE call == [IdleCall EXCEPT !.op = "import", !.at = "importing", !.draft = draft,
                                        !.rest = ParentsFirst(draft)]
    <2>1. call.op = "import" /\ call.written = {}
        BY DEF IdleCall
    <2>2. Serve(k, call) /\ UNCHANGED tables
        BY <1>6 DEF beginImport
    <2> HIDE DEF call
    <2>3. CallFits(call)
        BY <2>1 DEF CallFits
    <2>4. scenario # "alone"
        BY <1>0, <2>1, <2>2
    <2>5. QED
        BY <2>1, <2>2, <2>3, <2>4, Served
<1>7. QED
    BY <1>1, <1>2, <1>3, <1>4, <1>5, <1>6 DEF Begin

-----------------------------------------------------------------------------
(***************************************************************************)
(* A call goes on, or ends.                                                *)
(***************************************************************************)
\* What is known of a call that is not idle.
LEMMA OnlyCall ==
    ASSUME ChartInvariant, NEW k \in Calls, calls[k].op # "none"
    PROVE  /\ calls[k] # IdleCall
           /\ scenario = "together" => used = {} /\ calls[k].op # "post"
           /\ scenario # "together" => OneByOne /\ k = First /\ CallFits(calls[k])
BY IdleFields DEF ChartInvariant, OneByOne

LEMMA Reads ==
    ASSUME ChartInvariant, scenario' = scenario, NEW k \in Calls,
           readForUpdate(k) \/ readForDeactivation(k)
    PROVE  ChartInvariant'
<1> DEFINE call == [calls[k] EXCEPT !.at = "writing"]
<1>1. calls[k].op \in {"update", "deactivate"} /\ calls[k].op # "none"
    BY DEF readForUpdate, readForDeactivation, At
<1>2. /\ scenario = "together" => used = {}
      /\ scenario # "together" => k = First /\ CallFits(calls[k])
    BY <1>1, OnlyCall
<1>3. Rollback(k) \/ (Serve(k, call) /\ UNCHANGED tables)
    BY DEF readForUpdate, readForDeactivation, Decide
<1>4. CASE Rollback(k)
    BY <1>4, RolledBack
<1>5. CASE Serve(k, call) /\ UNCHANGED tables /\ ~Rollback(k)
    <2>1. /\ call.op = calls[k].op /\ call.code = calls[k].code /\ call.want = calls[k].want
          /\ call.found = calls[k].found
        OBVIOUS
    <2>2. calls[k].op = "update" => MayUpdate(calls[k].code, calls[k].found, calls[k].want)
        BY <1>5 DEF readForUpdate, readForDeactivation, Decide, At
    <2>3. calls[k].op = "deactivate" => MayDeactivate(calls[k].code)
        BY <1>5 DEF readForUpdate, readForDeactivation, Decide, At
    <2> HIDE DEF call
    <2>4. scenario # "together" => CallFits(call)
        BY <1>1, <1>2, <2>1, <2>2, <2>3 DEF CallFits, MayUpdate, MayDeactivate
    <2>5. QED
        BY <1>1, <1>2, <1>5, <2>1, <2>4, Served
<1>6. QED
    BY <1>3, <1>4, <1>5

LEMMA RowsAreRows ==
    ASSUME NEW row \in Rows
    PROVE  row = Row(row) /\ row # NoAccount
BY DEF Rows, Row, NoAccount

\* What is written to the chart by a call that ends.
LEMMA ChartWritten ==
    ASSUME ChartInvariant, scenario' = scenario, NEW k \in Calls, calls[k].op # "none",
           Serve(k, IdleCall), UNCHANGED <<mappings, used>>,
           scenario # "together" =>
               /\ accounts' = [c \in Codes |-> accounts'[c]]
               /\ \A c \in Codes : \/ accounts'[c] = accounts[c]
                                   \/ accounts'[c] = Row(accounts'[c]) /\ accounts'[c] # NoAccount
               /\ \A c \in used : Means(accounts'[c]) = Means(accounts[c])
               /\ scenario = "alone" =>
                    \A c \in Codes : HasActiveMapping(c) =>
                        accounts'[c].active = accounts[c].active /\ accounts'[c].group = accounts[c].group
    PROVE  ChartInvariant' /\ \A c \in used : Means(accounts'[c]) = Means(accounts[c])
<1>1. /\ calls[k] # IdleCall
      /\ scenario = "together" => used = {}
      /\ scenario # "together" => OneByOne
    BY OnlyCall
<1>2. CASE scenario = "together"
    BY <1>1, <1>2, Ended
<1>3. CASE scenario # "together"
    <2>1. TablesFit'
        BY <1>1, <1>3 DEF OneByOne, TablesFit, Exists
    <2>2. ASSUME scenario = "alone", NEW r \in Mappings, mappings[r].active
          PROVE  coaAccountForPostingTx(mappings[r].code)'
        <3> DEFINE c == mappings[r].code
        <3>1. coaAccountForPostingTx(c)
            BY <1>1, <1>3, <2>2 DEF OneByOne, MappingsArePosting
        <3>2. mappings[r] = [code |-> c, active |-> TRUE]
            BY <1>1, <1>3, <2>2 DEF OneByOne, TablesFit
        <3>3. c \in Codes
            BY <1>1, <1>3, <2>2 DEF OneByOne, TablesFit
        <3>4. QED
            BY <1>3, <2>2, <3>1, <3>2, <3>3 DEF HasActiveMapping, coaAccountForPostingTx, Exists
    <2>3. MappingsArePosting'
        BY <2>2 DEF MappingsArePosting, coaAccountForPostingTx, Exists
    <2>4. QED
        BY <1>1, <1>3, <2>1, <2>3, Ended
<1>4. QED
    BY <1>2, <1>3

-----------------------------------------------------------------------------
(***************************************************************************)
(* The steps that write.                                                   *)
(***************************************************************************)
KeepsMeaning == \A c \in used : Means(accounts'[c]) = Means(accounts[c])

LEMMA InsertStep ==
    ASSUME ChartInvariant, scenario' = scenario, NEW k \in Calls, insertCOAAccount(k)
    PROVE  ChartInvariant' /\ KeepsMeaning
<1> DEFINE call == calls[k]
<1>1. call.op = "insert" /\ call.op # "none"
    BY DEF insertCOAAccount, At
<1>2. scenario # "together" => OneByOne /\ CallFits(call)
    BY <1>1, OnlyCall
<1>3. CASE Rollback(k)
    BY <1>3, RolledBack DEF Rollback, tables, KeepsMeaning
<1>4. CASE ~Rollback(k)
    <2>1. /\ ~Exists(call.code) /\ accounts' = [accounts EXCEPT ![call.code] = call.want]
          /\ Serve(k, IdleCall) /\ UNCHANGED <<mappings, used>>
        BY <1>4 DEF insertCOAAccount
    <2> HIDE DEF call
    <2>2. ASSUME scenario # "together"
          PROVE  /\ accounts' = [c \in Codes |-> accounts'[c]]
                 /\ \A c \in Codes : accounts'[c] = IF c = call.code THEN call.want ELSE accounts[c]
                 /\ call.want = Row(call.want) /\ call.want # NoAccount
                 /\ \A c \in used : c \in Codes /\ c # call.code
        BY <1>1, <1>2, <2>1, <2>2, RowsAreRows DEF OneByOne, TablesFit, CallFits
    <2>3. ASSUME scenario = "alone", NEW c \in Codes, HasActiveMapping(c)
          PROVE  c # call.code
        <3>1. PICK r \in Mappings : mappings[r].active /\ mappings[r].code = c
            BY <2>3 DEF HasActiveMapping
        <3>2. QED
            BY <1>2, <2>1, <2>3, <3>1 DEF OneByOne, MappingsArePosting, coaAccountForPostingTx
    <2>4. QED
        BY <1>1, <2>1, <2>2, <2>3, ChartWritten DEF call, KeepsMeaning
<1>5. QED
    BY <1>3, <1>4

LEMMA UpdateStep ==
    ASSUME ChartInvariant, scenario' = scenario, NEW k \in Calls, updateCOAAccountByID(k)
    PROVE  ChartInvariant' /\ KeepsMeaning
<1> DEFINE call == calls[k]
<1>1. call.op = "update" /\ call.at = "writing" /\ call.op # "none"
    BY DEF updateCOAAccountByID, At
<1>2. scenario # "together" => OneByOne /\ CallFits(call)
    BY <1>1, OnlyCall
<1>3. /\ accounts' = [accounts EXCEPT ![call.code] = call.want]
      /\ Serve(k, IdleCall) /\ UNCHANGED <<mappings, used>>
    BY DEF updateCOAAccountByID
<1> HIDE DEF call
<1>4. ASSUME scenario # "together"
      PROVE  /\ accounts' = [c \in Codes |-> accounts'[c]]
             /\ \A c \in Codes : accounts'[c] = IF c = call.code THEN call.want ELSE accounts[c]
             /\ call.want = Row(call.want) /\ call.want # NoAccount
             /\ call.found = accounts[call.code] /\ call.want \in Rows
    BY <1>1, <1>2, <1>3, <1>4, RowsAreRows DEF OneByOne, TablesFit, CallFits
<1>5. ASSUME scenario # "together", NEW c \in used
      PROVE  Means(accounts'[c]) = Means(accounts[c])
    BY <1>1, <1>2, <1>4, <1>5 DEF OneByOne, TablesFit, CallFits
<1>6. ASSUME scenario = "alone", NEW c \in Codes, HasActiveMapping(c)
      PROVE  accounts'[c].active = accounts[c].active /\ accounts'[c].group = accounts[c].group
    <2>1. CASE c # call.code
        BY <1>4, <1>6, <2>1
    <2>2. CASE c = call.code
        <3>1. Means(call.found) = Means(call.want) /\ ~(call.found.active /\ ~call.want.active)
            BY <1>1, <1>2, <1>6, <2>2 DEF CallFits
        <3>2. call.found.active /\ ~call.found.group
            <4>1. PICK r \in Mappings : mappings[r].active /\ mappings[r].code = c
                BY <1>6 DEF HasActiveMapping
            <4>2. QED
                BY <1>2, <1>4, <1>6, <2>2, <4>1 DEF OneByOne, MappingsArePosting, coaAccountForPostingTx
        <3>3. call.want.active \in BOOLEAN /\ call.want.group = call.found.group
            BY <1>4, <1>6, <3>1 DEF Rows, Means
        <3>4. QED
            BY <1>4, <1>6, <2>2, <3>1, <3>2, <3>3
    <2>3. QED
        BY <2>1, <2>2
<1>7. QED
    BY <1>1, <1>3, <1>4, <1>5, <1>6, ChartWritten, OnlyCall DEF call, KeepsMeaning

LEMMA SwitchedOff ==
    ASSUME NEW old, old = Row(old), NEW off, off = [old EXCEPT !.active = FALSE]
    PROVE  off = Row(off) /\ off # NoAccount /\ Means(off) = Means(old)
<1> DEFINE p == old.parent
           g == old.group
           a == old.active
<1>1. old = [parent |-> p, group |-> g, active |-> a]
    BY DEF Row
<1> HIDE DEF p, g, a
<1>2. off = [parent |-> p, group |-> g, active |-> FALSE]
    BY <1>1
<1>3. QED
    BY <1>1, <1>2 DEF Row, NoAccount, Means

LEMMA DeactivateStep ==
    ASSUME ChartInvariant, scenario' = scenario, NEW k \in Calls, deactivateCOAAccountByID(k)
    PROVE  ChartInvariant' /\ KeepsMeaning
<1> DEFINE call == calls[k]
           off  == [accounts[call.code] EXCEPT !.active = FALSE]
<1>1. call.op = "deactivate" /\ call.at = "writing" /\ call.op # "none"
    BY DEF deactivateCOAAccountByID, At
<1>2. scenario # "together" => OneByOne /\ CallFits(call)
    BY <1>1, OnlyCall
<1>3. /\ accounts' = [accounts EXCEPT ![call.code] = off]
      /\ Serve(k, IdleCall) /\ UNCHANGED <<mappings, used>>
    BY DEF deactivateCOAAccountByID
<1> HIDE DEF call
<1>4. ASSUME scenario # "together"
      PROVE  /\ accounts' = [c \in Codes |-> accounts'[c]]
             /\ \A c \in Codes : accounts'[c] = IF c = call.code THEN off ELSE accounts[c]
             /\ off = Row(off) /\ off # NoAccount
             /\ Means(off) = Means(accounts[call.code])
             /\ ~HasActiveMapping(call.code)
    <2> HIDE DEF off
    <2>1. /\ accounts' = [c \in Codes |-> accounts'[c]]
          /\ \A c \in Codes : accounts'[c] = IF c = call.code THEN off ELSE accounts[c]
        BY <1>2, <1>3, <1>4 DEF OneByOne, TablesFit
    <2>2. accounts[call.code] = Row(accounts[call.code]) /\ ~HasActiveMapping(call.code)
        BY <1>1, <1>2, <1>4 DEF OneByOne, TablesFit, CallFits
    <2>3. off = [accounts[call.code] EXCEPT !.active = FALSE]
        BY DEF off
    <2>4. off = Row(off) /\ off # NoAccount /\ Means(off) = Means(accounts[call.code])
        BY <2>2, <2>3, SwitchedOff
    <2>5. QED
        BY <2>1, <2>2, <2>4
<1> HIDE DEF off
<1>5. ASSUME scenario # "together", NEW c \in used
      PROVE  Means(accounts'[c]) = Means(accounts[c])
    BY <1>2, <1>4, <1>5 DEF OneByOne, TablesFit
<1>6. QED
    BY <1>1, <1>3, <1>4, <1>5, ChartWritten, OnlyCall DEF call, KeepsMeaning

LEMMA MappingStep ==
    ASSUME ChartInvariant, scenario' = scenario, NEW k \in Calls, saveAccountingMapping(k)
    PROVE  ChartInvariant' /\ KeepsMeaning
<1> DEFINE call == calls[k]
           row  == [code |-> call.code, active |-> call.want.active]
<1>1. call.op = "map" /\ call.op # "none"
    BY DEF saveAccountingMapping, At
<1>2. scenario # "together" => OneByOne /\ CallFits(call)
    BY <1>1, OnlyCall
<1>3. /\ mappings' = [mappings EXCEPT ![call.rule] = row]
      /\ Serve(k, IdleCall) /\ accounts' = accounts /\ used' = used
    BY DEF saveAccountingMapping
<1> HIDE DEF call
<1>4. ASSUME scenario # "together" PROVE TablesFit' /\ MappingsArePosting'
    <2>1. /\ call.code \in Codes /\ call.rule \in Mappings /\ call.want.active \in BOOLEAN
          /\ coaAccountForPostingTx(call.code)
        BY <1>1, <1>2, <1>4 DEF CallFits
    <2>2. row \in [code : Codes \cup {NoCode}, active : BOOLEAN] /\ row.code = call.code
        BY <2>1
    <2> HIDE DEF row
    <2>3. mappings' \in [Mappings -> [code : Codes \cup {NoCode}, active : BOOLEAN]]
          /\ \A r \in Mappings : mappings'[r] = IF r = call.rule THEN row ELSE mappings[r]
        BY <1>2, <1>3, <1>4, <2>1, <2>2 DEF OneByOne, TablesFit
    <2>4. TablesFit'
        BY <1>2, <1>3, <1>4, <2>1, <2>2, <2>3 DEF OneByOne, TablesFit, Exists
    <2>5. MappingsArePosting'
        BY <1>2, <1>3, <1>4, <2>1, <2>2, <2>3
           DEF OneByOne, MappingsArePosting, coaAccountForPostingTx, Exists
    <2>6. QED
        BY <2>4, <2>5
<1>5. calls[k] # IdleCall /\ (scenario = "together" => used = {})
    BY <1>1, OnlyCall DEF call
<1>6. QED
    BY <1>3, <1>4, <1>5, Ended DEF KeepsMeaning

LEMMA PostStep ==
    ASSUME ChartInvariant, scenario' = scenario, NEW k \in Calls, postLines(k)
    PROVE  ChartInvariant' /\ KeepsMeaning
<1> DEFINE call == calls[k]
<1>1. call.op = "post" /\ call.op # "none"
    BY DEF postLines, At
<1>2. calls[k] # IdleCall /\ scenario # "together" /\ OneByOne /\ CallFits(call)
    BY <1>1, OnlyCall
<1>3. /\ used' = used \cup {call.code, call.other}
      /\ Serve(k, IdleCall) /\ accounts' = accounts /\ mappings' = mappings
    BY DEF postLines
<1> HIDE DEF call
<1>4. \A c \in {call.code, call.other} : c \in Codes /\ Exists(c)
    BY <1>1, <1>2 DEF CallFits, coaAccountForPostingTx
<1>5. TablesFit'
    BY <1>2, <1>3, <1>4 DEF OneByOne, TablesFit, Exists
<1>6. MappingsArePosting'
    BY <1>2, <1>3 DEF OneByOne, MappingsArePosting, coaAccountForPostingTx, Exists
<1>7. QED
    BY <1>2, <1>3, <1>5, <1>6, Ended DEF KeepsMeaning

LEMMA ImportRowStep ==
    ASSUME ChartInvariant, scenario' = scenario, NEW k \in Calls, importRow(k)
    PROVE  ChartInvariant' /\ KeepsMeaning
<1> DEFINE call == calls[k]
           item == Head(call.rest)
           next == [call EXCEPT !.rest = Tail(@)]
           more == [call EXCEPT !.rest = Tail(@), !.written = @ \cup {item}]
<1>1. call.op = "import" /\ call.op # "none"
    BY DEF importRow, At
<1>2. /\ scenario = "together" => used = {}
      /\ scenario # "together" => OneByOne /\ k = First /\ CallFits(call)
    BY <1>1, OnlyCall
<1>3. KeepsMeaning
    BY DEF importRow, Rollback, tables, KeepsMeaning
<1>4. CASE Rollback(k)
    BY <1>3, <1>4, RolledBack
<1>5. CASE Serve(k, next) /\ UNCHANGED tables
    <2>1. next.op = call.op /\ next.written = call.written
        OBVIOUS
    <2> HIDE DEF next, call
    <2>2. scenario # "together" => CallFits(next)
        BY <1>1, <1>2, <2>1 DEF CallFits
    <2>3. scenario # "alone"
        BY <1>1, <1>2 DEF OneByOne, call
    <2>4. QED
        BY <1>1, <1>2, <1>3, <1>5, <2>1, <2>2, <2>3, Served
<1>6. CASE Serve(k, more) /\ UNCHANGED tables /\ MayImport(item)
    <2>1. more.op = call.op /\ \A row \in more.written : row = item \/ row \in call.written
        OBVIOUS
    <2> HIDE DEF more, call, item
    <2>2. ASSUME scenario # "together" PROVE CallFits(more)
        <3>1. item.code \in used => Means(accounts[item.code]) = Means(Row(item))
            BY <1>2, <1>6, <2>2 DEF MayImport, OneByOne, TablesFit
        <3>2. \A row \in call.written : row.code \in used => Means(accounts[row.code]) = Means(Row(row))
            BY <1>1, <1>2, <2>2 DEF CallFits
        <3>3. QED
            BY <1>1, <2>1, <3>1, <3>2 DEF CallFits
    <2>3. scenario # "alone"
        BY <1>1, <1>2 DEF OneByOne, call
    <2>4. QED
        BY <1>1, <1>2, <1>3, <1>6, <2>1, <2>2, <2>3, Served
<1>7. QED
    BY <1>4, <1>5, <1>6 DEF importRow

LEMMA ActivateStep ==
    ASSUME ChartInvariant, scenario' = scenario, NEW k \in Calls, activateCOADraft(k)
    PROVE  ChartInvariant' /\ KeepsMeaning
<1> DEFINE call == calls[k]
           chosen(c) == CHOOSE row \in call.written : row.code = c
<1>1. call.op = "import" /\ call.op # "none"
    BY DEF activateCOADraft, At
<1>2. scenario # "together" => OneByOne /\ CallFits(call)
    BY <1>1, OnlyCall
<1>3. scenario # "alone"
    BY <1>1, <1>2 DEF OneByOne
<1>4. /\ Serve(k, IdleCall) /\ UNCHANGED <<mappings, used>>
      /\ accounts' = [c \in Codes |-> IF c \in Written(k) THEN Row(chosen(c)) ELSE accounts[c]]
    BY DEF activateCOADraft
<1>5. ASSUME NEW c \in Written(k) PROVE chosen(c) \in call.written /\ chosen(c).code = c
    BY <1>5 DEF Written
<1> HIDE DEF call, chosen
<1>6. \A row : Row(row) = Row(Row(row)) /\ Row(row) # NoAccount
    BY DEF Row, NoAccount
<1>7. ASSUME scenario # "together", NEW c \in used PROVE Means(accounts'[c]) = Means(accounts[c])
    <2>1. c \in Codes
        BY <1>2, <1>7 DEF OneByOne, TablesFit
    <2>2. \A row \in call.written : row.code \in used => Means(accounts[row.code]) = Means(Row(row))
        BY <1>1, <1>2, <1>7 DEF CallFits
    <2>3. QED
        BY <1>4, <1>5, <2>1, <2>2
<1>8. /\ accounts' = [c \in Codes |-> accounts'[c]]
      /\ \A c \in Codes : \/ accounts'[c] = accounts[c]
                          \/ accounts'[c] = Row(accounts'[c]) /\ accounts'[c] # NoAccount
    BY <1>4, <1>6
<1>9. QED
    BY <1>1, <1>3, <1>4, <1>7, <1>8, ChartWritten, OnlyCall DEF call, KeepsMeaning

-----------------------------------------------------------------------------
(***************************************************************************)
(* Every step, and the specification.                                      *)
(***************************************************************************)
LEMMA BreakStep ==
    ASSUME ChartInvariant, scenario' = scenario, NEW k \in Calls, breakDeadlock(k)
    PROVE  ChartInvariant' /\ KeepsMeaning
BY RolledBack DEF breakDeadlock, Rollback, tables, KeepsMeaning

LEMMA ProceedStep ==
    ASSUME ChartInvariant, scenario' = scenario, NEW k \in Calls, Proceed(k)
    PROVE  ChartInvariant' /\ KeepsMeaning
<1>1. CASE readForUpdate(k) \/ readForDeactivation(k)
    <2>1. accounts' = accounts
        BY <1>1 DEF readForUpdate, readForDeactivation, Decide, Rollback, tables
    <2>2. QED
        BY <1>1, <2>1, Reads DEF KeepsMeaning
<1>2. QED
    BY <1>1, InsertStep, UpdateStep, DeactivateStep, MappingStep, PostStep, ImportRowStep,
       ActivateStep DEF Proceed

LEMMA BegunStep ==
    ASSUME ChartInvariant, scenario' = scenario, NEW k \in Calls, NEW ops, Begun(k, ops),
           scenario = "alone" => "import" \notin ops,
           scenario = "together" => "post" \notin ops
    PROVE  ChartInvariant' /\ KeepsMeaning
<1>1. accounts' = accounts
    BY DEF Begun, Begin, beginInsert, lockAccount, checkMapping, checkLines, beginImport, tables
<1>2. ChartInvariant'
    BY Begins DEF Begun
<1>3. QED
    BY <1>1, <1>2 DEF KeepsMeaning

\* A workbook is uploaded.
LEMMA UploadStep ==
    ASSUME ChartInvariant, scenario' = scenario, NEW draft, importCOADraft(draft)
    PROVE  ChartInvariant' /\ KeepsMeaning
<1>1. /\ accounts' = accounts /\ mappings' = mappings /\ used' = used /\ calls' = calls
    BY DEF importCOADraft
<1>2. ASSUME NEW call PROVE CallFits(call)' <=> CallFits(call)
    BY <1>1 DEF CallFits, Exists, coaAccountForPostingTx, HasActiveMapping
<1>3. OneByOne => OneByOne'
    BY <1>1, <1>2 DEF OneByOne, TablesFit, MappingsArePosting, Exists, coaAccountForPostingTx
<1>4. QED
    BY <1>1, <1>3 DEF ChartInvariant, KeepsMeaning

LEMMA ChartStep ==
    ASSUME ChartInvariant, ChartInstanceNext
    PROVE  ChartInvariant' /\ KeepsMeaning
<1>1. scenario' = scenario
    BY DEF ChartInstanceNext
<1>2. CASE \E k \in Calls : Proceed(k) \/ breakDeadlock(k)
    BY <1>1, <1>2, ProceedStep, BreakStep
<1>3. ASSUME scenario = "alone", NEW k \in Calls, Begun(k, Operations)
      PROVE  ChartInvariant' /\ KeepsMeaning
    BY <1>1, <1>3, BegunStep, ChartAssumption
<1>4. ASSUME scenario = "import", NEW k \in Calls, Begun(k, {"update", "post", "import"})
      PROVE  ChartInvariant' /\ KeepsMeaning
    BY <1>1, <1>4, BegunStep
<1>5. ASSUME scenario = "together", NEW k \in Calls, Begun(k, {"update", "deactivate", "import"})
      PROVE  ChartInvariant' /\ KeepsMeaning
    BY <1>1, <1>5, BegunStep
<1>6. ASSUME NEW draft \in Drafts, importCOADraft(draft)
      PROVE  ChartInvariant' /\ KeepsMeaning
    BY <1>1, <1>6, UploadStep
<1>7. QED
    BY <1>2, <1>3, <1>4, <1>5, <1>6 DEF ChartInstanceNext

LEMMA ChartStutters ==
    ASSUME ChartInvariant, UNCHANGED <<chartVars, scenario>>
    PROVE  ChartInvariant'
<1>1. /\ accounts' = accounts /\ mappings' = mappings /\ used' = used /\ calls' = calls
      /\ scenario' = scenario
    BY DEF chartVars
<1>2. ASSUME NEW call PROVE CallFits(call)' <=> CallFits(call)
    BY <1>1 DEF CallFits, Exists, coaAccountForPostingTx, HasActiveMapping
<1>3. OneByOne => OneByOne'
    BY <1>1, <1>2 DEF OneByOne, TablesFit, MappingsArePosting, Exists, coaAccountForPostingTx
<1>4. QED
    BY <1>1, <1>3 DEF ChartInvariant

LEMMA ChartBegins == ChartInstanceInit => ChartInvariant
<1> SUFFICES ASSUME ChartInstanceInit PROVE ChartInvariant
    OBVIOUS
<1>1. /\ used = {} /\ calls = [k \in Calls |-> IdleCall] /\ mappings = [r \in Mappings |-> NoMapping]
    BY DEF ChartInstanceInit, ChartInit
<1>2. /\ accounts = [c \in Codes |-> accounts[c]]
      /\ \A c \in Codes : Exists(c) => accounts[c] = Row(accounts[c])
    BY DEF ChartInstanceInit, ChartInit, Exists, Row
<1>3. TablesFit /\ MappingsArePosting
    BY <1>1, <1>2 DEF TablesFit, MappingsArePosting, NoMapping
<1>4. IdleCall.op = "none" /\ CallFits(IdleCall)
    BY IdleFields DEF CallFits
<1>5. QED
    BY <1>1, <1>3, <1>4 DEF ChartInvariant, OneByOne

(***************************************************************************)
(* What a call has found, and has not yet written, is still so, as long as *)
(* calls come one by one (accounting.go:210-395).                          *)
(***************************************************************************)
THEOREM ChartInvariantHolds == ChartInstance => []ChartInvariant
BY ChartBegins, ChartStep, ChartStutters, PTL DEF ChartInstance

(***************************************************************************)
(* An active mapping names an account that can be posted to, for any chart *)
(* and any mappings, if no workbook is activated.                          *)
(***************************************************************************)
THEOREM MappingsArePostingHolds == ChartInstance => []MappingsArePosting
<1>1. ChartInvariant => MappingsArePosting
    BY DEF ChartInvariant, OneByOne, MappingsArePosting
<1>2. QED
    BY <1>1, ChartInvariantHolds, PTL

(***************************************************************************)
(* An account with journal lines keeps its parent and stays a leaf or a    *)
(* group, whatever is changed or activated.                                *)
(***************************************************************************)
THEOREM UsedAccountsKeepMeaningHolds == ChartInstance => UsedAccountsKeepMeaning
<1>1. ASSUME ChartInvariant, [ChartInstanceNext]_<<chartVars, scenario>>
      PROVE  [KeepsMeaning]_chartVars
    BY <1>1, ChartStep DEF chartVars
<1>2. QED
    BY <1>1, ChartInvariantHolds, PTL DEF ChartInstance, UsedAccountsKeepMeaning, KeepsMeaning

-----------------------------------------------------------------------------
(***************************************************************************)
(* The super admin: servers that start together.  Each counts, looks for   *)
(* the address and saves in three steps; what another server did between   *)
(* them is met by the index on the active super admin alone.               *)
(***************************************************************************)
AdminsFit ==
    /\ admins \in [Emails -> [state    : {"missing", "active", "inactive"},
                              password : {"", "own", "bootstrap"}]]
    /\ \A e, f \in ActiveAdmins : e = f

\* The databases of earlier releases have one active super admin at most.
LEMMA AdminsFitFirst == StartupInit => AdminsFit
<1> SUFFICES ASSUME StartupInit PROVE AdminsFit
    OBVIOUS
<1>1. origin \in Databases /\ admins = origin.admins
    BY DEF StartupInit
<1>2. admins \in [Emails -> [state    : {"missing", "active", "inactive"},
                             password : {"", "own", "bootstrap"}]]
    BY <1>1, StartupAssumption
<1>3. Cardinality(ActiveAdmins) <= 1
    BY <1>1, StartupAssumption DEF ActiveAdmins
<1>4. IsFiniteSet(ActiveAdmins)
    BY StartupAssumption, FS_Subset DEF ActiveAdmins
<1>5. ASSUME NEW e \in ActiveAdmins, NEW f \in ActiveAdmins PROVE e = f
    <2>1. SUFFICES ASSUME e # f PROVE FALSE
        OBVIOUS
    <2>2. IsFiniteSet({e, f}) /\ Cardinality({e, f}) <= Cardinality(ActiveAdmins)
        BY <1>4, FS_Subset
    <2>3. IsFiniteSet({f}) /\ Cardinality({f}) = 1
        BY FS_Singleton
    <2>4. Cardinality({f} \cup {e}) = Cardinality({f}) + 1
        BY <2>1, <2>3, FS_AddElement
    <2>5. {f} \cup {e} = {e, f}
        OBVIOUS
    <2>6. Cardinality(ActiveAdmins) \in Nat
        BY <1>4, FS_CardinalityType
    <2> QED
        BY <1>3, <2>2, <2>3, <2>4, <2>5, <2>6
<1> QED
    BY <1>2, <1>5 DEF AdminsFit

\* Only saving and the change of a password write super admins.
LEMMA AdminsFitKept == AdminsFit /\ [StartupNext]_vars => AdminsFit'
<1> SUFFICES ASSUME AdminsFit, [StartupNext]_vars PROVE AdminsFit'
    OBVIOUS
<1>1. CASE UNCHANGED admins
    BY <1>1 DEF AdminsFit, ActiveAdmins
<1>2. ASSUME NEW p \in Servers, saveSuperAdmin(p) PROVE AdminsFit'
    <2> DEFINE email == servers[p].env.email
    <2>1. CASE MaySave(email, servers[p].found)
        <3>1. admins' = [admins EXCEPT ![email] = [state |-> "active", password |-> "bootstrap"]]
            BY <1>2, <2>1 DEF saveSuperAdmin
        <3>2. ActiveAdmins \subseteq {email}
            BY <2>1 DEF MaySave
        <3>3. \A e \in Emails : e # email => admins'[e] = admins[e]
            BY <3>1 DEF AdminsFit
        <3>4. ActiveAdmins' \subseteq {email}
            BY <3>2, <3>3 DEF ActiveAdmins
        <3> QED
            BY <3>1, <3>4 DEF AdminsFit
    <2>2. CASE ~MaySave(email, servers[p].found)
        BY <1>1, <1>2, <2>2 DEF saveSuperAdmin
    <2> QED
        BY <2>1, <2>2
<1>3. ASSUME NEW email \in Emails, changeOwnPassword(email) PROVE AdminsFit'
    <2>1. admins' = [admins EXCEPT ![email].password = "own"]
        BY <1>3 DEF changeOwnPassword
    <2>2. \A e \in Emails : admins'[e].state = admins[e].state
        BY <2>1 DEF AdminsFit
    <2>3. ActiveAdmins' = ActiveAdmins
        BY <2>2 DEF ActiveAdmins
    <2> QED
        BY <2>1, <2>3 DEF AdminsFit
<1>4. ASSUME NEW p \in Servers, Step(p) PROVE AdminsFit'
    <2>1. CASE saveSuperAdmin(p)
        BY <1>2, <2>1
    <2>2. CASE \E env \in Environments : start(p, env)
        BY <1>1, <2>2 DEF start
    <2>3. CASE \E officer \in Officers : resolveLegacyOfficer(p, officer)
        BY <1>1, <2>3 DEF resolveLegacyOfficer
    <2>4. CASE mappingsStored(p)
        BY <1>1, <2>4 DEF mappingsStored
    <2>5. CASE storeLegacyOfficerMapping(p)
        BY <1>1, <2>5 DEF storeLegacyOfficerMapping
    <2>6. CASE checkMigration(p)
        BY <1>1, <2>6 DEF checkMigration
    <2>7. CASE applyMigration(p)
        BY <1>1, <2>7 DEF applyMigration
    <2>8. CASE convertLegacyOfficer(p)
        BY <1>1, <2>8 DEF convertLegacyOfficer
    <2>9. CASE commitConversion(p)
        BY <1>1, <2>9 DEF commitConversion
    <2>10. CASE countSuperAdmins(p)
        BY <1>1, <2>10 DEF countSuperAdmins
    <2>11. CASE findSuperAdmin(p)
        BY <1>1, <2>11 DEF findSuperAdmin
    <2> QED
        BY <1>4, <2>1, <2>2, <2>3, <2>4, <2>5, <2>6, <2>7, <2>8, <2>9, <2>10, <2>11 DEF Step
<1>5. CASE \E p \in Servers : crash(p)
    BY <1>1, <1>5 DEF crash
<1>6. CASE \E officer \in Officers : renameLogin(officer)
    BY <1>1, <1>6 DEF renameLogin
<1>7. CASE UNCHANGED vars
    BY <1>1, <1>7 DEF vars
<1> QED
    BY <1>3, <1>4, <1>5, <1>6, <1>7 DEF StartupNext

\* Two users of whom each is the other are one at most.
LEMMA OneAtMost ==
    ASSUME NEW S, \A e, f \in S : e = f
    PROVE  Cardinality(S) <= 1
<1>1. CASE S = {}
    BY <1>1, FS_EmptySet
<1>2. CASE S # {}
    <2>1. PICK e \in S : TRUE
        BY <1>2
    <2>2. S = {e}
        BY <2>1
    <2> QED
        BY <2>2, FS_Singleton
<1> QED
    BY <1>1, <1>2

\* However many servers start at once, with whatever addresses and wherever they
\* crash, there is one active super admin at most (auth.go, EnsureSuperAdminUser).
THEOREM OneSuperAdminHolds == StartupSpec => []OneSuperAdmin
<1>1. AdminsFit => OneSuperAdmin
    BY OneAtMost DEF AdminsFit, OneSuperAdmin
<1> QED
    BY <1>1, AdminsFitFirst, AdminsFitKept, PTL DEF StartupSpec

=============================================================================
