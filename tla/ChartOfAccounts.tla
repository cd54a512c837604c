-------------------------- MODULE ChartOfAccounts --------------------------
(***************************************************************************)
(* The chart of accounts: internal/app/accounting.go (accounts and the     *)
(* account a journal line may be posted to), accounting_mappings.go (rules *)
(* that name an account), coa_import.go (a draft read from a workbook and  *)
(* activated later) and the trial balance of accounting_reports.go.        *)
(*                                                                         *)
(* Accounts are changed without Server.financialMu, in transactions under  *)
(* READ COMMITTED: a change locks its own row and reads the others as they *)
(* are committed.  Mappings and journals are written under financialMu.  A *)
(* transaction is split where another may come between: after the lock,    *)
(* after the reads, and before the commit.  Names, types and normal        *)
(* balances of accounts are left out: a change of those is guarded like a  *)
(* change of the parent.                                                   *)
(***************************************************************************)
EXTENDS Integers, Sequences, FiniteSets, FiniteSetsExt, SequencesExt

CONSTANTS
    Codes,
    NoCode,
    SystemCodes,    \* the accounts CASH and BANK, which nobody edits
    Mappings,
    Calls,
    Operations,     \* which of the handlers are called
    Drafts,         \* drafts of an import: sets of rows, each with a code
    MaxJournals     \* bound on the journals posted

ASSUME ChartAssumption ==
    /\ NoCode \notin Codes
    /\ SystemCodes \subseteq Codes
    /\ Operations \subseteq {"insert", "update", "deactivate", "map", "post"}

Rows == [parent : Codes \cup {NoCode}, group : BOOLEAN, active : BOOLEAN]
NoAccount == [parent |-> NoCode, group |-> FALSE, active |-> FALSE, missing |-> TRUE]
NoMapping == [code |-> NoCode, active |-> FALSE]

VARIABLES
    accounts,       \* coa_accounts by code
    mappings,       \* accounting_mappings by rule
    balances,       \* debits less credits of the posted lines of an account
    used,           \* accounts with a journal line
    drafts,         \* coa_import_batches.status of the drafts
    calls

chartVars == <<accounts, mappings, balances, used, drafts, calls>>

\* A call: its handler, where it stands, the account it changes, the row it
\* found and the row it wants; the account a journal credits; the rows of an
\* import that are still to be written, and those written and not committed.
IdleCall == [op |-> "none", at |-> "idle", code |-> NoCode, found |-> NoAccount,
             want |-> NoAccount, other |-> NoCode, rule |-> "none",
             draft |-> {}, rest |-> << >>, written |-> {}]

Exists(c) == accounts[c] # NoAccount

ChartTypeOK ==
    /\ accounts \in [Codes -> Rows \cup {NoAccount}]
    /\ \A r \in Mappings : mappings[r].code \in Codes \cup {NoCode}
    /\ balances \in [Codes -> -MaxJournals .. MaxJournals]
    /\ used \subseteq {c \in Codes : Exists(c)}
    /\ drafts \in [Drafts -> {"none", "draft", "activated"}]
    /\ \A k \in Calls : calls[k].at \in {"idle", "reading", "writing", "importing"}

-----------------------------------------------------------------------------
(***************************************************************************)
(* Reads.                                                                  *)
(***************************************************************************)
\* The accounts above c, itself included, as far as the rows lead.
Above(c) ==
    LET up[S \in SUBSET Codes] ==
            LET next == S \cup ({accounts[d].parent : d \in S} \ {NoCode})
            IN IF next = S THEN S ELSE up[next]
    IN IF c = NoCode THEN {} ELSE up[{c}]

\* Every account above is an active group, the walk does not come back to the
\* account, nor to one it has visited.
validateCOAAccountParentTx(code, parent) ==
    /\ code \notin Above(parent)
    /\ \A c \in Above(parent) :
        /\ Exists(c) /\ accounts[c].group /\ accounts[c].active
        /\ c \notin Above(accounts[c].parent)

coaAccountForPostingTx(c) == Exists(c) /\ accounts[c].active /\ ~accounts[c].group

HasActiveChildren(c) == \E d \in Codes : accounts[d].parent = c /\ accounts[d].active

HasActiveMapping(c) == \E r \in Mappings : mappings[r] = [code |-> c, active |-> TRUE]

Means(row) == <<row.parent, row.group>>

\* Mutant: accounts in use may change their meaning.
MayUpdate_Used(c, found, want) ==
    /\ validateCOAAccountParentTx(c, want.parent)
    /\ HasActiveChildren(c) => want.group /\ want.active
    /\ (Means(found) # Means(want) \/ (found.active /\ ~want.active)) => ~HasActiveMapping(c)

\* What updateCOAAccountByID checks after it has locked the row.
MayUpdate(c, found, want) ==
    /\ validateCOAAccountParentTx(c, want.parent)
    /\ HasActiveChildren(c) => want.group /\ want.active
    /\ (c \in used) => Means(found) = Means(want)
    /\ (Means(found) # Means(want) \/ (found.active /\ ~want.active)) => ~HasActiveMapping(c)

\* Mutant: an account is switched off although a mapping names it.
MayDeactivate_Mapped(c) == ~HasActiveChildren(c)

MayDeactivate(c) == ~HasActiveChildren(c) /\ ~HasActiveMapping(c)

(***************************************************************************)
(* Locks.  A change holds its row FOR UPDATE; an import holds the rows it  *)
(* has written and, through the foreign key, keeps their parents in place. *)
(***************************************************************************)
HeldForUpdate(k) == IF calls[k].op \in {"update", "deactivate"} THEN {calls[k].code} ELSE {}
Written(k) == {row.code : row \in calls[k].written}
Parents(k) == {row.parent : row \in calls[k].written} \ {NoCode}

\* k may lock the row of c.
MayLock(k, c) ==
    \A j \in Calls \ {k} : c \notin HeldForUpdate(j) \cup Written(j) \cup Parents(j)

\* k may write the row of c, or make c a parent.
MayWrite(k, c) == \A j \in Calls \ {k} : c \notin HeldForUpdate(j) \cup Written(j)
MayRefer(k, c) == \A j \in Calls \ {k} : c \notin HeldForUpdate(j)

Serve(k, call) == calls' = [calls EXCEPT ![k] = call]
tables == <<accounts, mappings, balances, used, drafts>>

\* Mutant: a refused call keeps its transaction.
Rollback_Open(k) == Serve(k, [calls[k] EXCEPT !.at = "refused"]) /\ UNCHANGED tables

Rollback(k) == Serve(k, IdleCall) /\ UNCHANGED tables

At(k, op, at) == calls[k].op = op /\ calls[k].at = at

\* Where a handler stands after its reads: it writes, or it is refused.
Decide(k, allowed) ==
    IF allowed THEN Serve(k, [calls[k] EXCEPT !.at = "writing"]) /\ UNCHANGED tables
    ELSE Rollback(k)

UnderFinancialMu(k) == calls[k].op \in {"map", "post"}
FinancialMuFree == \A k \in Calls : ~UnderFinancialMu(k)

-----------------------------------------------------------------------------
(***************************************************************************)
(* insertCOAAccount.  A code or a parent that another call has just        *)
(* written is waited for; the code is unique.                              *)
(***************************************************************************)
beginInsert(k, c, want) ==
    /\ "insert" \in Operations /\ calls[k] = IdleCall
    /\ want.parent # c
    /\ validateCOAAccountParentTx(c, want.parent)
    /\ Serve(k, [IdleCall EXCEPT !.op = "insert", !.at = "writing", !.code = c, !.want = want])
    /\ UNCHANGED tables

insertCOAAccount(k) ==
    LET call == calls[k] IN
    /\ At(k, "insert", "writing")
    /\ MayWrite(k, call.code)
    /\ call.want.parent # NoCode => MayRefer(k, call.want.parent)
    /\ \/ Exists(call.code) /\ Rollback(k)
       \/ /\ ~Exists(call.code)
          /\ accounts' = [accounts EXCEPT ![call.code] = call.want]
          /\ Serve(k, IdleCall)
          /\ UNCHANGED <<mappings, balances, used, drafts>>

(***************************************************************************)
(* updateCOAAccountByID and deactivateCOAAccountByID.                      *)
(***************************************************************************)
lockAccount(k, op, c, want) ==
    /\ op \in Operations /\ calls[k] = IdleCall
    /\ Exists(c) /\ c \notin SystemCodes
    /\ MayLock(k, c)
    /\ Serve(k, [IdleCall EXCEPT !.op = op, !.at = "reading", !.code = c,
                                 !.found = accounts[c], !.want = want])
    /\ UNCHANGED tables

readForUpdate(k) ==
    /\ At(k, "update", "reading")
    /\ Decide(k, MayUpdate(calls[k].code, calls[k].found, calls[k].want))

\* An inactive account is left as it is.
readForDeactivation(k) ==
    /\ At(k, "deactivate", "reading")
    /\ Decide(k, calls[k].found.active /\ MayDeactivate(calls[k].code))

\* The UPDATE asks for the parent's row when the parent changes, and commits.
updateCOAAccountByID(k) ==
    LET call == calls[k] IN
    /\ At(k, "update", "writing")
    /\ call.want.parent \notin {NoCode, call.found.parent} => MayRefer(k, call.want.parent)
    /\ accounts' = [accounts EXCEPT ![call.code] = call.want]
    /\ Serve(k, IdleCall)
    /\ UNCHANGED <<mappings, balances, used, drafts>>

deactivateCOAAccountByID(k) ==
    /\ At(k, "deactivate", "writing")
    /\ accounts' = [accounts EXCEPT ![calls[k].code].active = FALSE]
    /\ Serve(k, IdleCall)
    /\ UNCHANGED <<mappings, balances, used, drafts>>

-----------------------------------------------------------------------------
(***************************************************************************)
(* saveAccountingMapping: the account is checked, then the rule written.   *)
(***************************************************************************)
checkMapping(k, r, c, active) ==
    /\ "map" \in Operations /\ calls[k] = IdleCall /\ FinancialMuFree
    /\ coaAccountForPostingTx(c)
    /\ Serve(k, [IdleCall EXCEPT !.op = "map", !.at = "writing", !.rule = r,
                                 !.code = c, !.want.active = active])
    /\ UNCHANGED tables

saveAccountingMapping(k) ==
    /\ At(k, "map", "writing")
    /\ mappings' = [mappings EXCEPT
           ![calls[k].rule] = [code |-> calls[k].code, active |-> calls[k].want.active]]
    /\ Serve(k, IdleCall)
    /\ UNCHANGED <<accounts, balances, used, drafts>>

(***************************************************************************)
(* createFinancialJournalTx with two lines of the amount one: the accounts *)
(* are checked, then the lines written.                                    *)
(***************************************************************************)
checkLines(k, debit, credit) ==
    /\ "post" \in Operations /\ calls[k] = IdleCall /\ FinancialMuFree
    /\ coaAccountForPostingTx(debit) /\ coaAccountForPostingTx(credit)
    /\ debit # credit
    /\ balances[debit] < MaxJournals /\ balances[credit] > -MaxJournals
    /\ Serve(k, [IdleCall EXCEPT !.op = "post", !.at = "writing", !.code = debit, !.other = credit])
    /\ UNCHANGED tables

postLines(k) ==
    LET debit == calls[k].code  credit == calls[k].other IN
    /\ At(k, "post", "writing")
    /\ balances' = [balances EXCEPT ![debit] = @ + 1, ![credit] = @ - 1]
    /\ used' = used \cup {debit, credit}
    /\ Serve(k, IdleCall)
    /\ UNCHANGED <<accounts, mappings, drafts>>

-----------------------------------------------------------------------------
(***************************************************************************)
(* The import.                                                             *)
(***************************************************************************)
\* The order activateCOADraft finds: passes over what remains, each taking the
\* rows whose parent is there; a draft that cannot be ordered is refused.
ParentsFirst(draft) ==
    LET step(done, row) ==
            IF row.parent = NoCode \/ row.parent \in {d.code : d \in ToSet(done)}
            THEN Append(done, row) ELSE done
        pass(done) ==
            LET left == {row \in draft : row \notin ToSet(done)} IN
            FoldLeft(step, done, SetToSeq(left))
    IN FoldLeft(LAMBDA done, i : pass(done), << >>, [i \in 1 .. Cardinality(draft) |-> i])

\* parseCOAImportRows: each code once, no account its own parent, and every
\* parent in the same file.
ValidDraft(draft) ==
    /\ \A row \in draft : row.parent # row.code
    /\ \A row, other \in draft : row.code = other.code => row = other
    /\ \A row \in draft : row.parent \in {d.code : d \in draft} \cup {NoCode}

\* importCOADraft stores the rows of a workbook, the invalid ones too.
importCOADraft(draft) ==
    /\ drafts[draft] = "none"
    /\ drafts' = [drafts EXCEPT ![draft] = "draft"]
    /\ UNCHANGED <<accounts, mappings, balances, used, calls>>

\* activateCOADraft: the status, the validity, the accounts of the system and
\* the order are read first.
beginImport(k, draft) ==
    /\ calls[k] = IdleCall
    /\ drafts[draft] = "draft" /\ ValidDraft(draft)
    /\ \A c \in SystemCodes : coaAccountForPostingTx(c)
    /\ Len(ParentsFirst(draft)) = Cardinality(draft)
    /\ Serve(k, [IdleCall EXCEPT !.op = "import", !.at = "importing", !.draft = draft,
                                 !.rest = ParentsFirst(draft)])
    /\ UNCHANGED tables

Row(item) == [parent |-> item.parent, group |-> item.group, active |-> item.active]

MayImport(item) == (item.code \in used /\ Exists(item.code)) => Means(accounts[item.code]) = Means(Row(item))

\* One row: accounts of the system are skipped, a change of the meaning of an
\* account in use ends the import, and the others are written.
importRow(k) ==
    LET item == Head(calls[k].rest) IN
    /\ At(k, "import", "importing") /\ calls[k].rest # << >>
    /\ \/ /\ item.code \in SystemCodes
          /\ Serve(k, [calls[k] EXCEPT !.rest = Tail(@)])
          /\ UNCHANGED tables
       \/ /\ item.code \notin SystemCodes /\ ~MayImport(item)
          /\ Rollback(k)
       \/ /\ item.code \notin SystemCodes /\ MayImport(item)
          /\ MayWrite(k, item.code)
          /\ item.parent # NoCode => MayRefer(k, item.parent)
          /\ Serve(k, [calls[k] EXCEPT !.rest = Tail(@), !.written = @ \cup {item}])
          /\ UNCHANGED tables

activateCOADraft(k) ==
    LET rows == calls[k].written
        now(c) == IF c \in Written(k) THEN Row(CHOOSE row \in rows : row.code = c) ELSE accounts[c]
    IN
    /\ At(k, "import", "importing") /\ calls[k].rest = << >>
    /\ accounts' = [c \in Codes |-> now(c)]
    /\ drafts' = [drafts EXCEPT ![calls[k].draft] = "activated"]
    /\ Serve(k, IdleCall)
    /\ UNCHANGED <<mappings, balances, used>>

-----------------------------------------------------------------------------
\* The rows k asks for next.
Wants(k) ==
    LET call == calls[k] IN
    IF At(k, "update", "writing") THEN {call.want.parent}
    ELSE IF At(k, "insert", "writing") THEN {call.code, call.want.parent}
    ELSE IF At(k, "import", "importing") /\ call.rest # << >>
         THEN {Head(call.rest).code, Head(call.rest).parent}
    ELSE {}

\* The database ends one of two transactions that wait for each other.
breakDeadlock(k) ==
    /\ \E j \in Calls \ {k} :
        /\ Wants(k) \cap (HeldForUpdate(j) \cup Written(j)) # {}
        /\ Wants(j) \cap (HeldForUpdate(k) \cup Written(k)) # {}
    /\ Rollback(k)

Proceed(k) ==
    \/ insertCOAAccount(k)
    \/ readForUpdate(k) \/ updateCOAAccountByID(k)
    \/ readForDeactivation(k) \/ deactivateCOAAccountByID(k)
    \/ saveAccountingMapping(k) \/ postLines(k)
    \/ importRow(k) \/ activateCOADraft(k)

Begin(k) ==
    \/ \E c \in Codes, want \in Rows :
        \/ beginInsert(k, c, want)
        \/ lockAccount(k, "update", c, want)
    \/ \E c \in Codes : lockAccount(k, "deactivate", c, NoAccount)
    \/ \E r \in Mappings, c \in Codes, active \in BOOLEAN : checkMapping(k, r, c, active)
    \/ \E debit, credit \in Codes : checkLines(k, debit, credit)
    \/ \E draft \in Drafts : beginImport(k, draft)

\* The accounts of the system stand, and a small chart may be there already.
ChartInit ==
    /\ \E groups \in SUBSET (Codes \ SystemCodes) :
        accounts = [c \in Codes |->
            IF c \in SystemCodes THEN [parent |-> NoCode, group |-> FALSE, active |-> TRUE]
            ELSE IF c \in groups THEN [parent |-> NoCode, group |-> TRUE, active |-> TRUE]
            ELSE NoAccount]
    /\ mappings = [r \in Mappings |-> NoMapping]
    /\ balances = [c \in Codes |-> 0]
    /\ used = {}
    /\ drafts = [d \in Drafts |-> "none"]
    /\ calls = [k \in Calls |-> IdleCall]

ChartNext ==
    \/ \E k \in Calls : Begin(k) \/ Proceed(k) \/ breakDeadlock(k)
    \/ \E draft \in Drafts : importCOADraft(draft)

ChartSpec == ChartInit /\ [][ChartNext]_chartVars

\* A call that can go on does, and the database sees a deadlock; a row that
\* others lock again and again is granted in the end, because waiting calls
\* queue for it.
FairChartSpec ==
    /\ ChartSpec
    /\ \A k \in Calls : SF_chartVars(Proceed(k)) /\ WF_chartVars(breakDeadlock(k))
=============================================================================
