------------------------------- MODULE Store -------------------------------
(***************************************************************************)
(* The local store (utils/store.ts) under the servers that open it: the    *)
(* steps of initStore, each an autocommit of its own, and the labels,      *)
(* findings and measurements kept in it.                                   *)
(*                                                                         *)
(* A server may die between any two steps, may start on what another build *)
(* left, and may run beside another on the same file.  What was promised   *)
(* to a caller is kept in `kept` and `gone`.                               *)
(***************************************************************************)
EXTENDS Integers, FiniteSets

CONSTANTS
  Server,     \* processes that may open the store
  Versions,   \* the values of FANOUT_METHOD_VERSION of the builds there are
  Owner,      \* chain-native addresses
  Finding,    \* rows of findings
  MaxStarts   \* bound: how often a process is started

ASSUME StoreAssumption ==
  /\ Versions \subseteq Nat \ {0}
  /\ MaxStarts \in Nat

VARIABLES
  labelKeys,    \* "none", "bare" or "account": what the table labels is keyed by
  labels,       \* its rows
  findings,     \* how the addresses of each finding are written
  columns,      \* columns added to findings and results after their first release
  fanoutTable,  \* "none", "narrow" or "wide": the columns of the table fanout
  fanout,       \* the method that measured an owner's row, 0 for no row
  stamp,        \* PRAGMA user_version
  step,         \* where each server is
  build,        \* the method version it was built with
  session,      \* sessionLabels
  starts,       \* how many servers were started
  kept,         \* accounts a caller was told are saved
  gone,         \* accounts a caller was told are removed
  missed,       \* those of them a server without a store said so of, with a row there
  raced,        \* labels were filed again after another server had filed them
  outdated      \* a build measured, or stamped, where a newer one had renewed the cache

file == <<labelKeys, labels, findings, columns, fanoutTable, fanout, stamp>>
servers == <<step, build, session, starts>>
promises == <<kept, gone, missed>>
mishaps == <<raced, outdated>>
storeVars == <<file, servers, promises, mishaps>>

Chain == {"mainnet", "testnet"}

\* The chain of a row written before labels were chain-qualified.
Bare == "bare"
LegacyChain == "mainnet"

Account == [chain : Chain, owner : Owner]
Qualified(row) == IF row.chain = Bare THEN [row EXCEPT !.chain = LegacyChain] ELSE row

AddedColumns == {"evidence_tier", "digests", "shown"}

Opening ==
  {"tables", "inspect", "refile", "qualify", "columns", "cache", "drop",
   "recreate", "stamp", "shown", "seed"}

\* `db` is set, or null for as long as the process lives.
Open(p) == step[p] = "open"
Alive(p) == step[p] \in {"open", "off"}

\* What a first start may find: no file, the store of a build before labels
\* were qualified, or one of a known method, perhaps with the columns an
\* interrupted migration left behind.
FreshFile ==
  /\ labelKeys = "none" /\ labels = {}
  /\ findings = [f \in Finding |-> "absent"]
  /\ columns = {}
  /\ fanoutTable = "none"
  /\ fanout = [a \in Owner |-> 0]
  /\ stamp = 0

LegacyFile ==
  /\ labelKeys = "bare"
  /\ labels \in SUBSET [chain : {Bare}, owner : Owner]
  /\ findings \in [Finding -> {"absent", "bare"}]
  /\ columns = {}
  /\ fanoutTable = "narrow"
  /\ fanout \in [Owner -> Versions]
  /\ stamp = 0

StampedFile ==
  /\ labelKeys = "account" /\ labels = {}
  /\ findings = [f \in Finding |-> "absent"]
  /\ columns = AddedColumns
  /\ stamp \in Versions
  /\ fanoutTable \in {"narrow", "wide"}
  /\ fanout \in [Owner -> {0, stamp}]

StoreInit ==
  /\ FreshFile \/ LegacyFile \/ StampedFile
  /\ step = [p \in Server |-> "down"]
  /\ build \in [Server -> Versions]
  /\ session = [p \in Server |-> {}]
  /\ starts = 0
  /\ kept = { Qualified(row) : row \in labels }
  /\ gone = {}
  /\ missed = {}
  /\ raced = FALSE
  /\ outdated = FALSE

-----------------------------------------------------------------------------
(* initStore, step by step. *)

Goto(p, next) == step' = [step EXCEPT ![p] = next]

At(p, here) == step[p] = here

Start(p, version) ==
  /\ At(p, "down")
  /\ starts < MaxStarts
  /\ Goto(p, "tables")
  /\ build' = [build EXCEPT ![p] = version]
  /\ starts' = starts + 1
  /\ UNCHANGED <<file, session, promises, mishaps>>

\* exec(SCHEMA): CREATE TABLE IF NOT EXISTS for each table.
CreateTables(p) ==
  /\ At(p, "tables")
  /\ Goto(p, "inspect")
  /\ labelKeys' = IF labelKeys = "none" THEN "account" ELSE labelKeys
  /\ columns' = IF labelKeys = "none" THEN AddedColumns ELSE columns
  /\ fanoutTable' = IF fanoutTable = "none" THEN "wide" ELSE fanoutTable
  /\ UNCHANGED <<labels, findings, fanout, stamp, build, session, starts, promises,
                 mishaps>>

\* migrateLabelsToAccounts, the column list it goes by.
InspectLabels(p) ==
  /\ At(p, "inspect")
  /\ Goto(p, IF labelKeys = "bare" THEN "refile" ELSE "qualify")
  /\ UNCHANGED <<file, build, session, starts, promises, mishaps>>

\* Without the transaction: the process dies between the rename and the insert.
RefileUnprotected(p) ==
  /\ At(p, "refile")
  /\ \E whole \in BOOLEAN :
       /\ labels' = IF whole THEN { Qualified(row) : row \in labels } ELSE {}
       /\ Goto(p, IF whole THEN "qualify" ELSE "down")
  /\ labelKeys' = "account"
  /\ UNCHANGED <<findings, columns, fanoutTable, fanout, stamp, build, session, starts,
                 promises, mishaps>>

\* The transaction of migrateLabelsToAccounts: every row of the table it finds
\* goes to the legacy chain, unless two of them would then be one.  It runs
\* SCHEMA, which creates whatever table another server has just dropped.
RefileLabels(p) ==
  /\ At(p, "refile")
  /\ \A r, s \in labels : r.owner = s.owner => r = s
  /\ labelKeys' = "account"
  /\ labels' = { [chain |-> LegacyChain, owner |-> row.owner] : row \in labels }
  /\ fanoutTable' = IF fanoutTable = "none" THEN "wide" ELSE fanoutTable
  /\ raced' = (raced \/ labelKeys = "account")
  /\ Goto(p, "qualify")
  /\ UNCHANGED <<findings, columns, fanout, stamp, build, session, starts, promises,
                 outdated>>

\* One UPDATE of migrateFindingAddresses, over any entry.
QualifyAny(p) ==
  /\ At(p, "qualify")
  /\ \/ \E f \in Finding :
          /\ findings[f] \in {"bare", "account"}
          /\ findings' = [findings EXCEPT ![f] = IF @ = "bare" THEN "account" ELSE "twice"]
          /\ UNCHANGED step
     \/ /\ \A f \in Finding : findings[f] # "bare"
        /\ Goto(p, "columns")
        /\ UNCHANGED findings
  /\ UNCHANGED <<labelKeys, labels, columns, fanoutTable, fanout, stamp, build, session,
                 starts, promises, mishaps>>

\* migrateFindingAddresses: an UPDATE for each row with a bare entry.
QualifyFindings(p) ==
  /\ At(p, "qualify")
  /\ \/ \E f \in Finding :
          /\ findings[f] = "bare"
          /\ findings' = [findings EXCEPT ![f] = "account"]
          /\ UNCHANGED step
     \/ /\ \A f \in Finding : findings[f] # "bare"
        /\ Goto(p, "columns")
        /\ UNCHANGED findings
  /\ UNCHANGED <<labelKeys, labels, columns, fanoutTable, fanout, stamp, build, session,
                 starts, promises, mishaps>>

\* migrateFindingColumns and migrateResultColumns: an ALTER TABLE for each
\* column that the column list lacks.
AddColumns(p) ==
  /\ \/ /\ At(p, "columns") /\ "evidence_tier" \notin columns
        /\ columns' = columns \cup {"evidence_tier"}
        /\ UNCHANGED step
     \/ /\ At(p, "columns") /\ "evidence_tier" \in columns
        /\ columns' = columns \cup {"digests"}
        /\ Goto(p, "cache")
     \/ /\ At(p, "shown")
        /\ columns' = columns \cup {"shown"}
        /\ Goto(p, "seed")
  /\ UNCHANGED <<labelKeys, labels, findings, fanoutTable, fanout, stamp, build, session,
                 starts, promises, mishaps>>

\* The early return that ends the migrations after it as well.
InspectCacheLast(p) ==
  /\ At(p, "cache")
  /\ Goto(p, IF stamp >= build[p] /\ fanoutTable = "wide" THEN "seed" ELSE "drop")
  /\ UNCHANGED <<file, build, session, starts, promises, mishaps>>

\* migrateFanoutCache, its test.
InspectCache(p) ==
  /\ At(p, "cache")
  /\ Goto(p, IF stamp >= build[p] /\ fanoutTable = "wide" THEN "shown" ELSE "drop")
  /\ UNCHANGED <<file, build, session, starts, promises, mishaps>>

\* The stamp set before the rows it disowns are dropped.
StampFirst(p) ==
  /\ \/ /\ At(p, "drop")
        /\ stamp' = build[p]
        /\ Goto(p, "recreate")
        /\ UNCHANGED <<fanoutTable, fanout>>
     \/ /\ At(p, "recreate")
        /\ fanoutTable' = "wide"
        /\ fanout' = [a \in Owner |-> 0]
        /\ Goto(p, "shown")
        /\ UNCHANGED stamp
  /\ UNCHANGED <<labelKeys, labels, findings, columns, build, session, starts, promises,
                 mishaps>>

\* migrateFanoutCache, its three statements.
RenewCache(p) ==
  /\ \/ /\ At(p, "drop")
        /\ fanoutTable' = "none"
        /\ fanout' = [a \in Owner |-> 0]
        /\ Goto(p, "recreate")
        /\ UNCHANGED <<stamp, outdated>>
     \/ /\ At(p, "recreate")
        /\ fanoutTable' = "wide"
        /\ Goto(p, "stamp")
        /\ UNCHANGED <<fanout, stamp, outdated>>
     \/ /\ At(p, "stamp")
        /\ stamp' = build[p]
        /\ outdated' = (outdated \/ build[p] < stamp)
        /\ Goto(p, "shown")
        /\ UNCHANGED <<fanoutTable, fanout>>
  /\ UNCHANGED <<labelKeys, labels, findings, columns, build, session, starts, promises,
                 raced>>

\* INDEXES, and the labels read into sessionLabels as labels.ts is loaded.
Seed(p) ==
  /\ At(p, "seed")
  /\ Goto(p, "open")
  /\ session' = [session EXCEPT ![p] = labels]
  /\ UNCHANGED <<file, build, starts, promises, mishaps>>

\* A step that throws: the store is off for as long as the process lives.
OpenFails(p) ==
  /\ step[p] \in Opening
  /\ Goto(p, "off")
  /\ UNCHANGED <<file, build, session, starts, promises, mishaps>>

\* The process ends, between any two commits.
Exit(p) ==
  /\ ~At(p, "down")
  /\ Goto(p, "down")
  /\ session' = [session EXCEPT ![p] = {}]
  /\ UNCHANGED <<file, build, starts, promises, mishaps>>

-----------------------------------------------------------------------------
(* manage_labels. *)

\* An account has a row, under the old key or the new.
Stored(account) == \E row \in labels : Qualified(row) = account

\* addSessionLabel, and what the caller is told of the row.
AddLabel(p, account, written) ==
  /\ Alive(p)
  /\ written => Open(p)
  /\ session' = [session EXCEPT ![p] = @ \cup {account}]
  /\ labels' = IF written THEN labels \cup {account} ELSE labels
  /\ kept' = IF written THEN kept \cup {account} ELSE kept
  /\ gone' = IF written THEN gone \ {account} ELSE gone
  /\ missed' = IF written THEN missed \ {account} ELSE missed
  /\ UNCHANGED <<labelKeys, findings, columns, fanoutTable, fanout, stamp, step, build,
                 starts, mishaps>>

\* A caller is told "Session label removed." (`told`).  A server without a store
\* may say so of an account whose row is still there.
Answer(p, account, told, deleted) ==
  /\ gone' = IF told THEN gone \cup {account} ELSE gone
  /\ missed' = CASE deleted -> missed \ {account}
                 [] ~deleted /\ told /\ ~Open(p) /\ Stored(account) -> missed \cup {account}
                 [] OTHER -> missed

\* removeSessionLabel: the row, if the store is on and the delete does not fail,
\* and the label of the session.
Delete(p, account, deleted) ==
  /\ Alive(p)
  /\ deleted => Open(p)
  /\ labels' = IF deleted THEN labels \ {account} ELSE labels
  /\ session' = [session EXCEPT ![p] = @ \ {account}]
  /\ kept' = IF deleted THEN kept \ {account} ELSE kept
  /\ UNCHANGED <<labelKeys, findings, columns, fanoutTable, fanout, stamp, step, build,
                 starts, mishaps>>

\* The reply that goes by the session alone.
RemoveUnasked(p, account, deleted) ==
  /\ Delete(p, account, deleted)
  /\ Answer(p, account, account \in session[p], deleted)

\* The action remove: the reply warns only where a store is on and did not delete.
RemoveLabel(p, account, deleted) ==
  /\ Delete(p, account, deleted)
  /\ Answer(p, account, account \in session[p] /\ (deleted \/ ~Open(p)), deleted)

-----------------------------------------------------------------------------
(* save_finding, delete_finding, measureFanout. *)

SaveFinding(p, f) ==
  /\ Open(p)
  /\ {"evidence_tier", "digests"} \subseteq columns
  /\ findings[f] = "absent"
  /\ findings' = [findings EXCEPT ![f] = "account"]
  /\ UNCHANGED <<labelKeys, labels, columns, fanoutTable, fanout, stamp, servers, promises,
                 mishaps>>

DeleteFinding(p, f) ==
  /\ Open(p)
  /\ findings[f] # "absent"
  /\ findings' = [findings EXCEPT ![f] = "absent"]
  /\ UNCHANGED <<labelKeys, labels, columns, fanoutTable, fanout, stamp, servers, promises,
                 mishaps>>

\* A build newer than `version` is renewing the cache.
Renewing(q, version) == step[q] \in {"recreate", "stamp"} /\ build[q] > version

\* saveFanout after a scan that no cached row answered.
Measure(p, a) ==
  /\ Open(p)
  /\ fanoutTable = "wide"
  /\ fanout' = [fanout EXCEPT ![a] = build[p]]
  /\ outdated' = (outdated \/ build[p] < stamp \/ \E q \in Server : Renewing(q, build[p]))
  /\ UNCHANGED <<labelKeys, labels, findings, columns, fanoutTable, stamp, servers, promises, raced>>

-----------------------------------------------------------------------------
Opens(p) ==
  \/ CreateTables(p) \/ InspectLabels(p) \/ RefileLabels(p) \/ QualifyFindings(p)
  \/ AddColumns(p) \/ InspectCache(p) \/ RenewCache(p) \/ Seed(p) \/ OpenFails(p)

Calls(p) ==
  \/ \E account \in Account, done \in BOOLEAN :
       AddLabel(p, account, done) \/ RemoveLabel(p, account, done)
  \/ \E f \in Finding : SaveFinding(p, f) \/ DeleteFinding(p, f)
  \/ \E a \in Owner : Measure(p, a)

StoreNext ==
  \E p \in Server :
    \/ \E version \in Versions : Start(p, version)
    \/ Opens(p)
    \/ Calls(p)
    \/ Exit(p)

StoreSpec == StoreInit /\ [][StoreNext]_storeVars

-----------------------------------------------------------------------------
(* Properties. *)

\* The rows are what the schema says, a table is keyed in one way, and a server
\* holds labels only of accounts.
StoreTypeOK ==
  /\ labelKeys \in {"none", "bare", "account"}
  /\ labels \subseteq [chain : IF labelKeys = "bare" THEN {Bare} ELSE Chain, owner : Owner]
  /\ findings \in [Finding -> {"absent", "bare", "account"}]
  /\ columns \subseteq AddedColumns
  /\ fanoutTable \in {"none", "narrow", "wide"}
  /\ fanout \in [Owner -> Versions \cup {0}]
  /\ stamp \in Versions \cup {0}
  /\ step \in [Server -> Opening \cup {"down", "open", "off"}]
  /\ build \in [Server -> Versions]
  /\ session \in [Server -> SUBSET Account]
  /\ starts \in 0..MaxStarts
  /\ kept \subseteq Account
  /\ gone \subseteq Account
  /\ missed \subseteq Account
  /\ raced \in BOOLEAN
  /\ outdated \in BOOLEAN

\* A label its caller was told is saved, or that an older build had stored, is
\* in the store under its account until a caller removes it, through crashes
\* inside the migration and servers that open the store at once
\* (migrateLabelsToAccounts, "Atomic, because the rows being moved are the ones
\* this migration exists to preserve").
LabelsKept == ~raced => \A account \in kept : Stored(account)

\* A label its caller was told is removed does not come back at a later start
\* (removeSessionLabel's persisted_removal), unless all that told so of it was a
\* server without a store.
RemovedIsGone ==
  ~raced => \A row \in labels : Qualified(row) \in gone => Qualified(row) \in missed

\* A server finds in the cache only rows of its own method, whatever step of
\* migrateFanoutCache another server died in; builds that are older than the
\* stamp, and measure all the same, are the exception.
FanoutOwn ==
  ~outdated =>
    \A p \in Server : Open(p) /\ build[p] >= stamp =>
      \A a \in Owner : fanout[a] \in {0, build[p]}

\* A store that is open has the shape the code reads and writes: labels by
\* account, every column, and each finding's addresses qualified, once.
OpenIsCurrent ==
  (\E p \in Server : Open(p)) =>
    /\ labelKeys = "account"
    /\ columns = AddedColumns
    /\ \A f \in Finding : findings[f] \in {"absent", "account"}
=============================================================================
