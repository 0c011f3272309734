---------------------------- MODULE StoreProofs ----------------------------
(***************************************************************************)
(* Proofs about Store: for any number of servers, builds, owners, findings *)
(* and starts.                                                             *)
(*                                                                         *)
(* The invariant says, for each place a server may be in, what the steps   *)
(* it has behind it guarantee of the file, whoever else works on it.       *)
(***************************************************************************)
EXTENDS Store, TLAPS

\* Past the creation of the tables, past the labels, past the findings, past
\* the columns, and past everything.
Tabled == (Opening \ {"tables"}) \cup {"open"}
Labelled == Tabled \ {"inspect", "refile"}
Qualifying == Labelled \ {"qualify"}
Columned == Qualifying \ {"columns"}
Current == {"seed", "open"}

\* A server that has checked or renewed the cache, and one that is renewing it.
Cached == {"shown", "seed", "open"}
Clearing == {"recreate", "stamp"}

Passed ==
  \A p \in Server :
    /\ step[p] \in Tabled => labelKeys # "none"
    /\ step[p] \in Labelled => labelKeys = "account"
    /\ step[p] \in Qualifying => \A f \in Finding : findings[f] # "bare"
    /\ step[p] \in Columned => {"evidence_tier", "digests"} \subseteq columns
    /\ step[p] \in Current => "shown" \in columns

CacheOwn ==
  ~outdated =>
    /\ \A p \in Server : step[p] \in Cached => build[p] <= stamp
    /\ \A a \in Owner : stamp # 0 => fanout[a] \in {0, stamp}
    /\ \A p \in Server, a \in Owner :
         step[p] \in Clearing /\ fanout[a] # 0 => fanout[a] = stamp /\ build[p] <= stamp

StoreInv == StoreTypeOK /\ Passed

USE DEF At, Goto

LEMMA OpenPassed ==
  ASSUME Passed, NEW p \in Server, Open(p)
  PROVE  /\ labelKeys = "account"
         /\ \A f \in Finding : findings[f] # "bare"
         /\ {"evidence_tier", "digests", "shown"} \subseteq columns
<1>1. /\ "open" \in Labelled /\ "open" \in Qualifying
      /\ "open" \in Columned /\ "open" \in Current
  BY DEF Tabled, Labelled, Qualifying, Columned, Current, Opening
<1>2. step[p] = "open"
  BY DEF Open, At
<1>3. step[p] \in Labelled /\ step[p] \in Qualifying /\ step[p] \in Columned /\ step[p] \in Current
  BY <1>1, <1>2
<1>4. {"evidence_tier", "digests"} \subseteq columns /\ "shown" \in columns
  BY <1>3 DEF Passed
<1> QED
  BY <1>3, <1>4 DEF Passed

-----------------------------------------------------------------------------
(* Types. *)

LEMMA InitTyped == StoreInit => StoreTypeOK
<1> SUFFICES ASSUME StoreInit PROVE StoreTypeOK
  OBVIOUS
<1> USE StoreAssumption DEF StoreInit, StoreTypeOK, Account, Chain, AddedColumns, Opening,
    Bare, LegacyChain
<1>1. kept \subseteq Account
  <2>1. labels \subseteq [chain : {Bare}, owner : Owner]
    BY DEF FreshFile, LegacyFile, StampedFile
  <2> QED
    BY <2>1 DEF Qualified
<1>2. labels \subseteq [chain : IF labelKeys = "bare" THEN {Bare} ELSE Chain, owner : Owner]
  BY DEF FreshFile, LegacyFile, StampedFile
<1>3. /\ labelKeys \in {"none", "bare", "account"}
      /\ findings \in [Finding -> {"absent", "bare", "account"}]
      /\ columns \subseteq AddedColumns
      /\ fanoutTable \in {"none", "narrow", "wide"}
      /\ fanout \in [Owner -> Versions \cup {0}]
      /\ stamp \in Versions \cup {0}
  BY DEF FreshFile, LegacyFile, StampedFile
<1>4. /\ step \in [Server -> Opening \cup {"down", "open", "off"}]
      /\ session \in [Server -> SUBSET Account]
      /\ build \in [Server -> Versions] /\ starts \in 0..MaxStarts
      /\ gone \subseteq Account /\ missed \subseteq Account
  OBVIOUS
<1>5. raced \in BOOLEAN /\ outdated \in BOOLEAN
  OBVIOUS
<1> QED
  BY <1>1, <1>2, <1>3, <1>4, <1>5 DEF StoreTypeOK

LEMMA StepTyped == StoreTypeOK /\ Passed /\ [StoreNext]_storeVars => StoreTypeOK'
<1> SUFFICES ASSUME StoreTypeOK, Passed, [StoreNext]_storeVars PROVE StoreTypeOK'
  OBVIOUS
<1> USE StoreAssumption
<1> DEFINE Places == Opening \cup {"down", "open", "off"}
<1>0. {"down", "tables", "inspect", "refile", "qualify", "columns", "cache", "drop",
       "recreate", "stamp", "shown", "seed", "open", "off"} \subseteq Places
  BY DEF Opening
<1> HIDE DEF Places
<1> USE DEF StoreTypeOK, file, servers, promises, mishaps
<1>1. ASSUME NEW p \in Server, NEW version \in Versions, Start(p, version)
      PROVE  StoreTypeOK'
  BY <1>1, <1>0 DEF Start, Places
<1>2. ASSUME NEW p \in Server, CreateTables(p)
      PROVE  StoreTypeOK'
  BY <1>2, <1>0 DEF CreateTables, Places
<1>3. ASSUME NEW p \in Server, InspectLabels(p)
      PROVE  StoreTypeOK'
  BY <1>3, <1>0 DEF InspectLabels, Places
<1>4. ASSUME NEW p \in Server, RefileLabels(p)
      PROVE  StoreTypeOK'
  BY <1>4, <1>0 DEF RefileLabels, Places, Chain, LegacyChain
<1>5. ASSUME NEW p \in Server, QualifyFindings(p)
      PROVE  StoreTypeOK'
  BY <1>5, <1>0 DEF QualifyFindings, Places
<1>6. ASSUME NEW p \in Server, AddColumns(p)
      PROVE  StoreTypeOK'
  <2>1. columns' \subseteq AddedColumns
    BY <1>6 DEF AddColumns, AddedColumns
  <2>2. step' \in [Server -> Opening \cup {"down", "open", "off"}]
    BY <1>6, <1>0 DEF AddColumns, Places
  <2> QED
    BY <1>6, <2>1, <2>2 DEF AddColumns
<1>7. ASSUME NEW p \in Server, InspectCache(p)
      PROVE  StoreTypeOK'
  BY <1>7, <1>0 DEF InspectCache, Places
<1>8. ASSUME NEW p \in Server, RenewCache(p)
      PROVE  StoreTypeOK'
  BY <1>8, <1>0 DEF RenewCache, Places
<1>9. ASSUME NEW p \in Server, Seed(p)
      PROVE  StoreTypeOK'
  <2>1. labelKeys = "account"
    BY <1>9 DEF Seed, Passed, Labelled, Tabled, Opening
  <2>2. labels \subseteq Account
    BY <2>1 DEF Account
  <2> QED
    BY <1>9, <1>0, <2>2 DEF Seed, Places
<1>10. ASSUME NEW p \in Server, OpenFails(p) \/ Exit(p)
      PROVE  StoreTypeOK'
  BY <1>10, <1>0 DEF OpenFails, Exit, Places
<1>11. ASSUME NEW p \in Server, NEW account \in Account, NEW done \in BOOLEAN,
              AddLabel(p, account, done) \/ RemoveLabel(p, account, done)
      PROVE  StoreTypeOK'
  <2>1. done => labelKeys = "account"
    <3>1. done => Open(p)
      BY <1>11 DEF AddLabel, RemoveLabel, Delete
    <3> QED
      BY <3>1, OpenPassed
  <2>2. CASE AddLabel(p, account, done)
    BY <2>1, <2>2 DEF AddLabel, Account
  <2>3. CASE RemoveLabel(p, account, done)
    BY <2>3 DEF RemoveLabel, Delete, Answer
  <2> QED
    BY <1>11, <2>2, <2>3
<1>12. ASSUME NEW p \in Server, NEW f \in Finding, SaveFinding(p, f) \/ DeleteFinding(p, f)
      PROVE  StoreTypeOK'
  BY <1>12 DEF SaveFinding, DeleteFinding
<1>13. ASSUME NEW p \in Server, NEW a \in Owner, Measure(p, a)
      PROVE  StoreTypeOK'
  BY <1>13 DEF Measure
<1>14. CASE UNCHANGED storeVars
  BY <1>14 DEF storeVars
<1> QED
  BY <1>1, <1>2, <1>3, <1>4, <1>5, <1>6, <1>7, <1>8, <1>9, <1>10, <1>11, <1>12, <1>13, <1>14
     DEF StoreNext, Opens, Calls

-----------------------------------------------------------------------------
(* The shape of an open store. *)

LEMMA InitPassed == StoreInit => Passed
  BY DEF StoreInit, Passed, Tabled, Labelled, Qualifying, Columned, Current, Opening

LEMMA StepPassed == StoreTypeOK /\ Passed /\ [StoreNext]_storeVars => Passed'
<1> SUFFICES ASSUME StoreTypeOK, Passed, [StoreNext]_storeVars PROVE Passed'
  OBVIOUS
<1> USE DEF Passed, Tabled, Labelled, Qualifying, Columned, Current, Opening, file, servers,
        promises, mishaps
<1>0. step \in [Server -> Opening \cup {"down", "open", "off"}]
  BY DEF StoreTypeOK
<1>1. ASSUME NEW p \in Server, NEW version \in Versions, Start(p, version)
      PROVE  Passed'
  BY <1>0, <1>1 DEF Start
<1>2. ASSUME NEW p \in Server, CreateTables(p)
      PROVE  Passed'
  BY <1>0, <1>2 DEF CreateTables, AddedColumns
<1>3. ASSUME NEW p \in Server, InspectLabels(p)
      PROVE  Passed'
  BY <1>0, <1>3 DEF InspectLabels, StoreTypeOK
<1>4. ASSUME NEW p \in Server, RefileLabels(p)
      PROVE  Passed'
  BY <1>0, <1>4 DEF RefileLabels
<1>5. ASSUME NEW p \in Server, QualifyFindings(p)
      PROVE  Passed'
  <2>1. \A f \in Finding : findings'[f] = "bare" => findings[f] = "bare"
    BY <1>5 DEF QualifyFindings, StoreTypeOK
  <2> QED
    BY <1>0, <1>5, <2>1 DEF QualifyFindings
<1>6. ASSUME NEW p \in Server, AddColumns(p)
      PROVE  Passed'
  BY <1>0, <1>6 DEF AddColumns
<1>7. ASSUME NEW p \in Server, InspectCache(p)
      PROVE  Passed'
  BY <1>0, <1>7 DEF InspectCache
<1>8. ASSUME NEW p \in Server, RenewCache(p)
      PROVE  Passed'
  BY <1>0, <1>8 DEF RenewCache
<1>9. ASSUME NEW p \in Server, Seed(p)
      PROVE  Passed'
  BY <1>0, <1>9 DEF Seed
<1>10. ASSUME NEW p \in Server, OpenFails(p) \/ Exit(p)
      PROVE  Passed'
  BY <1>0, <1>10 DEF OpenFails, Exit
<1>11. ASSUME NEW p \in Server, NEW account \in Account, NEW done \in BOOLEAN,
              AddLabel(p, account, done) \/ RemoveLabel(p, account, done)
      PROVE  Passed'
  BY <1>11 DEF AddLabel, RemoveLabel, Delete
<1>12. ASSUME NEW p \in Server, NEW f \in Finding, SaveFinding(p, f) \/ DeleteFinding(p, f)
      PROVE  Passed'
  <2>1. \A g \in Finding : findings'[g] = "bare" => findings[g] = "bare"
    BY <1>12 DEF SaveFinding, DeleteFinding, StoreTypeOK
  <2> QED
    BY <1>12, <2>1 DEF SaveFinding, DeleteFinding
<1>13. ASSUME NEW p \in Server, NEW a \in Owner, Measure(p, a)
      PROVE  Passed'
  BY <1>13 DEF Measure
<1>14. CASE UNCHANGED storeVars
  BY <1>14 DEF storeVars
<1> QED
  BY <1>1, <1>2, <1>3, <1>4, <1>5, <1>6, <1>7, <1>8, <1>9, <1>10, <1>11, <1>12, <1>13, <1>14
     DEF StoreNext, Opens, Calls

LEMMA StoreInvariant == StoreSpec => []StoreInv
<1>1. StoreInit => StoreInv
  BY InitTyped, InitPassed DEF StoreInv
<1>2. StoreInv /\ [StoreNext]_storeVars => StoreInv'
  BY StepTyped, StepPassed DEF StoreInv
<1> QED
  BY <1>1, <1>2, PTL DEF StoreSpec

\* The store keeps its types, and a table of labels is keyed in one way, through
\* any number of servers that open it and die while they do (initStore).
THEOREM StoreTypeCorrect == StoreSpec => []StoreTypeOK
<1>1. StoreInv => StoreTypeOK
  BY DEF StoreInv
<1> QED
  BY <1>1, StoreInvariant, PTL

\* Whatever step of initStore other servers are at, or died in, a store that is
\* open has every column, its labels by account and its findings qualified once.
THEOREM StoreOpenIsCurrent == StoreSpec => []OpenIsCurrent
<1>1. StoreInv => OpenIsCurrent
  <2> SUFFICES ASSUME StoreInv, NEW p \in Server, Open(p)
               PROVE  /\ labelKeys = "account"
                      /\ columns = AddedColumns
                      /\ \A f \in Finding : findings[f] \in {"absent", "account"}
    BY DEF OpenIsCurrent
  <2>1. /\ labelKeys = "account"
        /\ \A f \in Finding : findings[f] # "bare"
        /\ {"evidence_tier", "digests", "shown"} \subseteq columns
    BY OpenPassed DEF StoreInv
  <2>2. columns = AddedColumns
    BY <2>1 DEF AddedColumns, StoreInv, StoreTypeOK
  <2>3. \A f \in Finding : findings[f] \in {"absent", "account"}
    BY <2>1 DEF StoreInv, StoreTypeOK
  <2> QED
    BY <2>1, <2>2, <2>3
<1> QED
  BY <1>1, StoreInvariant, PTL

-----------------------------------------------------------------------------
(* The labels. *)

Labels == LabelsKept /\ RemovedIsGone

\* An address under a chain of its own is written as it is.
LEMMA AccountIsQualified == \A account \in Account : Qualified(account) = account
  BY DEF Account, Qualified, Chain, Bare

\* No server refiles a table that is keyed by account, unless one had raced it.
LEMMA RefileKeepsLabels ==
  ASSUME StoreTypeOK, Passed, NEW p \in Server, RefileLabels(p)
  PROVE  raced' \/ { Qualified(row) : row \in labels' } = { Qualified(row) : row \in labels }
<1> SUFFICES ASSUME labelKeys # "account"
             PROVE  { Qualified(row) : row \in labels' } = { Qualified(row) : row \in labels }
  BY DEF RefileLabels
<1>1. labelKeys = "bare"
  BY DEF RefileLabels, Passed, Tabled, Opening, StoreTypeOK
<1>2. labels \subseteq [chain : {Bare}, owner : Owner]
  BY <1>1 DEF StoreTypeOK
<1>3. \A row \in labels : Qualified(row) = [chain |-> LegacyChain, owner |-> row.owner]
  BY <1>2 DEF Qualified
<1>4. \A o : Qualified([chain |-> LegacyChain, owner |-> o]) = [chain |-> LegacyChain, owner |-> o]
  BY DEF Qualified, LegacyChain, Bare
<1>5. labels' = { [chain |-> LegacyChain, owner |-> row.owner] : row \in labels }
  BY DEF RefileLabels
<1> QED
  BY <1>3, <1>4, <1>5

LEMMA StepLabels ==
  StoreTypeOK /\ Passed /\ Labels /\ [StoreNext]_storeVars => Labels'
<1> SUFFICES ASSUME StoreTypeOK, Passed, Labels, [StoreNext]_storeVars PROVE Labels'
  OBVIOUS
<1> USE DEF Labels, LabelsKept, RemovedIsGone, file, servers, promises, mishaps
<1>1. ASSUME NEW p \in Server, RefileLabels(p)
      PROVE  Labels'
  <2>1. raced => raced'
    BY <1>1 DEF RefileLabels
  <2>2. kept' = kept /\ gone' = gone /\ missed' = missed
    BY <1>1 DEF RefileLabels
  <2> QED
    BY <1>1, <2>1, <2>2, RefileKeepsLabels DEF Stored
<1>2. ASSUME NEW p \in Server, NEW account \in Account, NEW done \in BOOLEAN,
             AddLabel(p, account, done)
      PROVE  Labels'
  BY <1>2, AccountIsQualified DEF AddLabel, Stored
<1>3. ASSUME NEW p \in Server, NEW account \in Account, NEW done \in BOOLEAN,
             RemoveLabel(p, account, done)
      PROVE  Labels'
  <2>1. CASE done
    <3>1. labelKeys = "account"
      <4>1. Open(p)
        BY <1>3, <2>1 DEF RemoveLabel, Delete
      <4> QED
        BY <4>1, OpenPassed
    <3>2. \A row \in labels : Qualified(row) = row
      BY <3>1, AccountIsQualified DEF StoreTypeOK, Account
    <3> QED
      BY <1>3, <2>1, <3>2 DEF RemoveLabel, Delete, Answer, Stored
  <2>2. CASE ~done
    BY <1>3, <2>2 DEF RemoveLabel, Delete, Answer, Stored
  <2> QED
    BY <2>1, <2>2
<1>4. CASE UNCHANGED <<labels, kept, gone, missed, raced>>
  BY <1>4 DEF Stored
<1>5. ASSUME NEW p \in Server, NEW version \in Versions, Start(p, version)
      PROVE  UNCHANGED <<labels, kept, gone, missed, raced>>
  BY <1>5 DEF Start
<1>6. ASSUME NEW p \in Server,
             \/ CreateTables(p) \/ InspectLabels(p) \/ QualifyFindings(p) \/ AddColumns(p)
             \/ InspectCache(p) \/ RenewCache(p) \/ Seed(p) \/ OpenFails(p) \/ Exit(p)
      PROVE  UNCHANGED <<labels, kept, gone, missed, raced>>
  BY <1>6 DEF CreateTables, InspectLabels, QualifyFindings, AddColumns, InspectCache,
              RenewCache, Seed, OpenFails, Exit
<1>7. ASSUME NEW p \in Server, NEW f \in Finding, SaveFinding(p, f) \/ DeleteFinding(p, f)
      PROVE  UNCHANGED <<labels, kept, gone, missed, raced>>
  BY <1>7 DEF SaveFinding, DeleteFinding
<1>8. ASSUME NEW p \in Server, NEW a \in Owner, Measure(p, a)
      PROVE  UNCHANGED <<labels, kept, gone, missed, raced>>
  BY <1>8 DEF Measure
<1>9. CASE UNCHANGED storeVars
  BY <1>4, <1>9 DEF storeVars
<1> QED
  BY <1>1, <1>2, <1>3, <1>4, <1>5, <1>6, <1>7, <1>8, <1>9 DEF StoreNext, Opens, Calls

LEMMA LabelsInvariant == StoreSpec => []Labels
<1>1. StoreInit => Labels
  BY DEF StoreInit, Labels, LabelsKept, RemovedIsGone, Stored
<1>2. StoreInv /\ Labels /\ [StoreNext]_storeVars => Labels'
  BY StepLabels DEF StoreInv
<1> QED
  BY <1>1, <1>2, StoreInvariant, PTL DEF StoreSpec

\* A label that was stored, or that a caller was told is saved, stays until a
\* caller removes it, whatever build stored it and wherever servers die while
\* they refile it, as long as no two of them refile it.
THEOREM StoreKeepsLabels == StoreSpec => []LabelsKept
<1>1. Labels => LabelsKept
  BY DEF Labels
<1> QED
  BY <1>1, LabelsInvariant, PTL

\* A label a caller was told is removed is in the store no more, at any later
\* start, unless a server without a store told so while the row was there, or two
\* servers refiled the labels at once.
THEOREM StoreForgetsLabels == StoreSpec => []RemovedIsGone
<1>1. Labels => RemovedIsGone
  BY DEF Labels
<1> QED
  BY <1>1, LabelsInvariant, PTL

-----------------------------------------------------------------------------
(* The cache of measurements. *)

LEMMA VersionIsPositive ==
  ASSUME NEW v \in Versions
  PROVE  v \in Nat /\ v # 0
<1>1. Versions \subseteq Nat \ {0}
  BY StoreAssumption
<1>2. v \in Nat \ {0}
  BY <1>1
<1> QED
  BY <1>2

LEMMA StepCacheOwn ==
  StoreTypeOK /\ CacheOwn /\ [StoreNext]_storeVars => CacheOwn'
<1> SUFFICES ASSUME StoreTypeOK, CacheOwn, [StoreNext]_storeVars PROVE CacheOwn'
  OBVIOUS
<1> USE StoreAssumption DEF file, servers, promises, mishaps
<1>0. /\ step \in [Server -> Opening \cup {"down", "open", "off"}]
      /\ build \in [Server -> Versions]
      /\ fanout \in [Owner -> Versions \cup {0}]
      /\ stamp \in Versions \cup {0}
  BY DEF StoreTypeOK
<1>00. stamp \in Nat /\ \A q \in Server : build[q] \in Nat /\ build[q] # 0
  <2>1. \A q \in Server : build[q] \in Versions
    BY <1>0
  <2>2. \A q \in Server : build[q] \in Nat /\ build[q] # 0
    BY <2>1, VersionIsPositive
  <2>3. stamp \in Nat
    <3>1. CASE stamp = 0
      BY <3>1
    <3>2. CASE stamp \in Versions
      BY <3>2, VersionIsPositive
    <3> QED
      BY <1>0, <3>1, <3>2
  <2> QED
    BY <2>2, <2>3
<1>000. outdated \in BOOLEAN
  BY DEF StoreTypeOK
<1> USE DEF CacheOwn, Cached, Clearing
<1>1. ASSUME NEW p \in Server, NEW version \in Versions, Start(p, version)
      PROVE  CacheOwn'
  BY <1>0, <1>1 DEF Start
<1>2. ASSUME NEW p \in Server, CreateTables(p) \/ InspectLabels(p) \/ RefileLabels(p)
      PROVE  CacheOwn'
  BY <1>0, <1>2 DEF CreateTables, InspectLabels, RefileLabels
<1>3. ASSUME NEW p \in Server, QualifyFindings(p) \/ AddColumns(p)
      PROVE  CacheOwn'
  BY <1>0, <1>3 DEF QualifyFindings, AddColumns
<1>4. ASSUME NEW p \in Server, InspectCache(p)
      PROVE  CacheOwn'
  BY <1>0, <1>00, <1>4 DEF InspectCache
<1>5. ASSUME NEW p \in Server, RenewCache(p)
      PROVE  CacheOwn'
  <2>1. CASE step[p] = "drop"
    BY <1>0, <1>5, <2>1 DEF RenewCache
  <2>2. CASE step[p] = "recreate"
    BY <1>0, <1>5, <2>2 DEF RenewCache
  <2>3. CASE step[p] = "stamp"
    <3> SUFFICES ASSUME ~outdated' PROVE CacheOwn'
      OBVIOUS
    <3>0. stamp' = build[p] /\ outdated' = (outdated \/ build[p] < stamp)
      BY <1>5, <2>3 DEF RenewCache
    <3>00. ~outdated /\ ~(build[p] < stamp)
      BY <1>000, <3>0, Zenon
    <3>1. ~outdated /\ stamp' = build[p] /\ stamp <= build[p] /\ build[p] \in Nat
      BY <1>00, <3>0, <3>00
    <3>2. \A a \in Owner : fanout[a] # 0 => fanout[a] = stamp'
      <4>1. \A a \in Owner : fanout[a] # 0 => fanout[a] = stamp /\ build[p] <= stamp
        BY <2>3, <3>00
      <4> QED
        BY <1>00, <3>1, <4>1
    <3>3. fanout' = fanout /\ build' = build /\ step' = [step EXCEPT ![p] = "shown"]
      BY <1>5, <2>3 DEF RenewCache
    <3>4. \A q \in Server : step'[q] \in Cached => build'[q] <= stamp'
      <4>1. \A q \in Server : q # p /\ step'[q] \in Cached => step[q] \in Cached
        BY <1>0, <3>3
      <4>2. \A q \in Server : step[q] \in Cached => build[q] <= stamp
        BY <3>00
      <4> QED
        BY <1>00, <3>1, <3>3, <4>1, <4>2
    <3>5. \A q \in Server, a \in Owner :
            step'[q] \in Clearing /\ fanout'[a] # 0 => fanout'[a] = stamp' /\ build'[q] <= stamp'
      <4>1. \A q \in Server : q # p /\ step'[q] \in Clearing => step[q] \in Clearing
        BY <1>0, <3>3
      <4>2. step'[p] \notin Clearing
        BY <1>0, <3>3
      <4>3. \A q \in Server, a \in Owner :
              step[q] \in Clearing /\ fanout[a] # 0 => build[q] <= stamp
        BY <3>00
      <4> QED
        BY <1>00, <3>1, <3>2, <3>3, <4>1, <4>2, <4>3
    <3> QED
      BY <3>2, <3>3, <3>4, <3>5
  <2> QED
    BY <1>5, <2>1, <2>2, <2>3 DEF RenewCache
<1>6. ASSUME NEW p \in Server, Seed(p) \/ OpenFails(p) \/ Exit(p)
      PROVE  CacheOwn'
  BY <1>0, <1>6 DEF Seed, OpenFails, Exit
<1>7. ASSUME NEW p \in Server, NEW account \in Account, NEW done \in BOOLEAN,
             AddLabel(p, account, done) \/ RemoveLabel(p, account, done)
      PROVE  CacheOwn'
  BY <1>7 DEF AddLabel, RemoveLabel, Delete
<1>8. ASSUME NEW p \in Server, NEW f \in Finding, SaveFinding(p, f) \/ DeleteFinding(p, f)
      PROVE  CacheOwn'
  BY <1>8 DEF SaveFinding, DeleteFinding
<1>9. ASSUME NEW p \in Server, NEW b \in Owner, Measure(p, b)
      PROVE  CacheOwn'
  <2> SUFFICES ASSUME ~outdated' PROVE CacheOwn'
    OBVIOUS
  <2>0. outdated' = (outdated \/ build[p] < stamp \/ \E q \in Server : Renewing(q, build[p]))
    BY <1>9 DEF Measure
  <2>00. ~outdated /\ ~(build[p] < stamp)
    BY <1>000, <2>0, Zenon
  <2>1. \A q \in Server : ~Renewing(q, build[p])
    BY <2>0, Zenon
  <2>2. build[p] = stamp
    <3>1. build[p] <= stamp
      BY <1>9, <2>00 DEF Measure, Open
    <3> QED
      BY <1>00, <2>00, <3>1
  <2>3. fanout' = [fanout EXCEPT ![b] = stamp] /\ UNCHANGED <<stamp, step, build>>
    BY <1>9, <2>2 DEF Measure
  <2>4. \A q \in Server : step[q] \in Clearing => build[q] <= stamp
    BY <1>00, <2>1, <2>2 DEF Renewing
  <2>5. stamp # 0 /\ \A a \in Owner : fanout[a] \in {0, stamp}
    BY <1>00, <2>00, <2>2
  <2>6. \A q \in Server : step[q] \in Cached => build[q] <= stamp
    BY <2>00
  <2>7. \A a \in Owner : fanout'[a] \in {0, stamp}
    BY <1>0, <2>3, <2>5
  <2> QED
    BY <2>3, <2>4, <2>6, <2>7
<1>10. CASE UNCHANGED storeVars
  BY <1>10 DEF storeVars
<1> QED
  BY <1>1, <1>2, <1>3, <1>4, <1>5, <1>6, <1>7, <1>8, <1>9, <1>10 DEF StoreNext, Opens, Calls

\* A server reads only measurements of its own method from the cache, wherever
\* another died while it renewed the cache, as long as no older build works on a
\* file that a newer one has stamped.
THEOREM StoreFanoutOwn == StoreSpec => []FanoutOwn
<1>1. StoreInit => CacheOwn
  BY StoreAssumption DEF StoreInit, FreshFile, LegacyFile, StampedFile, CacheOwn, Cached,
     Clearing
<1>2. StoreInv /\ CacheOwn /\ [StoreNext]_storeVars => CacheOwn'
  BY StepCacheOwn DEF StoreInv
<1>3. StoreInv /\ CacheOwn => FanoutOwn
  <2> SUFFICES ASSUME StoreInv, CacheOwn, ~outdated, NEW p \in Server, Open(p),
                      build[p] >= stamp, NEW a \in Owner
               PROVE  fanout[a] \in {0, build[p]}
    BY DEF FanoutOwn
  <2>0. build[p] \in Versions /\ stamp \in Versions \cup {0}
    BY DEF StoreInv, StoreTypeOK
  <2>1. build[p] \in Nat /\ build[p] # 0 /\ stamp \in Nat
    <3>1. build[p] \in Nat /\ build[p] # 0
      BY <2>0, VersionIsPositive
    <3>2. CASE stamp = 0
      BY <3>1, <3>2
    <3>3. CASE stamp \in Versions
      BY <3>1, <3>3, VersionIsPositive
    <3> QED
      BY <2>0, <3>2, <3>3
  <2>2. build[p] <= stamp
    BY DEF CacheOwn, Cached, Open
  <2>3. build[p] = stamp /\ stamp # 0
    BY <2>1, <2>2
  <2> QED
    BY <2>3 DEF CacheOwn
<1> QED
  BY <1>1, <1>2, <1>3, StoreInvariant, PTL DEF StoreSpec
=============================================================================
